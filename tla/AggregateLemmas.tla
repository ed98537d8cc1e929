--------------------------- MODULE AggregateLemmas ---------------------------
(***************************************************************************)
(* Sums and maxima of finite sets of integers, as MapThenSumSet and Max of *)
(* the community modules compute them: what the counters of albums and of  *)
(* cleared tokens are compared with.                                       *)
(*                                                                         *)
(* MapThenSumSet takes the elements of a set in the order CHOOSE gives     *)
(* them.  SumOver is the same for a function; the lemmas show that it      *)
(* exists, and that the order does not matter.  They argue from a smallest *)
(* counterexample among the subsets of a finite set.                       *)
(*                                                                         *)
(* The last part is about ranks: where an order on a finite set puts each  *)
(* of its members, for the lists the stores give.                          *)
(***************************************************************************)
EXTENDS Integers, FiniteSets, FiniteSetsExt, FiniteSetTheorems, FunctionTheorems, WellFoundedInduction, TLAPS

Chosen(s) == CHOOSE x \in s : TRUE
Others(s) == s \ {Chosen(s)}

\* I maps each subset of S to the sum of f over it.
IsSummation(I, f, S) ==
  I = [s \in SUBSET S |-> IF s = {} THEN 0 ELSE f[Chosen(s)] + I[Others(s)]]

SumOver(f, S) == (CHOOSE I : IsSummation(I, f, S))[S]

LEMMA ChosenInside ==
  ASSUME NEW s, s # {}
  PROVE  Chosen(s) \in s /\ Others(s) \subseteq s /\ Others(s) # s
BY DEF Chosen, Others

\* A set of subsets of a finite set that is not empty has a smallest member.
LEMMA SmallestSubset ==
  ASSUME NEW S, IsFiniteSet(S), NEW Bad, Bad \subseteq SUBSET S, Bad # {}
  PROVE  \E T \in Bad : \A U \in SUBSET T : U # T => U \notin Bad
<1>1. IsWellFoundedOn(StrictSubsetOrdering(S), SUBSET S)
  BY FS_StrictSubsetOrderingWellFounded, FS_FiniteSubsetsOfFinite
<1>2. PICK T \in Bad : \A U \in Bad : ~(<<U, T>> \in StrictSubsetOrdering(S))
  BY <1>1, WFMin
<1>3. ASSUME NEW U \in SUBSET T, U # T, U \in Bad PROVE FALSE
  <2>1. <<U, T>> \in StrictSubsetOrdering(S)
    BY <1>3 DEF StrictSubsetOrdering
  <2>2. QED
    BY <1>2, <1>3, <2>1
<1>4. QED
  BY <1>3

-----------------------------------------------------------------------------
(* The summation of f exists and is unique *)

LEMMA SummationStep ==
  ASSUME NEW f, NEW S, NEW I, IsSummation(I, f, S), NEW s \in SUBSET S
  PROVE  /\ s = {} => I[s] = 0
         /\ s # {} => I[s] = f[Chosen(s)] + I[Others(s)]
BY DEF IsSummation

\* Two summations agree where both are defined.
LEMMA SummationUnique ==
  ASSUME NEW f, NEW S, NEW T \in SUBSET S, IsFiniteSet(S), NEW I, NEW J,
         IsSummation(I, f, S), IsSummation(J, f, T)
  PROVE  I[T] = J[T]
<1> DEFINE Bad == {U \in SUBSET T : I[U] # J[U]}
<1>1. CASE Bad = {}
  BY <1>1
<1>2. CASE Bad # {}
  <2>1. IsFiniteSet(T)
    BY FS_Subset
  <2>2. PICK U \in Bad : \A V \in SUBSET U : V # U => V \notin Bad
    <3> HIDE DEF Bad
    <3>1. Bad \subseteq SUBSET T
      BY DEF Bad
    <3>2. QED
      BY <1>2, <2>1, <3>1, SmallestSubset
  <2>3. U \in SUBSET T /\ U \in SUBSET S /\ I[U] # J[U]
    OBVIOUS
  <2>4. CASE U = {}
    BY <2>3, <2>4, SummationStep
  <2>5. CASE U # {}
    <3>1. Others(U) \in SUBSET U /\ Others(U) # U
      BY <2>5, ChosenInside
    <3>2. Others(U) \in SUBSET T /\ Others(U) \notin Bad
      BY <2>2, <2>3, <3>1
    <3>3. I[Others(U)] = J[Others(U)]
      BY <3>2
    <3>4. I[U] = f[Chosen(U)] + I[Others(U)] /\ J[U] = f[Chosen(U)] + J[Others(U)]
      BY <2>3, <2>5, SummationStep
    <3>5. QED
      BY <2>3, <3>3, <3>4
  <2>6. QED
    BY <2>4, <2>5
<1>3. QED
  BY <1>1, <1>2

\* SumOver is the value of any summation.
LEMMA SumOverIs ==
  ASSUME NEW f, NEW S, IsFiniteSet(S), NEW I, IsSummation(I, f, S)
  PROVE  I[S] = SumOver(f, S)
<1>1. IsSummation(CHOOSE J : IsSummation(J, f, S), f, S)
  OBVIOUS
<1>2. QED
  BY <1>1, SummationUnique DEF SumOver

LEMMA SummationExists ==
  ASSUME NEW f, NEW S, IsFiniteSet(S)
  PROVE  \E I : IsSummation(I, f, S)
<1> DEFINE Has(T) == \E I : IsSummation(I, f, T)
           Bad == {T \in SUBSET S : ~Has(T)}
<1>1. CASE Bad = {}
  BY <1>1
<1>2. CASE Bad # {}
  <2>1. PICK T \in Bad : \A U \in SUBSET T : U # T => U \notin Bad
    <3> HIDE DEF Bad
    <3>1. Bad \subseteq SUBSET S
      BY DEF Bad
    <3>2. QED
      BY <1>2, <3>1, SmallestSubset
  <2>2. ~Has(T) /\ T \in SUBSET S
    OBVIOUS
  <2>3. ASSUME NEW U \in SUBSET T, U # T
        PROVE  IsFiniteSet(U) /\ Has(U)
    BY <2>1, <2>2, <2>3, FS_Subset
  <2> DEFINE I == [s \in SUBSET T |->
                     IF s = {} THEN 0 ELSE f[Chosen(s)] + SumOver(f, Others(s))]
  <2>4. ASSUME NEW u \in SUBSET T, u # T
        PROVE  I[u] = SumOver(f, u)
    <3>1. PICK J : IsSummation(J, f, u)
      BY <2>3, <2>4
    <3>2. J[u] = SumOver(f, u)
      BY <2>3, <2>4, <3>1, SumOverIs
    <3>3. CASE u = {}
      BY <3>1, <3>2, <3>3, SummationStep
    <3>4. CASE u # {}
      <4>1. Others(u) \in SUBSET u /\ Others(u) \in SUBSET T /\ Others(u) # T
        BY <2>4, <3>4, ChosenInside
      <4>2. PICK K : IsSummation(K, f, Others(u))
        BY <2>3, <4>1
      <4>3. K[Others(u)] = SumOver(f, Others(u))
        BY <2>3, <4>1, <4>2, SumOverIs
      <4>4. J[Others(u)] = K[Others(u)]
        BY <2>3, <2>4, <3>1, <4>1, <4>2, SummationUnique
      <4>5. J[u] = f[Chosen(u)] + J[Others(u)]
        BY <3>1, <3>4, SummationStep
      <4>6. I[u] = f[Chosen(u)] + SumOver(f, Others(u))
        BY <3>4
      <4>7. QED
        BY <3>2, <4>3, <4>4, <4>5, <4>6
    <3>5. QED
      BY <3>3, <3>4
  <2>5. \A s \in SUBSET T : s # {} => I[Others(s)] = SumOver(f, Others(s))
    <3>1. ASSUME NEW s \in SUBSET T, s # {}
          PROVE  Others(s) \in SUBSET T /\ Others(s) # T
      BY <3>1, ChosenInside
    <3> HIDE DEF I
    <3>2. QED
      BY <2>4, <3>1
  <2>6. I = [s \in SUBSET T |-> IF s = {} THEN 0 ELSE f[Chosen(s)] + I[Others(s)]]
    <3>1. \A s \in SUBSET T : I[s] = IF s = {} THEN 0 ELSE f[Chosen(s)] + I[Others(s)]
      BY <2>5
    <3>2. I = [s \in SUBSET T |-> I[s]]
      OBVIOUS
    <3> HIDE DEF I
    <3>3. QED
      BY <3>1, <3>2
  <2>7. QED
    BY <2>2, <2>6 DEF IsSummation
<1>3. QED
  BY <1>1, <1>2

-----------------------------------------------------------------------------
(* What a sum is *)

\* A sum, one element at a time, in the order of CHOOSE.
LEMMA SumOverStep ==
  ASSUME NEW f, NEW S, IsFiniteSet(S)
  PROVE  /\ S = {} => SumOver(f, S) = 0
         /\ S # {} => SumOver(f, S) = f[Chosen(S)] + SumOver(f, Others(S))
<1>1. PICK I : IsSummation(I, f, S)
  BY SummationExists
<1>2. I[S] = SumOver(f, S)
  BY <1>1, SumOverIs
<1>3. CASE S = {}
  BY <1>1, <1>2, <1>3, SummationStep
<1>4. CASE S # {}
  <2>1. Others(S) \in SUBSET S /\ IsFiniteSet(Others(S))
    BY <1>4, ChosenInside, FS_Subset
  <2>2. PICK J : IsSummation(J, f, Others(S))
    BY <2>1, SummationExists
  <2>3. I[Others(S)] = SumOver(f, Others(S))
    BY <1>1, <2>1, <2>2, SumOverIs, SummationUnique
  <2>4. QED
    BY <1>1, <1>2, <1>4, <2>3, SummationStep
<1>5. QED
  BY <1>3, <1>4

\* A sum of integers is an integer, and one of naturals a natural.
LEMMA SumOverType ==
  ASSUME NEW f, NEW S, IsFiniteSet(S), NEW N \in {Nat, Int}, \A x \in S : f[x] \in N
  PROVE  SumOver(f, S) \in N
<1> DEFINE Bad == {T \in SUBSET S : SumOver(f, T) \notin N}
<1>1. CASE Bad = {}
  BY <1>1
<1>2. CASE Bad # {}
  <2>1. PICK T \in Bad : \A U \in SUBSET T : U # T => U \notin Bad
    <3> HIDE DEF Bad
    <3>1. Bad \subseteq SUBSET S
      BY DEF Bad
    <3>2. QED
      BY <1>2, <3>1, SmallestSubset
  <2>2. T \in SUBSET S /\ SumOver(f, T) \notin N /\ IsFiniteSet(T)
    BY FS_Subset
  <2>3. CASE T = {}
    BY <2>2, <2>3, SumOverStep
  <2>4. CASE T # {}
    <3>1. Others(T) \in SUBSET T /\ Others(T) # T /\ Chosen(T) \in S
      BY <2>2, <2>4, ChosenInside
    <3>2. SumOver(f, Others(T)) \in N
      BY <2>1, <2>2, <3>1
    <3>3. SumOver(f, T) = f[Chosen(T)] + SumOver(f, Others(T))
      BY <2>2, <2>4, SumOverStep
    <3>4. \A a, b \in N : a + b \in N
      OBVIOUS
    <3>5. QED
      BY <2>2, <3>1, <3>2, <3>3, <3>4
  <2>5. QED
    BY <2>3, <2>4
<1>3. QED
  BY <1>1, <1>2

\* Functions that agree on a set have the same sum over it.
LEMMA SumOverCong ==
  ASSUME NEW f, NEW g, NEW S, IsFiniteSet(S), \A x \in S : f[x] = g[x]
  PROVE  SumOver(f, S) = SumOver(g, S)
<1> DEFINE Bad == {T \in SUBSET S : SumOver(f, T) # SumOver(g, T)}
<1>1. CASE Bad = {}
  BY <1>1
<1>2. CASE Bad # {}
  <2>1. PICK T \in Bad : \A U \in SUBSET T : U # T => U \notin Bad
    <3> HIDE DEF Bad
    <3>1. Bad \subseteq SUBSET S
      BY DEF Bad
    <3>2. QED
      BY <1>2, <3>1, SmallestSubset
  <2>2. T \in SUBSET S /\ SumOver(f, T) # SumOver(g, T) /\ IsFiniteSet(T)
    BY FS_Subset
  <2>3. CASE T = {}
    BY <2>2, <2>3, SumOverStep
  <2>4. CASE T # {}
    <3>1. Others(T) \in SUBSET T /\ Others(T) # T /\ Chosen(T) \in S
      BY <2>2, <2>4, ChosenInside
    <3>2. SumOver(f, Others(T)) = SumOver(g, Others(T))
      BY <2>1, <2>2, <3>1
    <3>3. /\ SumOver(f, T) = f[Chosen(T)] + SumOver(f, Others(T))
          /\ SumOver(g, T) = g[Chosen(T)] + SumOver(g, Others(T))
      BY <2>2, <2>4, SumOverStep
    <3>4. QED
      BY <2>2, <3>1, <3>2, <3>3
  <2>5. QED
    BY <2>3, <2>4
<1>3. QED
  BY <1>1, <1>2

\* Any element may be taken out first: the order does not matter.
LEMMA SumOverTake ==
  ASSUME NEW f, NEW S, IsFiniteSet(S), \A x \in S : f[x] \in Int, NEW x \in S
  PROVE  SumOver(f, S) = f[x] + SumOver(f, S \ {x})
<1> DEFINE Takes(T) == \A y \in T : SumOver(f, T) = f[y] + SumOver(f, T \ {y})
           Bad == {T \in SUBSET S : ~Takes(T)}
<1>1. CASE Bad = {}
  BY <1>1
<1>2. CASE Bad # {}
  <2>1. PICK T \in Bad : \A U \in SUBSET T : U # T => U \notin Bad
    <3> HIDE DEF Bad
    <3>1. Bad \subseteq SUBSET S
      BY DEF Bad
    <3>2. QED
      BY <1>2, <3>1, SmallestSubset
  <2>2. T \in SUBSET S /\ IsFiniteSet(T) /\ ~Takes(T)
    BY FS_Subset
  <2>3. PICK y \in T : SumOver(f, T) # f[y] + SumOver(f, T \ {y})
    BY <2>2
  <2>4. PICK c \in T : SumOver(f, T) = f[c] + SumOver(f, T \ {c})
    BY <2>2, ChosenInside, SumOverStep DEF Others
  <2>5. y # c
    BY <2>3, <2>4
  <2>6. Takes(T \ {c}) /\ Takes(T \ {y})
    BY <2>1, <2>2, <2>4
  <2>7. /\ SumOver(f, T \ {c}) = f[y] + SumOver(f, (T \ {c}) \ {y})
        /\ SumOver(f, T \ {y}) = f[c] + SumOver(f, (T \ {y}) \ {c})
    BY <2>4, <2>5, <2>6
  <2>8. (T \ {c}) \ {y} = (T \ {y}) \ {c}
    OBVIOUS
  <2>9. f[c] \in Int /\ f[y] \in Int /\ SumOver(f, (T \ {y}) \ {c}) \in Int
    <3>1. IsFiniteSet((T \ {y}) \ {c}) /\ \A z \in (T \ {y}) \ {c} : f[z] \in Int
      BY <2>2, FS_Subset
    <3>2. SumOver(f, (T \ {y}) \ {c}) \in Int
      BY <3>1, SumOverType
    <3>3. QED
      BY <2>2, <2>4, <3>2
  <2> HIDE DEF Takes, Bad
  <2>10. PICK a \in Int, b \in Int, n \in Int :
           a = f[c] /\ b = f[y] /\ n = SumOver(f, (T \ {y}) \ {c})
    BY <2>9
  <2>11. SumOver(f, T \ {c}) = b + n /\ SumOver(f, T \ {y}) = a + n
    BY <2>7, <2>8, <2>10
  <2>12. SumOver(f, T) = a + (b + n)
    BY <2>4, <2>10, <2>11
  <2>13. QED
    BY <2>3, <2>10, <2>11, <2>12
<1>3. QED
  BY <1>1, <1>2

\* What changing one entry does to a sum.
LEMMA SumOverChange ==
  ASSUME NEW f, NEW g, NEW S, IsFiniteSet(S),
         \A x \in S : f[x] \in Int /\ g[x] \in Int,
         NEW y \in S, \A x \in S \ {y} : f[x] = g[x]
  PROVE  SumOver(g, S) = SumOver(f, S) + (g[y] - f[y])
<1>1. IsFiniteSet(S \ {y})
  BY FS_Subset
<1>2. SumOver(f, S \ {y}) = SumOver(g, S \ {y}) /\ SumOver(f, S \ {y}) \in Int
  BY <1>1, SumOverCong, SumOverType
<1>3. /\ SumOver(f, S) = f[y] + SumOver(f, S \ {y})
      /\ SumOver(g, S) = g[y] + SumOver(g, S \ {y})
  BY SumOverTake
<1>4. QED
  BY <1>2, <1>3

\* What adding an element to the set does to a sum.
LEMMA SumOverAdd ==
  ASSUME NEW f, NEW S, IsFiniteSet(S), NEW y, y \notin S,
         f[y] \in Int, \A x \in S : f[x] \in Int
  PROVE  SumOver(f, S \cup {y}) = SumOver(f, S) + f[y]
<1>1. IsFiniteSet(S \cup {y}) /\ (S \cup {y}) \ {y} = S
  BY FS_AddElement
<1>2. SumOver(f, S) \in Int
  BY SumOverType
<1>3. SumOver(f, S \cup {y}) = f[y] + SumOver(f, S)
  BY <1>1, SumOverTake
<1>4. QED
  BY <1>2, <1>3

\* The sum and the size of S when y joins it, and when y leaves it.
Gained(f, g, S, y) ==
  \E k \in Nat, sum \in Nat :
    /\ IsFiniteSet(S \cup {y}) /\ Cardinality(S \cup {y}) = k + 1 /\ Cardinality(S) = k
    /\ (k = 0 <=> S = {}) /\ (S = {} => sum = 0)
    /\ SumOver(f, S) = sum /\ SumOver(g, S \cup {y}) = sum + g[y]

Lost(f, g, S, y) ==
  \E k \in Nat, sum \in Nat :
    /\ IsFiniteSet(S \ {y}) /\ Cardinality(S \ {y}) = k /\ Cardinality(S) = k + 1
    /\ (k = 0 <=> S \ {y} = {})
    /\ SumOver(g, S \ {y}) = sum /\ SumOver(f, S) = f[y] + sum

LEMMA Gains ==
  ASSUME NEW f, NEW g, NEW S, IsFiniteSet(S), NEW y, y \notin S,
         \A x \in S : f[x] \in Nat /\ f[x] = g[x], g[y] \in Nat
  PROVE  Gained(f, g, S, y)
<1>1. SumOver(f, S) \in Nat
  BY SumOverType
<1>2. S = {} => SumOver(f, S) = 0
  BY SumOverStep
<1>3. SumOver(f, S) = SumOver(g, S)
  BY SumOverCong
<1>4. SumOver(g, S \cup {y}) = SumOver(g, S) + g[y]
  <2>1. g[y] \in Int /\ \A x \in S : g[x] \in Int
    OBVIOUS
  <2>2. QED
    BY <2>1, SumOverAdd
<1>5. /\ IsFiniteSet(S \cup {y}) /\ Cardinality(S) \in Nat /\ (Cardinality(S) = 0 <=> S = {})
      /\ Cardinality(S \cup {y}) = Cardinality(S) + 1
  BY FS_CardinalityType, FS_EmptySet, FS_AddElement
<1>6. QED
  BY <1>1, <1>2, <1>3, <1>4, <1>5 DEF Gained

LEMMA Loses ==
  ASSUME NEW f, NEW g, NEW S, IsFiniteSet(S), NEW y \in S,
         \A x \in S : f[x] \in Nat, \A x \in S \ {y} : f[x] = g[x]
  PROVE  Lost(f, g, S, y)
<1> DEFINE T == S \ {y}
<1>1. IsFiniteSet(T) /\ Cardinality(T) = Cardinality(S) - 1
  BY FS_RemoveElement
<1> HIDE DEF T
<1>2. PICK k \in Nat : k = Cardinality(T) /\ (k = 0 <=> T = {})
  BY <1>1, FS_CardinalityType, FS_EmptySet
<1>3. Cardinality(S) \in Nat
  BY FS_CardinalityType
<1>4. Cardinality(S) = k + 1
  BY <1>1, <1>2, <1>3
<1>5. PICK sum \in Nat : sum = SumOver(g, T)
  <2>1. \A x \in T : g[x] \in Nat
    BY DEF T
  <2>2. QED
    BY <1>1, <2>1, SumOverType
<1>6. SumOver(f, T) = sum
  <2>1. \A x \in T : f[x] = g[x]
    BY DEF T
  <2>2. SumOver(f, T) = SumOver(g, T)
    BY <1>1, <2>1, SumOverCong
  <2>3. QED
    BY <1>5, <2>2
<1>7. SumOver(f, S) = f[y] + SumOver(f, S \ {y})
  <2>1. \A x \in S : f[x] \in Int
    OBVIOUS
  <2>2. QED
    BY <2>1, SumOverTake
<1>8. QED
  BY <1>1, <1>2, <1>4, <1>5, <1>6, <1>7 DEF T, Lost

-----------------------------------------------------------------------------
(* Maxima *)

\* A finite set of integers that is not empty has a maximum, which Max chooses.
LEMMA MaxIsMax ==
  ASSUME NEW S, IsFiniteSet(S), S \subseteq Int, S # {}
  PROVE  Max(S) \in S /\ \A x \in S : x <= Max(S)
<1> DEFINE Tops(T) == \E m \in T : \A x \in T : m >= x
           Bad == {T \in SUBSET S : T # {} /\ ~Tops(T)}
<1>1. CASE S \notin Bad
  BY <1>1 DEF Max
<1>2. CASE S \in Bad
  <2>1. PICK T \in Bad : \A U \in SUBSET T : U # T => U \notin Bad
    <3> HIDE DEF Bad
    <3>1. Bad \subseteq SUBSET S /\ Bad # {}
      BY <1>2 DEF Bad
    <3>2. QED
      BY <3>1, SmallestSubset
  <2>2. T \in SUBSET S /\ T # {} /\ ~Tops(T)
    OBVIOUS
  <2>3. PICK y \in T : TRUE
    BY <2>2
  <2>4. y \in Int /\ \A x \in T : x \in Int
    BY <2>2
  <2>5. CASE T \ {y} = {}
    <3>1. \A x \in T : y >= x
      BY <2>4, <2>5
    <3>2. QED
      BY <2>2, <3>1
  <2>6. CASE T \ {y} # {}
    <3>1. T \ {y} \in SUBSET T /\ T \ {y} # T /\ T \ {y} \in SUBSET S
      BY <2>2, <2>3
    <3>2. PICK m \in T \ {y} : \A x \in T \ {y} : m >= x
      BY <2>1, <2>6, <3>1
    <3>3. m \in Int /\ m \in T
      BY <2>4
    <3>4. CASE m >= y
      <4>1. \A x \in T : m >= x
        BY <3>2, <3>4
      <4>2. QED
        BY <2>2, <3>3, <4>1
    <3>5. CASE ~(m >= y)
      <4>1. \A x \in T : y >= x
        BY <2>4, <3>2, <3>3, <3>5
      <4>2. QED
        BY <2>2, <4>1
    <3>6. QED
      BY <3>4, <3>5
  <2>7. QED
    BY <2>5, <2>6
<1>3. QED
  BY <1>1, <1>2

\* There is only one.
LEMMA MaxIs ==
  ASSUME NEW S, S \subseteq Int, NEW m \in S, \A x \in S : x <= m
  PROVE  Max(S) = m
<1>1. \A x \in S : m >= x
  OBVIOUS
<1>2. Max(S) \in S /\ \A x \in S : Max(S) >= x
  BY <1>1 DEF Max
<1>3. m \in Int /\ Max(S) \in Int /\ Max(S) <= m /\ Max(S) >= m
  BY <1>2
<1>4. QED
  BY <1>3

\* Adding a number to a set moves its maximum there, or leaves it.
LEMMA MaxAdd ==
  ASSUME NEW S, IsFiniteSet(S), S \subseteq Int, S # {}, NEW n \in Int
  PROVE  Max(S \cup {n}) = Max({Max(S), n})
<1>1. PICK m \in Int : m = Max(S) /\ m \in S /\ \A x \in S : x <= m
  BY MaxIsMax
<1>2. CASE n <= m
  <2>1. Max(S \cup {n}) = m
    BY <1>1, <1>2, MaxIs
  <2>2. Max({m, n}) = m
    BY <1>2, MaxIs
  <2>3. QED
    BY <1>1, <2>1, <2>2
<1>3. CASE n > m
  <2>1. Max(S \cup {n}) = n
    <3>1. S \cup {n} \subseteq Int /\ n \in S \cup {n}
      OBVIOUS
    <3>2. \A x \in S \cup {n} : x <= n
      BY <1>1, <1>3
    <3>3. QED
      BY <3>1, <3>2, MaxIs
  <2>2. Max({m, n}) = n
    BY <1>3, MaxIs
  <2>3. QED
    BY <1>1, <2>1, <2>2
<1>4. QED
  BY <1>2, <1>3

\* Of natural numbers, 0 is not the largest unless it is the only one.
LEMMA MaxFromZero ==
  ASSUME NEW S, IsFiniteSet(S), S \subseteq Nat, S # {}
  PROVE  Max({0} \cup S) = Max(S)
<1>1. S \subseteq Int
  OBVIOUS
<1>2. Max(S) \in S /\ \A x \in S : x <= Max(S)
  BY <1>1, MaxIsMax
<1>3. PICK n \in Nat : n = Max(S) /\ n \in S /\ \A x \in S : x <= n
  BY <1>2
<1>4. {0} \cup S \subseteq Int /\ n \in {0} \cup S /\ \A x \in {0} \cup S : x <= n
  BY <1>3
<1>5. Max({0} \cup S) = n
  BY <1>4, MaxIs
<1>6. QED
  BY <1>3, <1>5

\* The image of a finite set under a function is finite.
LEMMA ImageFinite ==
  ASSUME NEW f, NEW S, IsFiniteSet(S)
  PROVE  IsFiniteSet({f[x] : x \in S})
<1> DEFINE T == {f[x] : x \in S}
           g == [x \in S |-> f[x]]
<1>1. g \in Surjection(S, T)
  BY DEF Surjection
<1>2. QED
  BY <1>1, FS_Surjection

LEMMA MinIsMin ==
  ASSUME NEW S, IsFiniteSet(S), S \subseteq Int, S # {}
  PROVE  Min(S) \in S /\ \A x \in S : Min(S) <= x
<1> DEFINE f == [x \in S |-> -x]
           T == {f[x] : x \in S}
<1>1. T \subseteq Int /\ T # {}
  <2>1. PICK k \in S : f[k] \in T
    OBVIOUS
  <2>2. \A x \in S : f[x] \in Int
    OBVIOUS
  <2> HIDE DEF f
  <2>3. QED
    BY <2>1, <2>2
<1>2. IsFiniteSet(T)
  <2> HIDE DEF f
  <2>1. QED
    BY ImageFinite
<1>3. PICK t \in T : \A u \in T : u <= t
  <2> HIDE DEF T
  <2>1. QED
    BY <1>1, <1>2, MaxIsMax
<1>4. PICK m \in S : t = f[m]
  BY <1>3
<1>5. m \in Int /\ t = -m /\ \A x \in S : x \in Int /\ -x \in T
  BY <1>4
<1>6. ASSUME NEW x \in S PROVE m <= x
  <2>1. x \in Int /\ -x <= -m
    BY <1>3, <1>4, <1>5
  <2>2. QED
    BY <1>5, <2>1
<1>7. QED
  BY <1>6 DEF Min

-----------------------------------------------------------------------------
(* Lists in an order.  before[x] is what comes before x in S; where the order is strict and
   total, the i-th place of the list belongs to one element, the one with i - 1 before it. *)

IsOrderOf(S, before) ==
  /\ before \in [S -> SUBSET S]
  /\ \A x \in S : x \notin before[x]
  /\ \A x, y \in S : x \in before[y] => before[x] \subseteq before[y]
  /\ \A x, y \in S : x = y \/ x \in before[y] \/ y \in before[x]

\* What comes later has more before it.
LEMMA RankGrows ==
  ASSUME NEW S, IsFiniteSet(S), NEW before, IsOrderOf(S, before),
         NEW x \in S, NEW y \in S, x \in before[y]
  PROVE  Cardinality(before[x]) < Cardinality(before[y])
<1>1. before[x] \in SUBSET S /\ before[y] \in SUBSET S
  BY DEF IsOrderOf
<1>2. before[x] \subseteq before[y] /\ x \notin before[x]
  BY DEF IsOrderOf
<1>3. IsFiniteSet(before[x]) /\ IsFiniteSet(before[y])
  BY <1>1, FS_Subset
<1>4. before[x] \cup {x} \in SUBSET before[y]
  BY <1>2
<1>5. Cardinality(before[x] \cup {x}) = Cardinality(before[x]) + 1
  BY <1>2, <1>3, FS_AddElement
<1>6. Cardinality(before[x] \cup {x}) <= Cardinality(before[y])
  BY <1>3, <1>4, FS_Subset
<1>7. Cardinality(before[x]) \in Nat /\ Cardinality(before[y]) \in Nat
  BY <1>3, FS_CardinalityType
<1>8. QED
  BY <1>5, <1>6, <1>7

LEMMA RankType ==
  ASSUME NEW S, IsFiniteSet(S), NEW before, IsOrderOf(S, before), NEW x \in S
  PROVE  Cardinality(before[x]) \in 0..(Cardinality(S) - 1)
<1>1. before[x] \in SUBSET S /\ before[x] # S
  BY DEF IsOrderOf
<1>2. Cardinality(S) \in Nat
  BY FS_CardinalityType
<1>3. IsFiniteSet(before[x]) /\ Cardinality(before[x]) <= Cardinality(S)
      /\ Cardinality(before[x]) # Cardinality(S)
  BY <1>1, FS_Subset
<1>4. Cardinality(before[x]) \in Nat
  BY <1>3, FS_CardinalityType
<1>5. QED
  BY <1>2, <1>3, <1>4

\* No two elements share a place.
LEMMA RankUnique ==
  ASSUME NEW S, IsFiniteSet(S), NEW before, IsOrderOf(S, before),
         NEW x \in S, NEW y \in S, Cardinality(before[x]) = Cardinality(before[y])
  PROVE  x = y
<1>1. Cardinality(before[x]) \in Int /\ Cardinality(before[y]) \in Int
  BY RankType
<1>2. x \notin before[y]
  <2>1. SUFFICES ASSUME x \in before[y] PROVE FALSE
    OBVIOUS
  <2>2. Cardinality(before[x]) < Cardinality(before[y])
    BY <2>1, RankGrows
  <2>3. QED
    BY <1>1, <2>2
<1>3. y \notin before[x]
  <2>1. SUFFICES ASSUME y \in before[x] PROVE FALSE
    OBVIOUS
  <2>2. Cardinality(before[y]) < Cardinality(before[x])
    BY <2>1, RankGrows
  <2>3. QED
    BY <1>1, <2>2
<1>4. QED
  BY <1>2, <1>3 DEF IsOrderOf

\* No place is empty.
LEMMA RankExists ==
  ASSUME NEW S, IsFiniteSet(S), NEW before, IsOrderOf(S, before), NEW i \in 1..Cardinality(S)
  PROVE  \E x \in S : Cardinality(before[x]) = i - 1
<1> DEFINE n == Cardinality(S)
           places == 0..(n - 1)
           rank == [x \in S |-> Cardinality(before[x])]
<1>1. n \in Nat
  BY FS_CardinalityType
<1>2. IsFiniteSet(places) /\ Cardinality(places) = n
  <2>1. IsFiniteSet(places) /\ Cardinality(places) = IF 0 > n - 1 THEN 0 ELSE n - 1 - 0 + 1
    <3>1. 0 \in Int /\ n - 1 \in Int
      <4> HIDE DEF n
      <4>1. QED
        BY <1>1
    <3> HIDE DEF n
    <3>2. QED
      BY <3>1, FS_Interval
  <2>2. n = IF 0 > n - 1 THEN 0 ELSE n - 1 - 0 + 1
    <3> HIDE DEF n
    <3>1. QED
      BY <1>1
  <2>3. QED
    BY <2>1, <2>2
<1>3. rank \in Injection(S, places)
  <2>1. rank \in [S -> places]
    BY RankType
  <2>2. \A x, y \in S : rank[x] = rank[y] => x = y
    BY RankUnique
  <2>3. QED
    BY <2>1, <2>2, Fun_IsInj
<1>4. rank \in Surjection(S, places)
  BY <1>2, <1>3, FS_Injection
<1>5. i - 1 \in places
  <2>1. i \in 1..n
    OBVIOUS
  <2> HIDE DEF n
  <2>2. QED
    BY <1>1, <2>1
<1>6. \E x \in S : rank[x] = i - 1
  <2> HIDE DEF rank, places
  <2>1. \A p \in places : \E x \in S : rank[x] = p
    BY <1>4, Fun_SurjectionProperties
  <2>2. QED
    BY <1>5, <2>1
<1>7. PICK x \in S : rank[x] = i - 1
  BY <1>6
<1>8. rank[x] = Cardinality(before[x])
  OBVIOUS
<1>9. QED
  BY <1>7, <1>8

\* The list of S: every element has a place, and what has an earlier place comes before.
Nth(S, before, i) == CHOOSE x \in S : Cardinality(before[x]) = i - 1

LEMMA Places ==
  ASSUME NEW S, IsFiniteSet(S), NEW before, IsOrderOf(S, before)
  PROVE  /\ \A i \in 1..Cardinality(S) : Nth(S, before, i) \in S
         /\ \A x \in S : \E i \in 1..Cardinality(S) : Nth(S, before, i) = x
         /\ \A i, j \in 1..Cardinality(S) :
              i < j => Nth(S, before, i) \in before[Nth(S, before, j)]
<1> DEFINE n == Cardinality(S)
           at(i) == Nth(S, before, i)
<1>1. n \in Nat
  BY FS_CardinalityType
<1>2. ASSUME NEW i \in 1..n PROVE at(i) \in S /\ Cardinality(before[at(i)]) = i - 1
  BY RankExists DEF Nth
<1>3. ASSUME NEW x \in S PROVE \E i \in 1..n : at(i) = x
  <2>1. PICK r \in Int : r = Cardinality(before[x]) /\ 0 <= r /\ r <= n - 1
    BY <1>1, RankType
  <2>2. r + 1 \in 1..n
    BY <1>1, <2>1
  <2>3. at(r + 1) \in S /\ Cardinality(before[at(r + 1)]) = r + 1 - 1
    BY <1>2, <2>2
  <2>4. at(r + 1) = x
    <3> HIDE DEF at
    <3>1. QED
      BY <2>1, <2>3, RankUnique
  <2>5. QED
    BY <2>2, <2>4
<1>4. ASSUME NEW i \in 1..n, NEW j \in 1..n, i < j PROVE at(i) \in before[at(j)]
  <2>1. /\ at(i) \in S /\ Cardinality(before[at(i)]) = i - 1
        /\ at(j) \in S /\ Cardinality(before[at(j)]) = j - 1
    BY <1>2
  <2> HIDE DEF at, n
  <2>2. i \in Int /\ j \in Int
    BY <1>1
  <2>3. at(i) # at(j)
    BY <1>4, <2>1, <2>2
  <2>4. at(j) \notin before[at(i)]
    <3> SUFFICES ASSUME at(j) \in before[at(i)] PROVE FALSE
      OBVIOUS
    <3>1. Cardinality(before[at(j)]) < Cardinality(before[at(i)])
      BY <2>1, RankGrows
    <3>2. QED
      BY <1>4, <2>1, <2>2, <3>1
  <2>5. QED
    BY <2>1, <2>3, <2>4 DEF IsOrderOf
<1>5. QED
  BY <1>2, <1>3, <1>4
=============================================================================
