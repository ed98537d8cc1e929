-------------------------- MODULE ClientAuthProofs --------------------------
(***************************************************************************)
(* What the client's token store promises for any number of calls in       *)
(* flight and any number of pairings.                                      *)
(***************************************************************************)
EXTENDS ClientAuth, AggregateLemmas

\* Tokens are numbered in the order they are minted, so the one in the store is
\* the newest and a call carries none newer.
TokenInv ==
  /\ paired \in 0..MaxTokens
  /\ store \in {None, paired}
  /\ pc \in [Calls -> {"idle", "sent", "answered", "clearing"}]
  /\ sent \in [Calls -> 0..MaxTokens]
  /\ status \in [Calls -> {0, 200, 401}]
  /\ \A c \in Calls : sent[c] <= paired
  /\ alone \subseteq 1..paired

\* A call that is about to clear has seen its token rejected, and no call
\* carries a token older than one that was stored alone.
ClearInv ==
  /\ \A c \in Calls : pc[c] = "clearing" => sent[c] \in rejected /\ sent[c] # None
  /\ \A t \in alone, c \in Calls : sent[c] # None => sent[c] >= t

LEMMA TokenStep == TokenInv /\ [Next]_vars => TokenInv'
<1> SUFFICES ASSUME TokenInv, [Next]_vars PROVE TokenInv'
  OBVIOUS
<1> USE ClientAuthAssumption DEF TokenInv, None
<1>1. ASSUME NEW c \in Calls, Send(c) PROVE TokenInv'
  <2>1. store \in 0..MaxTokens /\ store <= paired
    OBVIOUS
  <2>2. QED
    BY <1>1, <2>1 DEF Send, client, server, history
<1>2. ASSUME NEW c \in Calls, Serve(c) PROVE TokenInv'
  BY <1>2 DEF Serve, client, server, history
<1>3. ASSUME NEW c \in Calls, Latch(c) PROVE TokenInv'
  BY <1>3 DEF Latch, Finish, server
<1>4. ASSUME NEW c \in Calls, Clear(c) PROVE TokenInv'
  BY <1>4 DEF Clear, Finish, server
<1>5. CASE Pair
  BY <1>5 DEF Pair
<1>6. ASSUME NEW t \in Tokens, Revoke(t) PROVE TokenInv'
  BY <1>6 DEF Revoke, client, history
<1>7. CASE UNCHANGED vars
  BY <1>7 DEF vars, client, server, history
<1>8. QED
  BY <1>1, <1>2, <1>3, <1>4, <1>5, <1>6, <1>7 DEF Next, Intercept

LEMMA ClearStep == TokenInv /\ ClearInv /\ [Next]_vars => ClearInv'
<1> SUFFICES ASSUME TokenInv, ClearInv, [Next]_vars PROVE ClearInv'
  OBVIOUS
<1> USE ClientAuthAssumption DEF TokenInv, ClearInv, None
\* A new call carries what the store holds: nothing, or the newest token.
<1>1. ASSUME NEW c \in Calls, Send(c) PROVE ClearInv'
  <2>1. store # None => \A t \in alone : store >= t
    OBVIOUS
  <2>2. QED
    BY <1>1, <2>1 DEF Send, client, server, history
<1>2. ASSUME NEW c \in Calls, Serve(c) PROVE ClearInv'
  BY <1>2 DEF Serve, client, server, history
<1>3. ASSUME NEW c \in Calls, Latch(c) PROVE ClearInv'
  BY <1>3 DEF Latch, Finish, Rejected, server
<1>4. ASSUME NEW c \in Calls, Clear(c) PROVE ClearInv'
  BY <1>4 DEF Clear, Finish, server
\* A token joins those stored alone only when no call carries any.
<1>5. CASE Pair
  BY <1>5 DEF Pair
<1>6. ASSUME NEW t \in Tokens, Revoke(t) PROVE ClearInv'
  BY <1>6 DEF Revoke, client, history
<1>7. CASE UNCHANGED vars
  BY <1>7 DEF vars, client, server, history
<1>8. QED
  BY <1>1, <1>2, <1>3, <1>4, <1>5, <1>6, <1>7 DEF Next, Intercept

\* Late 401s of earlier tokens never sign a freshly paired phone out: a token
\* that was stored while no call carried another leaves the store only after the
\* server rejected that very token, however many calls clear at once.
THEOREM LoneTokenIsKept == Spec => LoneTokenKept
<1>1. Init => TokenInv /\ ClearInv
  BY ClientAuthAssumption DEF Init, TokenInv, ClearInv, None
<1>2. TokenInv /\ ClearInv /\ [Next]_vars
        => [(store \in alone /\ store' = None) => store \in rejected]_vars
  <2> SUFFICES ASSUME TokenInv, ClearInv, Next, store \in alone, store' = None
               PROVE  store \in rejected \/ UNCHANGED vars
    OBVIOUS
  <2>1. store # None
    BY DEF TokenInv, None
  <2>2. PICK c \in Calls : Clear(c)
    BY <2>1, ClientAuthAssumption
    DEF Next, Intercept, Send, Serve, Latch, Pair, Revoke, client, TokenInv, None
  <2>3. sent[c] \in rejected /\ sent[c] # None /\ sent[c] >= store
    BY <2>2 DEF Clear, ClearInv
  <2>4. sent[c] <= store
    BY <2>1 DEF TokenInv
  <2>5. QED
    BY <2>3, <2>4, ClientAuthAssumption DEF TokenInv
<1>3. QED
  BY <1>1, <1>2, TokenStep, ClearStep, PTL DEF Spec, LoneTokenKept

-----------------------------------------------------------------------------
(* How often a token is cleared *)

\* The calls that carry a token, and those that carry it on their way to a clear.
Carriers(t) == {c \in Calls : sent[c] = t}
Clearing(t) == {c \in Calls : pc[c] = "clearing" /\ sent[c] = t}
ClearingOthers(t) == {c \in Calls : pc[c] = "clearing" /\ sent[c] # t}

\* A call clears a token once: the clear takes the token from the call and from the
\* store, and a token that has left the store never returns to it.
OnceEach ==
  /\ clears \in [Tokens -> Nat]
  /\ \A t \in Tokens : clears[t] + Cardinality(Carriers(t)) <= Cardinality(Calls)
  /\ \A t \in Tokens : t > paired \/ store = t => clears[t] = 0

\* The rest of TypeOK.
LatchInv ==
  /\ latch \in 0..MaxTokens
  /\ rejected \subseteq Tokens
  /\ revoked \subseteq 1..paired

\* How a step that clears nothing changes what the calls carry: a call drops its token
\* or takes the one in the store.
LEMMA CarriersStep ==
  ASSUME TokenInv, NEW t \in Tokens, store # t,
         \A c \in Calls : sent'[c] \in {sent[c], None, store}
  PROVE  Carriers(t)' \subseteq Carriers(t)
BY ClientAuthAssumption DEF TokenInv, Carriers, Tokens, None

LEMMA CarriersFinite ==
  ASSUME NEW S, S \subseteq Calls
  PROVE  IsFiniteSet(S) /\ Cardinality(S) \in Nat /\ Cardinality(S) <= Cardinality(Calls)
BY ClientAuthAssumption, FS_Subset, FS_CardinalityType

LEMMA OnceStep == TokenInv /\ ClearInv /\ OnceEach /\ [Next]_vars => OnceEach'
<1> SUFFICES ASSUME TokenInv, ClearInv, OnceEach, [Next]_vars PROVE OnceEach'
  OBVIOUS
<1> USE ClientAuthAssumption DEF OnceEach
<1>0. /\ Cardinality(Calls) \in Nat
      /\ \A t : /\ Carriers(t) \subseteq Calls /\ Carriers(t)' \subseteq Calls
                /\ Cardinality(Carriers(t)) \in Nat /\ Cardinality(Carriers(t)') \in Nat
  BY CarriersFinite DEF Carriers
\* No clear: the count stays, and more calls carry t only if it is in the store.
<1>1. ASSUME UNCHANGED clears,
             \A c \in Calls : sent'[c] \in {sent[c], None, store},
             paired' >= paired, paired \in Nat, paired' \in Nat,
             store' # store => store' = None \/ store' > paired
      PROVE  OnceEach'
  <2>1. ASSUME NEW t \in Tokens
        PROVE  clears'[t] + Cardinality(Carriers(t)') <= Cardinality(Calls)
    <3>1. CASE store = t
      <4>1. Cardinality(Carriers(t)') <= Cardinality(Calls)
        BY <1>0, CarriersFinite
      <4>2. QED
        BY <1>0, <1>1, <3>1, <4>1
    <3>2. CASE store # t
      <4>1. Carriers(t)' \subseteq Carriers(t)
        BY <1>1, <3>2, CarriersStep
      <4>2. Cardinality(Carriers(t)') <= Cardinality(Carriers(t))
        BY <1>0, <4>1, CarriersFinite, FS_Subset
      <4>3. clears[t] \in Nat /\ clears'[t] = clears[t]
        BY <1>1
      <4>4. QED
        BY <1>0, <4>2, <4>3
    <3>3. QED
      BY <3>1, <3>2
  <2>2. ASSUME NEW t \in Tokens, t > paired' \/ store' = t
        PROVE  clears'[t] = 0
    <3>1. t \in Nat /\ t # None
      BY DEF Tokens, None
    <3>2. QED
      BY <1>1, <2>2, <3>1
  <2>3. QED
    BY <1>1, <2>1, <2>2
<1>2. ASSUME NEW c \in Calls, Clear(c) PROVE OnceEach'
  <2>1. PICK u \in Tokens : u = sent[c] /\ u <= paired
    BY <1>2 DEF Clear, ClearInv, TokenInv, Tokens, None
  <2>2. /\ clears' = [clears EXCEPT ![u] = @ + 1]
        /\ sent' = [sent EXCEPT ![c] = None]
        /\ store' = None /\ paired' = paired /\ paired \in Nat
    BY <1>2, <2>1 DEF Clear, Finish, server, TokenInv
  <2>3. clears' \in [Tokens -> Nat]
    BY <2>2
  <2>4. Carriers(u)' = Carriers(u) \ {c} /\ c \in Carriers(u)
    BY <2>1, <2>2 DEF Carriers, TokenInv, Tokens, None
  <2>5. Cardinality(Carriers(u)') = Cardinality(Carriers(u)) - 1
    <3>1. IsFiniteSet(Carriers(u))
      BY <1>0, CarriersFinite
    <3>2. QED
      BY <2>4, <3>1, FS_RemoveElement
  <2>6. clears'[u] + Cardinality(Carriers(u)') <= Cardinality(Calls)
    <3>1. clears[u] \in Nat /\ clears'[u] = clears[u] + 1
      BY <2>2
    <3>2. QED
      BY <1>0, <2>5, <3>1
  <2>7. ASSUME NEW t \in Tokens \ {u}
        PROVE  clears'[t] + Cardinality(Carriers(t)') <= Cardinality(Calls)
    <3>1. Carriers(t)' = Carriers(t) /\ clears'[t] = clears[t]
      BY <2>1, <2>2, <2>7 DEF Carriers, TokenInv, Tokens, None
    <3>2. QED
      BY <1>0, <3>1
  <2>8. ASSUME NEW t \in Tokens, t > paired' \/ store' = t
        PROVE  clears'[t] = 0
    BY <2>1, <2>2, <2>8 DEF Tokens, None
  <2>9. QED
    BY <2>3, <2>6, <2>7, <2>8
<1>3. CASE ~\E c \in Calls : Clear(c)
  <2>1. paired \in Nat /\ paired' \in Nat /\ paired' >= paired
    BY <1>3 DEF TokenInv, Next, Intercept, Send, Serve, Latch, Pair, Revoke, vars, server
  <2>2. UNCHANGED clears /\ \A c \in Calls : sent'[c] \in {sent[c], None, store}
    BY <1>3 DEF TokenInv, Next, Intercept, Send, Serve, Latch, Finish, Pair, Revoke, vars,
       client, server, history
  <2>3. store' # store => store' = None \/ store' > paired
    BY <1>3 DEF TokenInv, Next, Intercept, Send, Serve, Latch, Pair, Revoke, vars, client
  <2>4. QED
    BY <1>1, <2>1, <2>2, <2>3
<1>4. QED
  BY <1>2, <1>3

\* The latch, the tokens seen rejected and those revoked keep their types.
LEMMA LatchStep == TokenInv /\ LatchInv /\ [Next]_vars => LatchInv'
<1> SUFFICES ASSUME TokenInv, LatchInv, [Next]_vars PROVE LatchInv'
  OBVIOUS
<1> USE ClientAuthAssumption DEF TokenInv, LatchInv
<1>1. ASSUME NEW c \in Calls, Latch(c) PROVE LatchInv'
  <2>1. sent[c] \in 0..MaxTokens /\ (sent[c] # None => sent[c] \in Tokens)
    BY DEF Tokens, None
  <2>2. latch' \in {latch, sent[c]} /\ rejected' \subseteq rejected \cup Tokens
    BY <1>1, <2>1 DEF Latch, Rejected
  <2>3. QED
    BY <1>1, <2>1, <2>2 DEF Latch, server
<1>2. CASE Pair
  BY <1>2 DEF Pair
<1>3. ASSUME NEW t \in Tokens, Revoke(t) PROVE LatchInv'
  BY <1>3 DEF Revoke, client, history
<1>4. CASE UNCHANGED <<latch, rejected, paired, revoked>>
  BY <1>4
<1>5. QED
  BY <1>1, <1>2, <1>3, <1>4 DEF Next, Intercept, Send, Serve, Clear, vars, client, server,
     history

LEMMA ClientInvariant == Spec => [](TokenInv /\ ClearInv /\ OnceEach /\ LatchInv)
<1>1. Init => TokenInv /\ ClearInv /\ LatchInv
  BY ClientAuthAssumption DEF Init, TokenInv, ClearInv, LatchInv, None
<1>2. Init => OnceEach
  <2> SUFFICES ASSUME Init PROVE OnceEach
    OBVIOUS
  <2>1. \A t \in Tokens : Carriers(t) \subseteq Calls /\ clears[t] = 0
    BY DEF Init, Carriers
  <2>2. \A t \in Tokens : /\ Cardinality(Carriers(t)) \in Nat
                          /\ Cardinality(Carriers(t)) <= Cardinality(Calls)
    BY <2>1, CarriersFinite
  <2>3. QED
    BY <2>1, <2>2 DEF Init, OnceEach
<1>3. QED
  BY <1>1, <1>2, TokenStep, ClearStep, OnceStep, LatchStep, PTL DEF Spec

\* Every variable always has its type; in particular no token is cleared by more calls
\* than there are.
THEOREM ClientTypes == Spec => []TypeOK
<1>1. TokenInv /\ OnceEach /\ LatchInv => TypeOK
  <2> SUFFICES ASSUME TokenInv, OnceEach, LatchInv PROVE TypeOK
    OBVIOUS
  <2>1. Tokens \cup {None} = 0..MaxTokens
    BY ClientAuthAssumption DEF Tokens, None
  <2>2. clears \in [Tokens -> 0..Cardinality(Calls)]
    <3>1. ASSUME NEW t \in Tokens PROVE clears[t] \in 0..Cardinality(Calls)
      <4>1. Cardinality(Carriers(t)) \in Nat /\ Cardinality(Calls) \in Nat
        BY CarriersFinite DEF Carriers
      <4>2. QED
        BY <4>1 DEF OnceEach
    <3>2. QED
      BY <3>1 DEF OnceEach
  <2>3. store \in 0..MaxTokens /\ alone \subseteq Tokens
    BY ClientAuthAssumption DEF TokenInv, None, Tokens
  <2>4. QED
    BY <2>1, <2>2, <2>3 DEF TypeOK, TokenInv, LatchInv
<1>2. QED
  BY <1>1, ClientInvariant, PTL

\* Every call that latched a token has cleared it or is about to.  Two of them in a row
\* are never for one token: the latch holds the token of the last one.
AlternateInv ==
  \A t \in Tokens :
    clears[t] + Cardinality(Clearing(t)) <=
      SumOver(clears, Tokens \ {t}) + Cardinality(ClearingOthers(t))
        + (IF latch = t THEN 1 ELSE 0)

\* What ClearsAlternate adds up is a sum in the sense of AggregateLemmas, a natural number.
LEMMA ClearsSum ==
  ASSUME NEW S
  PROVE  MapThenSumSet(LAMBDA u : clears[u], S) = SumOver(clears, S)
BY DEF MapThenSumSet, MapThenFoldSet, SumOver, IsSummation, Chosen, Others

LEMMA OtherClears ==
  ASSUME OnceEach, NEW t \in Tokens
  PROVE  IsFiniteSet(Tokens \ {t}) /\ SumOver(clears, Tokens \ {t}) \in Nat
<1>1. IsFiniteSet(Tokens \ {t})
  BY ClientAuthAssumption, FS_Interval, FS_Subset DEF Tokens
<1>2. QED
  BY <1>1, SumOverType DEF OnceEach

LEMMA ClearingFinite ==
  ASSUME NEW t
  PROVE  /\ IsFiniteSet(Clearing(t)) /\ IsFiniteSet(ClearingOthers(t))
         /\ Cardinality(Clearing(t)) \in Nat /\ Cardinality(ClearingOthers(t)) \in Nat
BY CarriersFinite DEF Clearing, ClearingOthers

\* A call that latches u joins those that clear it.
LEMMA LatchAlternates ==
  ASSUME TokenInv, OnceEach, AlternateInv,
         NEW c \in Calls, Latch(c), pc'[c] = "clearing"
  PROVE  AlternateInv'
<1> USE DEF TokenInv
<1>1. PICK u \in Tokens : u = sent[c] /\ latch # u /\ latch' = u
  BY ClientAuthAssumption DEF Latch, Rejected, Finish, Tokens, None
<1>2. /\ pc[c] # "clearing" /\ pc' = [pc EXCEPT ![c] = "clearing"]
      /\ UNCHANGED <<sent, clears>>
  BY DEF Latch, Rejected, Finish
<1>3. Clearing(u)' = Clearing(u) \cup {c} /\ c \notin Clearing(u)
      /\ ClearingOthers(u)' = ClearingOthers(u)
  BY <1>1, <1>2 DEF Clearing, ClearingOthers
<1>4. \A t \in Tokens \ {u} : /\ ClearingOthers(t)' = ClearingOthers(t) \cup {c}
                              /\ c \notin ClearingOthers(t)
                              /\ Clearing(t)' = Clearing(t)
  BY <1>1, <1>2 DEF Clearing, ClearingOthers
<1> SUFFICES ASSUME NEW t \in Tokens
             PROVE  clears'[t] + Cardinality(Clearing(t)') <=
                      SumOver(clears', Tokens \ {t}) + Cardinality(ClearingOthers(t)')
                        + (IF latch' = t THEN 1 ELSE 0)
  BY DEF AlternateInv
<1>5. PICK k \in Nat, n \in Nat, m \in Nat, sum \in Nat :
        /\ k = clears[t] /\ n = Cardinality(Clearing(t))
        /\ m = Cardinality(ClearingOthers(t)) /\ sum = SumOver(clears, Tokens \ {t})
  <2>1. /\ clears[t] \in Nat /\ SumOver(clears, Tokens \ {t}) \in Nat
        /\ Cardinality(Clearing(t)) \in Nat /\ Cardinality(ClearingOthers(t)) \in Nat
    BY ClearingFinite, OtherClears DEF OnceEach
  <2>2. QED
    BY <2>1
<1>6. k + n <= sum + m + (IF latch = t THEN 1 ELSE 0)
  BY <1>5 DEF AlternateInv
<1>7. clears'[t] = k /\ SumOver(clears', Tokens \ {t}) = sum
  BY <1>2, <1>5
<1>8. CASE t = u
  <2>1. Cardinality(Clearing(t)') = n + 1 /\ Cardinality(ClearingOthers(t)') = m
    BY <1>3, <1>5, <1>8, ClearingFinite, FS_AddElement
  <2>2. QED
    BY <1>1, <1>6, <1>7, <1>8, <2>1
<1>9. CASE t # u
  <2>1. Cardinality(Clearing(t)') = n /\ Cardinality(ClearingOthers(t)') = m + 1
    BY <1>4, <1>5, <1>9, ClearingFinite, FS_AddElement
  <2>2. QED
    BY <1>1, <1>6, <1>7, <1>9, <2>1
<1>10. QED
  BY <1>8, <1>9

\* A call that clears u leaves them and is counted for u.
LEMMA ClearAlternates ==
  ASSUME TokenInv, ClearInv, OnceEach, OnceEach', AlternateInv, NEW c \in Calls, Clear(c)
  PROVE  AlternateInv'
<1> USE DEF TokenInv
<1>1. PICK u \in Tokens : u = sent[c]
  BY DEF Clear, ClearInv, Tokens, None
<1>2. /\ pc[c] = "clearing" /\ pc' = [pc EXCEPT ![c] = "idle"]
      /\ sent' = [sent EXCEPT ![c] = None]
      /\ clears' = [clears EXCEPT ![u] = @ + 1]
      /\ latch' = latch
  BY <1>1 DEF Clear, Finish
<1>3. Clearing(u)' = Clearing(u) \ {c} /\ c \in Clearing(u)
      /\ ClearingOthers(u)' = ClearingOthers(u)
  BY <1>1, <1>2 DEF Clearing, ClearingOthers
<1>4. \A t \in Tokens \ {u} : /\ ClearingOthers(t)' = ClearingOthers(t) \ {c}
                              /\ c \in ClearingOthers(t)
                              /\ Clearing(t)' = Clearing(t)
  BY <1>1, <1>2 DEF Clearing, ClearingOthers
<1> SUFFICES ASSUME NEW t \in Tokens
             PROVE  clears'[t] + Cardinality(Clearing(t)') <=
                      SumOver(clears', Tokens \ {t}) + Cardinality(ClearingOthers(t)')
                        + (IF latch' = t THEN 1 ELSE 0)
  BY DEF AlternateInv
<1>5. PICK k \in Nat, n \in Nat, m \in Nat, sum \in Nat :
        /\ k = clears[t] /\ n = Cardinality(Clearing(t))
        /\ m = Cardinality(ClearingOthers(t)) /\ sum = SumOver(clears, Tokens \ {t})
  <2>1. /\ clears[t] \in Nat /\ SumOver(clears, Tokens \ {t}) \in Nat
        /\ Cardinality(Clearing(t)) \in Nat /\ Cardinality(ClearingOthers(t)) \in Nat
    BY ClearingFinite, OtherClears DEF OnceEach
  <2>2. QED
    BY <2>1
<1>6. k + n <= sum + m + (IF latch = t THEN 1 ELSE 0)
  BY <1>5 DEF AlternateInv
<1>7. \A x \in Tokens : clears[x] \in Int /\ clears'[x] \in Int
  BY DEF OnceEach
<1>8. CASE t = u
  <2>1. Cardinality(Clearing(t)') = n - 1 /\ Cardinality(ClearingOthers(t)') = m
    BY <1>3, <1>5, <1>8, ClearingFinite, FS_RemoveElement
  <2>2. clears'[t] = k + 1
    BY <1>2, <1>5, <1>8 DEF OnceEach
  <2>3. SumOver(clears', Tokens \ {t}) = sum
    <3>1. \A x \in Tokens \ {t} : clears[x] = clears'[x]
      BY <1>2, <1>8 DEF OnceEach
    <3>2. QED
      BY <1>5, <3>1, OtherClears, SumOverCong
  <2>4. QED
    BY <1>2, <1>6, <2>1, <2>2, <2>3
<1>9. CASE t # u
  <2>1. Cardinality(Clearing(t)') = n /\ Cardinality(ClearingOthers(t)') = m - 1
    BY <1>4, <1>5, <1>9, ClearingFinite, FS_RemoveElement
  <2>2. clears'[t] = k
    BY <1>2, <1>5, <1>9 DEF OnceEach
  <2>3. SumOver(clears', Tokens \ {t}) = sum + 1
    <3>1. /\ u \in Tokens \ {t} /\ clears'[u] - clears[u] = 1
          /\ \A x \in (Tokens \ {t}) \ {u} : clears[x] = clears'[x]
      BY <1>2, <1>9 DEF OnceEach
    <3>2. SumOver(clears', Tokens \ {t})
            = SumOver(clears, Tokens \ {t}) + (clears'[u] - clears[u])
      BY <1>7, <3>1, OtherClears, SumOverChange
    <3>3. QED
      BY <1>5, <3>1, <3>2
  <2>4. QED
    BY <1>2, <1>6, <2>1, <2>2, <2>3
<1>10. QED
  BY <1>8, <1>9

LEMMA AlternateStep ==
  TokenInv /\ ClearInv /\ OnceEach /\ OnceEach' /\ AlternateInv /\ [Next]_vars => AlternateInv'
<1> SUFFICES ASSUME TokenInv, ClearInv, OnceEach, OnceEach', AlternateInv, [Next]_vars
             PROVE  AlternateInv'
  OBVIOUS
\* Nothing latched, nothing cleared.
<1>1. CASE /\ UNCHANGED <<clears, latch>>
           /\ \A c \in Calls : \/ pc'[c] = pc[c] /\ sent'[c] = sent[c]
                               \/ pc[c] # "clearing" /\ pc'[c] # "clearing"
  <2>1. \A t : Clearing(t)' = Clearing(t) /\ ClearingOthers(t)' = ClearingOthers(t)
    BY <1>1 DEF Clearing, ClearingOthers
  <2>2. QED
    BY <1>1, <2>1 DEF AlternateInv
<1>2. ASSUME NEW c \in Calls, Latch(c), pc'[c] # "clearing"
      PROVE  AlternateInv'
  BY <1>1, <1>2 DEF Latch, Finish, TokenInv
<1>3. ASSUME NEW c \in Calls, Send(c) \/ Serve(c)
      PROVE  AlternateInv'
  BY <1>1, <1>3 DEF Send, Serve, TokenInv, client, server, history
<1>4. CASE Pair \/ (\E t \in Tokens : Revoke(t)) \/ UNCHANGED vars
  BY <1>1, <1>4 DEF Pair, Revoke, vars, client, history
<1>5. QED
  BY <1>2, <1>3, <1>4, LatchAlternates, ClearAlternates DEF Next, Intercept

\* Simultaneous 401s sign out once: between two clears for one token lies a clear for
\* another, whatever the number of calls and of tokens.
THEOREM ClearsDoAlternate == Spec => []ClearsAlternate
<1>1. Init => AlternateInv
  <2> SUFFICES ASSUME Init, NEW t \in Tokens
               PROVE  clears[t] + Cardinality(Clearing(t)) <=
                        SumOver(clears, Tokens \ {t}) + Cardinality(ClearingOthers(t))
                          + (IF latch = t THEN 1 ELSE 0)
    BY DEF AlternateInv
  <2>1. clears[t] = 0 /\ Clearing(t) = {}
    BY DEF Init, Clearing
  <2>2. SumOver(clears, Tokens \ {t}) \in Nat
    <3>1. IsFiniteSet(Tokens \ {t}) /\ \A x \in Tokens \ {t} : clears[x] \in Nat
      BY ClientAuthAssumption, FS_Interval, FS_Subset DEF Init, Tokens
    <3>2. QED
      BY <3>1, SumOverType
  <2>3. QED
    BY <2>1, <2>2, ClearingFinite, FS_EmptySet
<1>2. TokenInv /\ OnceEach /\ AlternateInv => ClearsAlternate
  <2> SUFFICES ASSUME TokenInv, OnceEach, AlternateInv, NEW t \in Tokens
               PROVE  clears[t] <= 1 + SumOver(clears, Tokens \ {t})
                                     + Cardinality(ClearingOthers(t))
    BY ClearsSum DEF ClearsAlternate, ClearingOthers
  <2>1. /\ clears[t] \in Nat /\ SumOver(clears, Tokens \ {t}) \in Nat
        /\ Cardinality(Clearing(t)) \in Nat /\ Cardinality(ClearingOthers(t)) \in Nat
    BY ClearingFinite, OtherClears DEF OnceEach
  <2>2. QED
    BY <2>1 DEF AlternateInv
<1>3. QED
  BY <1>1, <1>2, ClientInvariant, AlternateStep, PTL DEF Spec
=============================================================================
