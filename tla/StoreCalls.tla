----------------------------- MODULE StoreCalls -----------------------------
(***************************************************************************)
(* The caller's side of store.Store, shared by its two implementations:    *)
(* what the methods are called with, the clock they are given, and the     *)
(* answer of the last one.  A conformance case (conformance_test.go) opens *)
(* a fresh store and drives one group of its methods.                      *)
(*                                                                         *)
(* Ids, kinds, album names and months are numbers: what they are does not  *)
(* matter, their order does.                                               *)
(***************************************************************************)
EXTENDS Integers, Sequences, FiniteSets, SequencesExt, FiniteSetsExt

CONSTANTS
  Cases,              \* the groups of methods
  Hashes, SizeOf,     \* blobs.hash, and size_bytes of each
  VariantKinds,       \* derived files a blob may have
  OfferedItems,       \* items callers insert
  JobKinds, Thumbnail,  \* kinds of the CHECK constraint, and the favoured one
  MaxJobs,            \* jobs ever enqueued
  MaxAttempts,        \* what callers of FailJob pass; bounds the claims of a job
  DeviceIds, TokenHashes, Versions,
  CodeHashes,
  MaxGuesses,         \* guesses counted against one code
  MetaKeys, MetaValues,
  FirstMs, LastMs,    \* the clock of the store, first and last
  None,               \* no row
  Null,               \* SQL's
  EmptyText           \* Go's zero string

ASSUME StoreAssumption ==
  /\ None \notin Hashes
  /\ SizeOf \in [Hashes -> Nat]
  /\ DeviceIds \subseteq Nat /\ VariantKinds \subseteq Nat /\ Versions \subseteq Nat
  /\ MaxJobs \in Nat /\ MaxAttempts \in Nat \ {0} /\ MaxGuesses \in Nat
  /\ FirstMs \in Nat \ {0} /\ LastMs \in Nat /\ FirstMs <= LastMs
  /\ \A it \in OfferedItems :
       /\ it.id \in Nat /\ it.hash \in Hashes /\ it.captured \in Int
       /\ it.album \in Nat /\ it.month \in Nat

VARIABLES
  case,     \* the conformance case that runs
  clock,    \* Options.Now, MemStore.Now
  outcome   \* what the last write returned

Ids == {it.id : it \in OfferedItems}
RelPaths == {it.path : it \in OfferedItems}
MonthOf(it) == [album |-> it.album, month |-> it.month]
Months == {MonthOf(it) : it \in OfferedItems}
Times == FirstMs..LastMs

Idle == [method |-> "none", error |-> "none", n |-> 0]
Returns(method, error, n) == outcome' = [method |-> method, error |-> error, n |-> n]

\* The row or entry of a key, if there is one.
Updated(map, key, Set(_)) == [map EXCEPT ![key] = IF @ = None THEN None ELSE Set(@)]
IfPresent(map, key) == IF map[key] = None THEN "not found" ELSE "none"
Inserted(map, key, row) == [map EXCEPT ![key] = IF @ = None THEN row ELSE @]
IfFree(map, key) == IF map[key] = None THEN "none" ELSE "already exists"

\* A set as a list, for an order in which any two elements differ: the i-th element has
\* i - 1 before it.
Ordered(S, Before(_,_)) ==
  LET before == [x \in S |-> {y \in S : Before(y, x)}]
  IN [i \in 1..Cardinality(S) |-> CHOOSE x \in S : Cardinality(before[x]) = i - 1]
=============================================================================
