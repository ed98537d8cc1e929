--------------------------- MODULE PairingProofs ---------------------------
(***************************************************************************)
(* What holds of pairing for any number of concurrent calls, addresses,    *)
(* codes, issues and devices, and any TTL, lockout and attempt limit.      *)
(***************************************************************************)
EXTENDS Pairing, FiniteSetTheorems, TLAPS

-----------------------------------------------------------------------------
(* Types *)

\* A call moves on, carrying a well-formed request from address a.
Moves(r, a) ==
  \E step \in Steps, q \in Request :
    /\ step # "idle" => q.ip = a
    /\ Goto(r, step, q)

\* The part of TypeOK that is about the calls in flight.
CallsOK ==
  /\ pc \in [Requests -> Steps]
  /\ req \in [Requests -> Request]
  /\ \A r \in Requests : pc[r] # "idle" => req[r].ip \in ClientIPs

LEMMA MovesCallsOK ==
  ASSUME TypeOK, NEW r \in Requests, NEW a \in ClientIPs, Moves(r, a)
  PROVE  CallsOK'
BY DEF Moves, Goto, TypeOK, CallsOK

\* Each step of a call in flight moves it on, from the same address.
LEMMA ServeMoves ==
  ASSUME TypeOK, NEW r \in Requests, Serve(r)
  PROVE  req[r].ip \in ClientIPs /\ Moves(r, req[r].ip)
<1> USE DEF TypeOK
<1> DEFINE q == req[r]
<1>1. pc[r] # "idle" /\ q \in Request /\ q.ip \in ClientIPs
  BY DEF Serve, Lookup, Judge, CountCodeAttempt, MarkPairingCodeUsed, InsertDevice,
     ClearFailures, ReadClock, Failed, StoreError
<1>2. /\ [q EXCEPT !.code = None, !.want = "invalid"] \in Request
      /\ [q EXCEPT !.code = None, !.want = "invalid"].ip = q.ip
      /\ [q EXCEPT !.want = "invalid"] \in Request
      /\ [q EXCEPT !.want = "invalid"].ip = q.ip
      /\ [q EXCEPT !.row = None, !.want = "expired"] \in Request
      /\ [q EXCEPT !.row = None, !.want = "expired"].ip = q.ip
  BY <1>1 DEF Request
<1>3. /\ [q EXCEPT !.row = None] \in Request /\ [q EXCEPT !.row = None].ip = q.ip
      /\ [q EXCEPT !.code = None] \in Request /\ [q EXCEPT !.code = None].ip = q.ip
  BY <1>1 DEF Request
<1>4. ASSUME NEW i \in Rows
      PROVE  /\ [q EXCEPT !.row = i] \in Request /\ [q EXCEPT !.row = i].ip = q.ip
             /\ [q EXCEPT !.code = None, !.row = i] \in Request
             /\ [q EXCEPT !.code = None, !.row = i].ip = q.ip
  BY <1>1 DEF Request
<1>5. NoRequest \in Request
  BY DEF NoRequest, Request
<1>6. CASE Lookup(r)
  BY <1>1, <1>2, <1>4, <1>6 DEF Lookup, Moves, Steps, Stored
<1>7. CASE Judge(r)
  BY <1>1, <1>2, <1>3, <1>7 DEF Judge, Moves, Steps
<1>8. CASE CountCodeAttempt(r)
  BY <1>1, <1>3, <1>8 DEF CountCodeAttempt, Moves, Steps
<1>9. CASE MarkPairingCodeUsed(r)
  BY <1>1, <1>2, <1>4, <1>9 DEF MarkPairingCodeUsed, Moves, Steps, Stored
<1>10. CASE InsertDevice(r)
  BY <1>1, <1>3, <1>10 DEF InsertDevice, Moves, Steps
<1>11. CASE ClearFailures(r) \/ Failed(r) \/ StoreError(r)
  BY <1>5, <1>11 DEF ClearFailures, Failed, StoreError, Answer, Moves, Steps
<1>12. CASE ReadClock(r)
  <2>1. [q EXCEPT !.now = clock] \in Request /\ [q EXCEPT !.now = clock].ip = q.ip
    BY <1>1 DEF Request
  <2>2. QED
    BY <1>1, <1>12, <2>1 DEF ReadClock, Moves, Steps
<1>13. QED
  BY <1>1, <1>6, <1>7, <1>8, <1>9, <1>10, <1>11, <1>12 DEF Serve

\* So does an admitted request.
LEMMA PairMoves ==
  ASSUME TypeOK, NEW r \in Requests, NEW a \in ClientIPs, NEW c \in Codes, Pair(r, a, c)
  PROVE  Moves(r, a) \/ UNCHANGED <<pc, req>>
<1>1. /\ [NoRequest EXCEPT !.ip = a, !.code = c] \in Request
      /\ [NoRequest EXCEPT !.ip = a, !.code = c].ip = a
      /\ [NoRequest EXCEPT !.ip = a, !.want = "invalid"] \in Request
      /\ [NoRequest EXCEPT !.ip = a, !.want = "invalid"].ip = a
  BY DEF NoRequest, Request
<1>2. QED
  BY <1>1 DEF Pair, Moves, Steps

\* Counting a failure gives a record of the limiter.
LEMMA WithFailureType ==
  ASSUME NEW f \in FailureState, NEW now \in Nat
  PROVE  WithFailure(f, now) \in FailureState
BY PairingAssumption DEF WithFailure, FailureState

\* The updates of a row of pairing_codes give a row, and change only their field.
LEMMA RowUpdates ==
  ASSUME NEW w \in Row
  PROVE  Deleted(w) \in Row /\ Spent(w) \in Row /\ Charged(w) \in Row
<1>1. Deleted(w) \in Row
  BY DEF Row, Deleted
<1>2. Spent(w) \in Row
  BY DEF Row, Spent
<1>3. Charged(w) \in Row
  BY DEF Row, Charged
<1>4. QED
  BY <1>1, <1>2, <1>3

\* So does an insert.
LEMMA NewRowType ==
  ASSUME NEW c \in Codes, NEW e \in Nat
  PROVE  NewRow(c, e) \in Row
BY DEF Row, NewRow

\* A collision leaves a call with draws to go, or ends it.
LEMMA OneDrawLessType ==
  ASSUME NEW w \in IssueState, w.draws > 0
  PROVE  OneDrawLess(w) \in IssueState
<1>1. NotIssuing \in IssueState
  BY PairingAssumption DEF NotIssuing, IssueState
<1>2. w.draws - 1 \in 0..IssueRetries
  BY PairingAssumption DEF IssueState
<1>3. [w EXCEPT !.draws = @ - 1] \in IssueState
  BY <1>2 DEF IssueState
<1>4. QED
  BY <1>1, <1>3 DEF OneDrawLess

\* Every step of Pairing keeps the variables in their types.
LEMMA TypeStep == TypeOK /\ [Next]_vars => TypeOK'
<1> SUFFICES ASSUME TypeOK, [Next]_vars PROVE TypeOK'
  OBVIOUS
<1> USE PairingAssumption DEF TypeOK
<1>1. ASSUME NEW r \in Requests, NEW a \in ClientIPs, NEW c \in Codes, Pair(r, a, c)
      PROVE  TypeOK'
  <2>1. failures' \in [ClientIPs -> FailureState]
    BY <1>1 DEF Pair, CheckedFailures, NoFailures, FailureState
  <2>2. CallsOK'
    BY <1>1, PairMoves, MovesCallsOK DEF CallsOK
  <2>3. QED
    BY <1>1, <2>1, <2>2 DEF Pair, tables, CallsOK
<1>2. ASSUME NEW r \in Requests, Serve(r) PROVE TypeOK'
  <2>1. CallsOK'
    BY <1>2, ServeMoves, MovesCallsOK
  <2>2. CASE Lookup(r) \/ Judge(r) \/ ReadClock(r) \/ StoreError(r)
    BY <2>1, <2>2 DEF Lookup, Judge, ReadClock, StoreError, tables, CallsOK
  <2>3. CASE CountCodeAttempt(r)
    <3>1. rows' \in [Rows -> Row]
      BY <2>3, RowUpdates DEF CountCodeAttempt
    <3>2. QED
      BY <2>1, <2>3, <3>1 DEF CountCodeAttempt, CallsOK
  <2>4. CASE MarkPairingCodeUsed(r)
    <3>1. rows' \in [Rows -> Row]
      <4>1. ASSUME NEW i \in Rows, rows' = [rows EXCEPT ![i] = Spent(@)]
            PROVE  rows' \in [Rows -> Row]
        BY <4>1, RowUpdates
      <4>2. QED
        BY <2>4, <4>1 DEF MarkPairingCodeUsed, Stored
    <3>2. QED
      BY <2>1, <2>4, <3>1 DEF MarkPairingCodeUsed, CallsOK
  <2>5. CASE InsertDevice(r)
    <3>1. devices' \in [Devices -> Rows \cup {None}]
      BY <2>5 DEF InsertDevice, Request
    <3>2. QED
      BY <2>1, <2>5, <3>1 DEF InsertDevice, CallsOK
  <2>6. CASE ClearFailures(r)
    <3>1. failures' \in [ClientIPs -> FailureState]
      BY <2>6 DEF ClearFailures, NoFailures, FailureState
    <3>2. QED
      BY <2>1, <2>6, <3>1 DEF ClearFailures, tables, CallsOK
  <2>7. CASE Failed(r)
    <3>1. PICK now \in Nat : now = req[r].now
      BY DEF Request
    <3>2. SweptFailures(now) \in [ClientIPs -> FailureState]
      BY DEF SweptFailures, NoFailures, FailureState
    <3>3. failures' \in [ClientIPs -> FailureState]
      BY <2>7, <3>1, <3>2, WithFailureType DEF Failed
    <3>4. QED
      BY <2>1, <2>7, <3>3 DEF Failed, tables, CallsOK
  <2>8. QED
    BY <1>2, <2>2, <2>3, <2>4, <2>5, <2>6, <2>7 DEF Serve
<1>3. ASSUME NEW p \in Issuers, IssueSweep(p) PROVE TypeOK'
  <2>1. rows' \in [Rows -> Row]
    BY <1>3, RowUpdates DEF IssueSweep
  <2>2. issuer' \in [Issuers -> IssueState]
    BY <1>3 DEF IssueSweep, IssueState
  <2>3. QED
    BY <1>3, <2>1, <2>2 DEF IssueSweep
<1>4. ASSUME NEW p \in Issuers, NEW c \in Codes, IssueDraw(p, c) PROVE TypeOK'
  <2>1. rows' \in [Rows -> Row]
    <3>1. issuer[p].expiresAt \in Nat
      BY DEF IssueState
    <3>2. QED
      BY <1>4, <3>1, NewRowType DEF IssueDraw, InsertRow
  <2>2. issuer' \in [Issuers -> IssueState]
    <3>1. NotIssuing \in IssueState
      BY DEF NotIssuing, IssueState
    <3>2. QED
      BY <1>4, <3>1, OneDrawLessType DEF IssueDraw
  <2>3. QED
    BY <1>4, <2>1, <2>2 DEF IssueDraw
<1>5. ASSUME NEW p \in Issuers, IssueAbort(p) PROVE TypeOK'
  BY <1>5 DEF IssueAbort, NotIssuing, IssueState, tables
<1>6. CASE Tick
  BY <1>6 DEF Tick, tables
<1>7. CASE Restart
  BY <1>7 DEF Restart, tables, NoRequest, Request, NoFailures, FailureState, Steps
<1>8. CASE UNCHANGED vars
  BY <1>8 DEF vars
<1>9. QED
  BY <1>1, <1>2, <1>3, <1>4, <1>5, <1>6, <1>7, <1>8 DEF Next, Issue

\* Every variable always has its type.
THEOREM TypeCorrect == Spec => []TypeOK
<1>1. Init => TypeOK
  BY PairingAssumption DEF Init, TypeOK, NoRow, Row, NoFailures, FailureState, NoRequest,
     Request, NotIssuing, IssueState, Steps
<1>2. QED
  BY <1>1, TypeStep, PTL DEF Spec

-----------------------------------------------------------------------------
(* Single use *)

\* What makes single use inductive: the row behind a device, or held by a call that
\* is about to enrol one, was spent; a held row has no device and no other holder.
DevicesSpent == \A d \in Devices : devices[d] # None => rows[devices[d]].used
HoldersSpent ==
  \A r \in Requests :
    pc[r] = "enrol" => /\ req[r].row \in Rows
                       /\ rows[req[r].row].used
                       /\ \A d \in Devices : devices[d] # req[r].row
OneHolder ==
  \A r, s \in Requests :
    pc[r] = "enrol" /\ pc[s] = "enrol" /\ req[r].row = req[s].row => r = s
UnissuedUnused == \A i \in Rows : rows[i].state = "none" => ~rows[i].used

RedeemInv ==
  DevicesSpent /\ HoldersSpent /\ OneHolder /\ UnissuedUnused /\ SingleUse

\* What the updates of a row leave alone.
LEMMA RowFields ==
  ASSUME NEW w \in Row
  PROVE  /\ Deleted(w).used = w.used /\ Deleted(w).state = "deleted"
         /\ Charged(w).used = w.used /\ Charged(w).state = w.state
         /\ Spent(w).used /\ Spent(w).state = w.state
BY DEF Row, Deleted, Charged, Spent

\* A spent row stays spent, and only MarkPairingCodeUsed spends one.
LEMMA UsedMonotone ==
  ASSUME TypeOK, UnissuedUnused, [Next]_vars
  PROVE  /\ \A i \in Rows : rows[i].used => rows'[i].used
         /\ UnissuedUnused'
<1> USE DEF TypeOK, UnissuedUnused
<1>1. ASSUME NEW p \in Issuers, IssueSweep(p)
      PROVE  /\ \A i \in Rows : rows[i].used => rows'[i].used
             /\ UnissuedUnused'
  BY <1>1, RowFields DEF IssueSweep
<1>2. ASSUME NEW p \in Issuers, NEW c \in Codes, IssueDraw(p, c)
      PROVE  /\ \A i \in Rows : rows[i].used => rows'[i].used
             /\ UnissuedUnused'
  BY <1>2 DEF IssueDraw, InsertRow, NewRow
<1>3. ASSUME NEW r \in Requests, CountCodeAttempt(r)
      PROVE  /\ \A i \in Rows : rows[i].used => rows'[i].used
             /\ UnissuedUnused'
  BY <1>3, RowFields DEF CountCodeAttempt
<1>4. ASSUME NEW r \in Requests, MarkPairingCodeUsed(r)
      PROVE  /\ \A i \in Rows : rows[i].used => rows'[i].used
             /\ UnissuedUnused'
  <2>1. CASE UNCHANGED rows
    BY <2>1
  <2>2. ASSUME NEW i \in Rows, rows[i].state = "stored", rows' = [rows EXCEPT ![i] = Spent(@)]
        PROVE  /\ \A j \in Rows : rows[j].used => rows'[j].used
               /\ UnissuedUnused'
    <3>1. rows'[i].used /\ rows'[i].state = "stored"
      BY <2>2, RowFields
    <3>2. \A j \in Rows \ {i} : rows'[j] = rows[j]
      BY <2>2
    <3>3. QED
      BY <3>1, <3>2
  <2>3. QED
    BY <1>4, <2>1, <2>2 DEF MarkPairingCodeUsed, Stored
<1>5. CASE UNCHANGED rows
  BY <1>5
<1>6. QED
  BY <1>1, <1>2, <1>3, <1>4, <1>5 DEF Next, Serve, Issue, Pair, Lookup, Judge, InsertDevice,
     ClearFailures, ReadClock, Failed, StoreError, IssueAbort, Tick, Restart, vars, tables

LEMMA RedeemStep == TypeOK /\ RedeemInv /\ [Next]_vars => RedeemInv'
<1> SUFFICES ASSUME TypeOK, RedeemInv, [Next]_vars PROVE RedeemInv'
  OBVIOUS
<1> USE DEF RedeemInv
<1>1. (\A i \in Rows : rows[i].used => rows'[i].used) /\ UnissuedUnused'
  BY UsedMonotone
<1>2. CASE /\ UNCHANGED devices
           /\ \A r \in Requests : pc'[r] = "enrol" => pc[r] = "enrol" /\ req'[r] = req[r]
  BY <1>1, <1>2 DEF TypeOK, DevicesSpent, HoldersSpent, OneHolder, SingleUse
<1>3. ASSUME NEW r \in Requests, MarkPairingCodeUsed(r), pc'[r] = "enrol"
      PROVE  RedeemInv'
  <2>1. PICK i \in Rows : /\ ~rows[i].used /\ rows'[i].used
                          /\ pc' = [pc EXCEPT ![r] = "enrol"]
                          /\ req'[r].row = i
                          /\ \A s \in Requests \ {r} : req'[s] = req[s]
    <3>1. PICK i \in Rows :
            /\ ~rows[i].used
            /\ rows' = [rows EXCEPT ![i] = Spent(@)]
            /\ Goto(r, "enrol", [req[r] EXCEPT !.code = None, !.row = i])
      BY <1>3 DEF MarkPairingCodeUsed, Stored, Redeemable, Goto, TypeOK
    <3>2. rows'[i].used
      BY <3>1, RowFields DEF TypeOK
    <3>3. [req[r] EXCEPT !.code = None, !.row = i].row = i
      BY DEF TypeOK, Request
    <3>4. QED
      BY <3>1, <3>2, <3>3 DEF Goto, TypeOK
  <2>2. UNCHANGED devices
    BY <1>3 DEF MarkPairingCodeUsed
  <2>3. HoldersSpent'
    <3>1. \A d \in Devices : devices[d] # i
      BY <2>1, PairingAssumption DEF DevicesSpent
    <3>2. QED
      BY <1>1, <2>1, <2>2, <3>1 DEF TypeOK, HoldersSpent
  <2>4. OneHolder'
    BY <2>1 DEF TypeOK, HoldersSpent, OneHolder
  <2>5. QED
    BY <1>1, <2>2, <2>3, <2>4 DEF TypeOK, DevicesSpent, SingleUse
<1>4. ASSUME NEW r \in Requests, InsertDevice(r)
      PROVE  RedeemInv'
  <2>1. /\ UNCHANGED rows
        /\ pc' = [pc EXCEPT ![r] = "clear"]
        /\ \A s \in Requests \ {r} : req'[s] = req[s]
    BY <1>4 DEF InsertDevice, Goto, TypeOK
  <2>2. PICK d \in Devices : devices[d] = None /\ devices' = [devices EXCEPT ![d] = req[r].row]
    BY <1>4 DEF InsertDevice
  <2>3. pc[r] = "enrol"
    BY <1>4 DEF InsertDevice
  <2>4. DevicesSpent'
    BY <2>1, <2>2, <2>3 DEF TypeOK, DevicesSpent, HoldersSpent
  <2>5. HoldersSpent'
    BY <2>1, <2>2, <2>3 DEF TypeOK, HoldersSpent, OneHolder
  <2>6. OneHolder'
    BY <2>1 DEF TypeOK, OneHolder
  <2>7. SingleUse'
    BY <2>2, <2>3 DEF TypeOK, HoldersSpent, SingleUse
  <2>8. QED
    BY <1>1, <2>4, <2>5, <2>6, <2>7
<1>5. ASSUME NEW r \in Requests, Serve(r), ~InsertDevice(r),
             ~(MarkPairingCodeUsed(r) /\ pc'[r] = "enrol")
      PROVE  RedeemInv'
  <2>1. UNCHANGED devices
    BY <1>5 DEF Serve, Lookup, Judge, CountCodeAttempt, MarkPairingCodeUsed, ClearFailures,
       ReadClock, Failed, StoreError, tables
  <2>2. pc'[r] # "enrol" /\ \A s \in Requests \ {r} : pc'[s] = pc[s] /\ req'[s] = req[s]
    BY <1>5 DEF Serve, Lookup, Judge, CountCodeAttempt, MarkPairingCodeUsed, ClearFailures,
       ReadClock, Failed, StoreError, Answer, Goto, TypeOK
  <2>3. QED
    BY <1>2, <2>1, <2>2
<1>6. ASSUME NEW r \in Requests, NEW a \in ClientIPs, NEW c \in Codes, Pair(r, a, c)
      PROVE  RedeemInv'
  <2>1. UNCHANGED devices
    BY <1>6 DEF Pair, tables
  <2>2. \A s \in Requests : pc'[s] = "enrol" => pc[s] = "enrol" /\ req'[s] = req[s]
    BY <1>6 DEF Pair, Goto, TypeOK
  <2>3. QED
    BY <1>2, <2>1, <2>2
<1>7. CASE Restart
  BY <1>2, <1>7 DEF Restart, tables
<1>8. CASE UNCHANGED <<devices, pc, req>>
  BY <1>2, <1>8
<1>9. QED
  BY <1>3, <1>4, <1>5, <1>6, <1>7, <1>8 DEF Next, Serve, Issue, IssueSweep, IssueDraw,
     IssueAbort, Tick, vars, tables

LEMMA RedeemInvariant == Spec => []RedeemInv
<1>1. Init => RedeemInv
  BY DEF Init, RedeemInv, DevicesSpent, HoldersSpent, OneHolder, UnissuedUnused, SingleUse,
     NoRow
<1>2. QED
  BY <1>1, RedeemStep, TypeCorrect, PTL DEF Spec

\* No two devices are ever enrolled by one issued code: D-01's single use, for any
\* number of concurrent redemptions, sweeps, collisions and restarts.
THEOREM SingleUseHolds == Spec => []SingleUse
BY RedeemInvariant, PTL DEF RedeemInv

-----------------------------------------------------------------------------
(* The limiter *)

\* The calls of an address that passed checkLocked and have not ended.
InFlight(a) == {r \in Requests : pc[r] # "idle" /\ req[r].ip = a}

\* Once an address reached MaxAttempts its record is a lockout, and what it still
\* may add to the count is one per call in flight.
OvershootInv ==
  \A a \in ClientIPs :
    failures[a].count >= MaxAttempts =>
      /\ failures[a].lockedUntil # 0
      /\ failures[a].count + Cardinality(InFlight(a)) < MaxAttempts + Cardinality(Requests)

LEMMA InFlightFinite ==
  ASSUME NEW a \in ClientIPs
  PROVE  /\ IsFiniteSet(InFlight(a)) /\ IsFiniteSet(InFlight(a)')
         /\ Cardinality(InFlight(a)) \in Nat /\ Cardinality(InFlight(a)') \in Nat
         /\ Cardinality(Requests) \in Nat
<1>1. IsFiniteSet(InFlight(a)) /\ IsFiniteSet(InFlight(a)')
  BY PairingAssumption, FS_Subset DEF InFlight
<1>2. QED
  BY <1>1, PairingAssumption, FS_CardinalityType

\* A step of a call in flight brings no call of any address into flight.
LEMMA ServeInFlight ==
  ASSUME TypeOK, NEW r \in Requests, Serve(r), NEW a \in ClientIPs
  PROVE  InFlight(a)' \subseteq InFlight(a)
<1>1. PICK step \in Steps, q \in Request : /\ step # "idle" => q.ip = req[r].ip
                                           /\ Goto(r, step, q)
  BY ServeMoves DEF Moves
<1>2. pc[r] # "idle"
  BY DEF Serve, Lookup, Judge, CountCodeAttempt, MarkPairingCodeUsed, InsertDevice,
     ClearFailures, ReadClock, Failed, StoreError
<1>3. QED
  BY <1>1, <1>2 DEF InFlight, Goto, TypeOK

\* A step that brings no call of a into flight and adds nothing to its record keeps
\* the bound for a.
LEMMA OvershootFrame ==
  ASSUME TypeOK, OvershootInv, NEW a \in ClientIPs,
         InFlight(a)' \subseteq InFlight(a),
         failures'[a] = failures[a] \/ failures'[a] = NoFailures
  PROVE  failures'[a].count >= MaxAttempts =>
           /\ failures'[a].lockedUntil # 0
           /\ failures'[a].count + Cardinality(InFlight(a)') < MaxAttempts + Cardinality(Requests)
<1>1. Cardinality(InFlight(a)') <= Cardinality(InFlight(a))
  BY InFlightFinite, FS_Subset
<1>2. CASE failures'[a] = NoFailures
  BY <1>2, PairingAssumption DEF NoFailures
<1>3. CASE failures'[a] = failures[a]
  BY <1>1, <1>3, InFlightFinite, PairingAssumption DEF OvershootInv, TypeOK, FailureState
<1>4. QED
  BY <1>2, <1>3

LEMMA OvershootStep == TypeOK /\ OvershootInv /\ [Next]_vars => OvershootInv'
<1> SUFFICES ASSUME TypeOK, OvershootInv, [Next]_vars, NEW b \in ClientIPs
             PROVE  failures'[b].count >= MaxAttempts =>
                      /\ failures'[b].lockedUntil # 0
                      /\ failures'[b].count + Cardinality(InFlight(b)')
                           < MaxAttempts + Cardinality(Requests)
  BY DEF OvershootInv
<1>1. ASSUME NEW r \in Requests, NEW a \in ClientIPs, NEW c \in Codes, Pair(r, a, c), a = b
      PROVE  ~ failures'[b].count >= MaxAttempts
  <2>1. CASE failures[a].lockedUntil # 0
    BY <1>1, <2>1, PairingAssumption DEF Pair, CheckedFailures, NoFailures, TypeOK
  <2>2. CASE failures[a].lockedUntil = 0
    BY <1>1, <2>2, PairingAssumption
       DEF Pair, CheckedFailures, OvershootInv, TypeOK, FailureState
  <2>3. QED
    BY <2>1, <2>2
<1>2. ASSUME NEW r \in Requests, NEW a \in ClientIPs, NEW c \in Codes, Pair(r, a, c), a # b
      PROVE  InFlight(b)' \subseteq InFlight(b) /\ failures'[b] = failures[b]
  <2>1. failures'[b] = failures[b]
    BY <1>2 DEF Pair, CheckedFailures, TypeOK
  <2>2. CASE Moves(r, a)
    BY <1>2, <2>1, <2>2 DEF Moves, Goto, InFlight, TypeOK, Pair
  <2>3. CASE UNCHANGED <<pc, req>>
    BY <2>1, <2>3 DEF InFlight
  <2>4. QED
    BY <1>2, <2>1, <2>2, <2>3, PairMoves
<1>3. ASSUME NEW r \in Requests, Failed(r), req[r].ip = b
      PROVE  failures'[b].count >= MaxAttempts =>
               /\ failures'[b].lockedUntil # 0
               /\ failures'[b].count + Cardinality(InFlight(b)')
                    < MaxAttempts + Cardinality(Requests)
  <2>0. PICK now \in Nat : now = req[r].now
    BY DEF TypeOK, Request
  <2> DEFINE old == SweptFailures(now)[b]
  <2>1. failures'[b] = WithFailure(old, now)
    BY <1>3, <2>0 DEF Failed, SweptFailures
  <2>2. old = NoFailures \/ old = failures[b]
    BY DEF SweptFailures
  <2>3. old.count \in Nat /\ old.count <= failures[b].count
    BY <2>2 DEF NoFailures, TypeOK, FailureState
  <2>4. /\ failures'[b].count = old.count + 1
        /\ old.count + 1 >= MaxAttempts => failures'[b].lockedUntil = now + Lockout
    BY <2>1 DEF WithFailure
  <2>5. r \in InFlight(b) /\ InFlight(b)' = InFlight(b) \ {r}
    BY <1>3 DEF Failed, Answer, Goto, InFlight, TypeOK
  <2>6. Cardinality(InFlight(b)') = Cardinality(InFlight(b)) - 1
    BY <2>5, InFlightFinite, FS_RemoveElement
  <2>7. Cardinality(InFlight(b)) <= Cardinality(Requests)
    BY PairingAssumption, FS_Subset DEF InFlight
  <2>8. CASE old.count < MaxAttempts
    BY <2>3, <2>4, <2>6, <2>7, <2>8, InFlightFinite, PairingAssumption
  <2>9. CASE old.count >= MaxAttempts
    <3>1. failures[b].count = old.count
      BY <2>2, <2>9, PairingAssumption DEF NoFailures
    <3>2. old.count + Cardinality(InFlight(b)) < MaxAttempts + Cardinality(Requests)
      BY <2>9, <3>1 DEF OvershootInv
    <3>3. QED
      BY <2>3, <2>4, <2>6, <2>9, <3>2, InFlightFinite, PairingAssumption
  <2>10. QED
    BY <2>3, <2>8, <2>9, PairingAssumption
<1>4. ASSUME NEW r \in Requests, Serve(r), ~(Failed(r) /\ req[r].ip = b)
      PROVE  failures'[b] = failures[b] \/ failures'[b] = NoFailures
  BY <1>4 DEF Serve, Lookup, Judge, CountCodeAttempt, MarkPairingCodeUsed, InsertDevice,
     ClearFailures, ReadClock, Failed, StoreError, SweptFailures, TypeOK
<1>5. CASE Restart
  <2>1. InFlight(b)' \subseteq InFlight(b) /\ failures'[b] = NoFailures
    BY <1>5 DEF Restart, InFlight
  <2>2. QED
    BY <2>1, OvershootFrame
<1>6. CASE UNCHANGED <<pc, req, failures>>
  <2>1. InFlight(b)' \subseteq InFlight(b) /\ failures'[b] = failures[b]
    BY <1>6 DEF InFlight
  <2>2. QED
    BY <2>1, OvershootFrame
<1>7. QED
  BY <1>1, <1>2, <1>3, <1>4, <1>5, <1>6, ServeInFlight, OvershootFrame
     DEF Next, Issue, IssueSweep, IssueDraw, IssueAbort, Tick, vars, tables

\* However many calls of an address race with its lockout, fewer than one failure per
\* concurrent call is counted beyond MaxAttempts.
THEOREM OvershootIsBounded == Spec => []OvershootBounded
<1>1. Init => OvershootInv
  BY PairingAssumption DEF Init, OvershootInv, NoFailures
<1>2. TypeOK /\ OvershootInv => OvershootBounded
  <2> SUFFICES ASSUME TypeOK, OvershootInv, NEW a \in ClientIPs
               PROVE  failures[a].count < MaxAttempts + Cardinality(Requests)
    BY DEF OvershootBounded
  <2>1. failures[a].count \in Nat
    BY DEF TypeOK, FailureState
  <2>2. QED
    BY <2>1, InFlightFinite, PairingAssumption DEF OvershootInv
<1>3. QED
  BY <1>1, <1>2, OvershootStep, TypeCorrect, PTL DEF Spec

-----------------------------------------------------------------------------
(* Refinement: pairing implements the lifecycle of a code *)

\* One code moves on and the others stay: a step of the lifecycle.
LEMMA OneMoves ==
  ASSUME NEW i \in Rows,
         \/ StageOf(i) = "unissued" /\ StageOf(i)' = "live"
         \/ StageOf(i) = "live" /\ StageOf(i)' = "redeeming"
         \/ StageOf(i) = "redeeming" /\ StageOf(i)' = "enrolled",
         \A j \in Rows \ {i} : StageOf(j)' = StageOf(j)
  PROVE  Lifecycle!Next
<1>1. /\ Stage[i] = StageOf(i)
      /\ Stage' = [Stage EXCEPT ![i] = StageOf(i)']
  BY DEF Stage
<1>2. QED
  BY <1>1 DEF Lifecycle!Next, Lifecycle!Issue, Lifecycle!Redeem, Lifecycle!Enrol, Lifecycle!Move

\* Some codes are lost and the others stay: a step of the lifecycle.
LEMMA SomeAreLost ==
  ASSUME \A i \in Rows : \/ StageOf(i)' = StageOf(i)
                         \/ StageOf(i) \in {"live", "redeeming"} /\ StageOf(i)' = "gone"
  PROVE  Lifecycle!Next
<1> DEFINE S == {i \in Rows : StageOf(i)' # StageOf(i)}
<1>1. \A i \in S : Stage[i] \in {"live", "redeeming"}
  BY DEF Stage
<1>2. Stage' = [i \in Rows |-> IF i \in S THEN "gone" ELSE Stage[i]]
  BY DEF Stage
<1>3. Lifecycle!Lose(S)
  BY <1>1, <1>2 DEF Lifecycle!Lose
<1>4. QED
  BY <1>3 DEF Lifecycle!Next

\* What the stages are made of is untouched: a stutter.
LEMMA NothingMoves ==
  ASSUME \A i \in Rows : /\ rows'[i].state = rows[i].state
                         /\ rows'[i].used = rows[i].used
                         /\ HasDevice(i)' = HasDevice(i)
                         /\ HasHolder(i)' = HasHolder(i)
  PROVE  UNCHANGED Stage
BY DEF Stage, StageOf

LEMMA RefinementStep ==
  ASSUME TypeOK, RedeemInv, RedeemInv', [Next]_vars
  PROVE  [Lifecycle!Next]_Stage
<1> USE DEF TypeOK
<1>1. ASSUME NEW r \in Requests, MarkPairingCodeUsed(r), pc'[r] = "enrol"
      PROVE  Lifecycle!Next
  <2>1. PICK i \in Rows :
          /\ rows[i].state = "stored" /\ ~rows[i].used
          /\ rows' = [rows EXCEPT ![i] = Spent(@)]
          /\ Goto(r, "enrol", [req[r] EXCEPT !.code = None, !.row = i])
    BY <1>1 DEF MarkPairingCodeUsed, Stored, Redeemable, Goto
  <2>2. rows'[i].state = "stored" /\ rows'[i].used
    BY <2>1, RowFields
  <2>3. [req[r] EXCEPT !.code = None, !.row = i].row = i
    BY DEF Request
  <2>4. /\ pc' = [pc EXCEPT ![r] = "enrol"] /\ req'[r].row = i
        /\ \A s \in Requests \ {r} : req'[s] = req[s]
    BY <2>1, <2>3 DEF Goto
  <2>5. UNCHANGED devices /\ pc[r] = "burn"
    BY <1>1 DEF MarkPairingCodeUsed
  <2>6. ~HasDevice(i)' /\ HasHolder(i)'
    BY <2>1, <2>4, <2>5, PairingAssumption DEF HasDevice, HasHolder, RedeemInv, DevicesSpent
  <2>7. StageOf(i) = "live" /\ StageOf(i)' = "redeeming"
    BY <2>1, <2>2, <2>6 DEF StageOf
  <2>8. ASSUME NEW j \in Rows \ {i} PROVE StageOf(j)' = StageOf(j)
    <3>1. HasHolder(j)' = HasHolder(j)
      BY <2>4, <2>5 DEF HasHolder
    <3>2. HasDevice(j)' = HasDevice(j) /\ rows'[j] = rows[j]
      BY <2>1, <2>5 DEF HasDevice
    <3>3. QED
      BY <3>1, <3>2 DEF StageOf
  <2>9. QED
    BY <2>7, <2>8, OneMoves
<1>2. ASSUME NEW r \in Requests, InsertDevice(r)
      PROVE  Lifecycle!Next
  <2>0. PICK i \in Rows : i = req[r].row
    BY <1>2 DEF InsertDevice, RedeemInv, HoldersSpent
  <2>1. /\ UNCHANGED rows /\ pc[r] = "enrol"
        /\ pc' = [pc EXCEPT ![r] = "clear"]
        /\ \A s \in Requests \ {r} : req'[s] = req[s]
    BY <1>2 DEF InsertDevice, Goto
  <2>2. PICK d \in Devices : devices[d] = None /\ devices' = [devices EXCEPT ![d] = i]
    BY <1>2, <2>0 DEF InsertDevice
  <2>3. rows[i].used /\ rows[i].state # "none"
    BY <2>0, <2>1 DEF RedeemInv, HoldersSpent, UnissuedUnused
  <2>4. ~HasDevice(i) /\ HasHolder(i) /\ HasDevice(i)'
    BY <2>0, <2>1, <2>2 DEF RedeemInv, HoldersSpent, HasDevice, HasHolder
  <2>5. StageOf(i) = "redeeming" /\ StageOf(i)' = "enrolled"
    <3>1. HasDevice(i)' /\ ~HasDevice(i) /\ HasHolder(i)
      BY <2>4
    <3>2. QED
      BY <2>1, <2>3, <3>1 DEF StageOf
  <2>6. ASSUME NEW j \in Rows \ {i} PROVE StageOf(j)' = StageOf(j)
    <3>1. HasHolder(j)' = HasHolder(j)
      BY <2>0, <2>1 DEF HasHolder
    <3>2. HasDevice(j)' = HasDevice(j)
      BY <2>2, PairingAssumption DEF HasDevice
    <3>3. QED
      BY <2>1, <3>1, <3>2 DEF StageOf
  <2>7. QED
    BY <2>5, <2>6, OneMoves
<1>3. ASSUME \/ Restart
             \/ \E r \in Requests : StoreError(r)
      PROVE  Lifecycle!Next
  <2>1. UNCHANGED tables
    BY <1>3 DEF Restart, StoreError
  <2>2. ASSUME NEW i \in Rows, HasHolder(i)' PROVE HasHolder(i)
    BY <1>3, <2>2 DEF Restart, StoreError, Answer, Goto, HasHolder
  <2>3. ASSUME NEW i \in Rows
        PROVE  \/ StageOf(i)' = StageOf(i)
               \/ StageOf(i) \in {"live", "redeeming"} /\ StageOf(i)' = "gone"
    BY <2>1, <2>2 DEF StageOf, HasDevice, tables
  <2>4. QED
    BY <2>3, SomeAreLost
<1>4. ASSUME NEW p \in Issuers, IssueSweep(p)
      PROVE  Lifecycle!Next
  <2>1. UNCHANGED <<devices, pc, req>>
    BY <1>4 DEF IssueSweep
  <2>2. ASSUME NEW i \in Rows
        PROVE  \/ StageOf(i)' = StageOf(i)
               \/ StageOf(i) \in {"live", "redeeming"} /\ StageOf(i)' = "gone"
    <3>1. HasDevice(i)' = HasDevice(i) /\ HasHolder(i)' = HasHolder(i)
      BY <2>1 DEF HasDevice, HasHolder
    <3>2. ~rows[i].used => ~HasDevice(i) /\ ~HasHolder(i)
      BY PairingAssumption DEF RedeemInv, DevicesSpent, HoldersSpent, HasDevice, HasHolder
    <3>3. CASE rows'[i] = rows[i]
      BY <3>1, <3>3 DEF StageOf
    <3>4. CASE rows[i].state = "stored" /\ rows'[i] = Deleted(rows[i])
      BY <3>1, <3>2, <3>4, RowFields DEF StageOf
    <3>5. QED
      BY <1>4, <3>3, <3>4 DEF IssueSweep, Sweepable
  <2>3. QED
    BY <2>2, SomeAreLost
<1>5. ASSUME NEW p \in Issuers, NEW c \in Codes, IssueDraw(p, c)
      PROVE  [Lifecycle!Next]_Stage
  <2>1. UNCHANGED <<devices, pc, req>>
    BY <1>5 DEF IssueDraw
  <2>2. \A j \in Rows : HasDevice(j)' = HasDevice(j) /\ HasHolder(j)' = HasHolder(j)
    BY <2>1 DEF HasDevice, HasHolder
  <2>3. CASE UNCHANGED rows
    BY <2>2, <2>3, NothingMoves
  <2>4. CASE InsertRow(p, c)
    <3>1. PICK i \in Rows : /\ rows[i].state = "none"
                            /\ rows' = [rows EXCEPT ![i] = NewRow(c, issuer[p].expiresAt)]
      BY <2>4 DEF InsertRow
    <3>2. StageOf(i) = "unissued" /\ StageOf(i)' = "live"
      BY <3>1 DEF StageOf, NewRow
    <3>3. \A j \in Rows \ {i} : StageOf(j)' = StageOf(j)
      BY <2>2, <3>1 DEF StageOf
    <3>4. QED
      BY <3>2, <3>3, OneMoves
  <2>5. QED
    BY <1>5, <2>3, <2>4 DEF IssueDraw
<1>6. ASSUME NEW r \in Requests, CountCodeAttempt(r)
      PROVE  UNCHANGED Stage
  <2>1. \A i \in Rows : rows'[i].state = rows[i].state /\ rows'[i].used = rows[i].used
    BY <1>6, RowFields DEF CountCodeAttempt
  <2>2. \A i \in Rows : HasDevice(i)' = HasDevice(i) /\ HasHolder(i)' = HasHolder(i)
    BY <1>6 DEF CountCodeAttempt, Goto, HasDevice, HasHolder
  <2>3. QED
    BY <2>1, <2>2, NothingMoves
<1>7. ASSUME NEW r \in Requests,
             \/ Lookup(r) \/ Judge(r) \/ ClearFailures(r) \/ ReadClock(r) \/ Failed(r)
             \/ MarkPairingCodeUsed(r) /\ pc'[r] # "enrol"
      PROVE  UNCHANGED Stage
  <2>1. UNCHANGED tables
    BY <1>7 DEF Lookup, Judge, ClearFailures, ReadClock, Failed, MarkPairingCodeUsed, Goto, tables
  <2>2. /\ pc[r] # "enrol" /\ pc'[r] # "enrol"
        /\ \A s \in Requests \ {r} : pc'[s] = pc[s] /\ req'[s] = req[s]
    BY <1>7 DEF Lookup, Judge, ClearFailures, ReadClock, Failed, MarkPairingCodeUsed, Answer, Goto
  <2>3. \A i \in Rows : HasDevice(i)' = HasDevice(i) /\ HasHolder(i)' = HasHolder(i)
    BY <2>1, <2>2 DEF HasDevice, HasHolder, tables
  <2>4. QED
    BY <2>1, <2>3, NothingMoves DEF tables
<1>8. ASSUME NEW r \in Requests, NEW a \in ClientIPs, NEW c \in Codes, Pair(r, a, c)
      PROVE  UNCHANGED Stage
  <2>1. UNCHANGED tables
    BY <1>8 DEF Pair
  <2>2. /\ pc[r] # "enrol" /\ pc'[r] # "enrol"
        /\ \A s \in Requests \ {r} : pc'[s] = pc[s] /\ req'[s] = req[s]
    BY <1>8 DEF Pair, Goto
  <2>3. \A i \in Rows : HasDevice(i)' = HasDevice(i) /\ HasHolder(i)' = HasHolder(i)
    BY <2>1, <2>2 DEF HasDevice, HasHolder, tables
  <2>4. QED
    BY <2>1, <2>3, NothingMoves DEF tables
<1>9. CASE UNCHANGED <<rows, devices, pc, req>>
  <2>1. \A i \in Rows : HasDevice(i)' = HasDevice(i) /\ HasHolder(i)' = HasHolder(i)
    BY <1>9 DEF HasDevice, HasHolder
  <2>2. QED
    BY <1>9, <2>1, NothingMoves
<1>10. QED
  BY <1>1, <1>2, <1>3, <1>4, <1>5, <1>6, <1>7, <1>8, <1>9
     DEF Next, Serve, Issue, IssueAbort, Tick, vars, tables

\* Pairing implements CodeLifecycle: an issued code is redeemed at most once, enrols at
\* most one device, and never comes back once it is spent or swept.
THEOREM PairingImplementsLifecycle == Spec => ImplementsLifecycle
<1>1. Init => Lifecycle!Init
  BY DEF Init, Lifecycle!Init, Stage, StageOf, NoRow
<1>2. QED
  BY <1>1, TypeCorrect, RedeemInvariant, RefinementStep, PTL
     DEF Spec, ImplementsLifecycle, Lifecycle!Spec

-----------------------------------------------------------------------------
(* What a step may never do *)

\* What else the updates of a row leave alone.
LEMMA RowExpiry ==
  ASSUME NEW w \in Row
  PROVE  Charged(w).expiresAt = w.expiresAt /\ Spent(w).expiresAt = w.expiresAt
BY DEF Row, Charged, Spent

\* An unexpired, unspent code is never withdrawn or altered, and only the call that
\* redeems this code spends it.
THEOREM LiveCodeIsKept == Spec => LiveCodeKept
<1> DEFINE Kept(i) ==
      /\ rows'[i].state = "stored"
      /\ rows'[i].expiresAt = rows[i].expiresAt
      /\ rows'[i].used => \E r \in Requests : /\ pc[r] = "burn" /\ pc'[r] = "enrol"
                                              /\ req[r].code = rows[i].code
<1>1. ASSUME TypeOK, [Next]_vars, NEW i \in Rows,
             rows[i].state = "stored", ~rows[i].used, clock < rows[i].expiresAt
      PROVE  Kept(i)
  <2> USE <1>1 DEF TypeOK
  <2>1. CASE rows'[i] = rows[i]
    BY <2>1
  <2>2. ASSUME NEW p \in Issuers, IssueSweep(p)
        PROVE  rows'[i] = rows[i]
    BY <2>2 DEF IssueSweep, Sweepable, Row
  <2>3. ASSUME NEW p \in Issuers, NEW c \in Codes, IssueDraw(p, c)
        PROVE  rows'[i] = rows[i]
    BY <2>3 DEF IssueDraw, InsertRow
  <2>4. ASSUME NEW r \in Requests, CountCodeAttempt(r)
        PROVE  Kept(i)
    BY <2>4, RowFields, RowExpiry DEF CountCodeAttempt
  <2>5. ASSUME NEW r \in Requests, MarkPairingCodeUsed(r)
        PROVE  Kept(i)
    <3>1. CASE UNCHANGED rows
      BY <3>1
    <3>2. ASSUME NEW j \in Rows, rows[j].code = req[r].code, pc[r] = "burn",
                 rows' = [rows EXCEPT ![j] = Spent(@)],
                 Goto(r, "enrol", [req[r] EXCEPT !.code = None, !.row = j])
          PROVE  Kept(i)
      <4>1. CASE i = j
        <5>1. rows'[i] = Spent(rows[i])
          BY <3>2, <4>1
        <5>2. pc'[r] = "enrol"
          BY <3>2 DEF Goto
        <5>3. QED
          BY <3>2, <4>1, <5>1, <5>2, RowFields, RowExpiry
      <4>2. CASE i # j
        BY <3>2, <4>2
      <4>3. QED
        BY <4>1, <4>2
    <3>3. QED
      BY <2>5, <3>1, <3>2 DEF MarkPairingCodeUsed, Stored
  <2>6. QED
    BY <2>1, <2>2, <2>3, <2>4, <2>5 DEF Next, Serve, Issue, Pair, Lookup, Judge, InsertDevice,
       ClearFailures, ReadClock, Failed, StoreError, IssueAbort, Tick, Restart, vars, tables
<1>2. TypeOK /\ [Next]_vars =>
        [\A i \in Rows :
           rows[i].state = "stored" /\ ~rows[i].used /\ clock < rows[i].expiresAt =>
             Kept(i)]_vars
  BY <1>1
<1>3. QED
  BY <1>2, TypeCorrect, PTL DEF Spec, LiveCodeKept

\* The time a call failed at is past: the clock does not go back.
NowIsPast == \A r \in Requests : req[r].now <= clock

LEMMA NowIsAlwaysPast == Spec => []NowIsPast
<1>1. Init => NowIsPast
  BY DEF Init, NowIsPast, NoRequest
<1>2. TypeOK /\ NowIsPast /\ [Next]_vars => NowIsPast'
  <2> SUFFICES ASSUME TypeOK, NowIsPast, [Next]_vars, NEW s \in Requests
               PROVE  req'[s].now <= clock'
    BY DEF NowIsPast
  <2> USE DEF TypeOK
  <2>1. req[s].now \in Nat /\ req[s].now <= clock /\ clock \in Nat
    BY DEF NowIsPast, Request
  <2>2. clock' = clock \/ clock' = clock + 1
    BY DEF Next, Serve, Issue, Pair, Lookup, Judge, CountCodeAttempt, MarkPairingCodeUsed,
       InsertDevice, ClearFailures, ReadClock, Failed, StoreError, IssueSweep, IssueDraw,
       IssueAbort, Tick, Restart, vars
  <2>3. req'[s].now \in {req[s].now, 0, clock}
    <3>1. ASSUME NEW r \in Requests, Serve(r) PROVE req'[s].now \in {req[s].now, 0, clock}
      <4>1. ASSUME r # s PROVE req'[s] = req[s]
        BY <3>1, <4>1 DEF Serve, Lookup, Judge, CountCodeAttempt, MarkPairingCodeUsed,
           InsertDevice, ClearFailures, ReadClock, Failed, StoreError, Answer, Goto
      <4>2. CASE ReadClock(r)
        BY <4>1, <4>2 DEF ReadClock, Goto, Request
      <4>3. CASE ClearFailures(r) \/ Failed(r) \/ StoreError(r)
        BY <4>1, <4>3 DEF ClearFailures, Failed, StoreError, Answer, Goto, NoRequest
      <4>4. ASSUME NEW q, Goto(r, pc'[r], q), q.now = req[r].now
            PROVE  req'[s].now = req[s].now
        BY <4>1, <4>4 DEF Goto
      <4>5. CASE \/ Lookup(r) \/ Judge(r)
                 \/ CountCodeAttempt(r) \/ MarkPairingCodeUsed(r) \/ InsertDevice(r)
        <5>1. /\ [req[r] EXCEPT !.code = None, !.want = "invalid"].now = req[r].now
              /\ [req[r] EXCEPT !.want = "invalid"].now = req[r].now
              /\ [req[r] EXCEPT !.row = None, !.want = "expired"].now = req[r].now
              /\ [req[r] EXCEPT !.row = None].now = req[r].now
              /\ [req[r] EXCEPT !.code = None].now = req[r].now
          BY DEF Request
        <5>2. ASSUME NEW i
              PROVE  /\ [req[r] EXCEPT !.row = i].now = req[r].now
                     /\ [req[r] EXCEPT !.code = None, !.row = i].now = req[r].now
          BY DEF Request
        <5>3. \E q : Goto(r, pc'[r], q) /\ q.now = req[r].now
          <6>1. CASE Lookup(r)
            BY <5>1, <5>2, <6>1 DEF Lookup, Goto
          <6>2. CASE Judge(r)
            BY <5>1, <6>2 DEF Judge, Goto
          <6>3. CASE CountCodeAttempt(r) \/ InsertDevice(r)
            BY <5>1, <6>3 DEF CountCodeAttempt, InsertDevice, Goto
          <6>4. CASE MarkPairingCodeUsed(r)
            BY <5>1, <5>2, <6>4 DEF MarkPairingCodeUsed, Goto
          <6>5. QED
            BY <4>5, <6>1, <6>2, <6>3, <6>4
        <5>4. QED
          BY <4>4, <5>3
      <4>6. QED
        BY <3>1, <4>2, <4>3, <4>4, <4>5 DEF Serve
    <3>2. ASSUME NEW r \in Requests, NEW a \in ClientIPs, NEW c \in Codes, Pair(r, a, c)
          PROVE  req'[s].now \in {req[s].now, 0, clock}
      BY <3>2 DEF Pair, Goto, NoRequest
    <3>3. CASE Restart
      BY <3>3 DEF Restart, NoRequest
    <3>4. CASE UNCHANGED req
      BY <3>4
    <3>5. QED
      BY <3>1, <3>2, <3>3, <3>4 DEF Next, Issue, IssueSweep, IssueDraw, IssueAbort, Tick, vars
  <2>4. QED
    BY <2>1, <2>2, <2>3
<1>3. QED
  BY <1>1, <1>2, TypeCorrect, PTL DEF Spec

\* A record of the limiter only grows, unless its lockout ran out, it has been silent
\* for two lockouts, its address paired, or the server restarted.
THEOREM FailuresAreRemembered == Spec => FailuresRemembered
<1> DEFINE Remembered(a) ==
      \/ /\ failures'[a].count >= failures[a].count
         /\ failures[a].lockedUntil # 0 => failures'[a].lockedUntil # 0
      \/ /\ failures[a].lockedUntil # 0
         /\ failures[a].lockedUntil <= clock
      \/ failures[a].lastFailure + 2 * Lockout < clock
      \/ \E r \in Requests : pc[r] = "clear" /\ req[r].ip = a /\ pc'[r] = "idle"
      \/ Restart
<1>1. ASSUME TypeOK, NowIsPast, [Next]_vars, NEW a \in ClientIPs
      PROVE  Remembered(a)
  <2> USE <1>1, PairingAssumption DEF TypeOK
  <2>1. failures[a] \in FailureState
    OBVIOUS
  <2>2. CASE failures'[a] = failures[a]
    BY <2>1, <2>2 DEF FailureState
  <2>3. ASSUME NEW r \in Requests, NEW b \in ClientIPs, NEW c \in Codes, Pair(r, b, c)
        PROVE  Remembered(a)
    BY <2>1, <2>2, <2>3 DEF Pair, CheckedFailures, LockedOut, FailureState
  <2>4. ASSUME NEW r \in Requests, ClearFailures(r)
        PROVE  Remembered(a)
    BY <2>2, <2>4 DEF ClearFailures, Answer, Goto
  <2>5. ASSUME NEW r \in Requests, Failed(r)
        PROVE  Remembered(a)
    <3>1. PICK now \in Nat : now = req[r].now /\ now <= clock
      BY <1>1 DEF Request, NowIsPast
    <3>2. CASE Forgettable(a, now)
      BY <2>1, <3>1, <3>2 DEF Forgettable, FailureState
    <3>3. CASE ~Forgettable(a, now) /\ req[r].ip # a
      <4>1. failures'[a] = failures[a]
        BY <2>5, <3>1, <3>3 DEF Failed, SweptFailures
      <4>2. QED
        BY <2>2, <4>1
    <3>4. CASE ~Forgettable(a, now) /\ req[r].ip = a
      <4>1. failures'[a] = WithFailure(failures[a], now)
        BY <2>5, <3>1, <3>4 DEF Failed, SweptFailures
      <4>2. /\ failures'[a].count = failures[a].count + 1
            /\ failures'[a].lockedUntil \in {failures[a].lockedUntil, now + Lockout}
        BY <4>1 DEF WithFailure
      <4>3. QED
        BY <2>1, <4>2 DEF FailureState
    <3>5. QED
      BY <3>2, <3>3, <3>4
  <2>6. QED
    BY <2>2, <2>3, <2>4, <2>5 DEF Next, Serve, Issue, Lookup, Judge, CountCodeAttempt,
       MarkPairingCodeUsed, InsertDevice, ReadClock, StoreError, IssueSweep, IssueDraw,
       IssueAbort, Tick, vars
<1>2. TypeOK /\ NowIsPast /\ [Next]_vars => [\A a \in ClientIPs : Remembered(a)]_vars
  BY <1>1
<1>3. QED
  BY <1>2, TypeCorrect, NowIsAlwaysPast, PTL DEF Spec, FailuresRemembered

-----------------------------------------------------------------------------
(* The audit column *)

\* A row whose code can no longer be redeemed: spent, or past its TTL.
Dead(i) == rows[i].used \/ clock >= rows[i].expiresAt

\* What makes the audit column inductive: the table holds a code once, a call that is
\* about to judge a row read it under the call's code, and a call that is about to
\* charge a code saw some issue of that code dead.
OneStoredRow ==
  \A i, j \in Rows :
    /\ rows[i].state = "stored" /\ rows[j].state = "stored"
    /\ rows[i].code = rows[j].code
    => i = j
JudgesItsCode ==
  \A r \in Requests :
    pc[r] = "judge" => /\ req[r].row \in Rows
                       /\ rows[req[r].row].state # "none"
                       /\ rows[req[r].row].code = req[r].code
SawItDead ==
  \A r \in Requests :
    pc[r] = "count" => \E i \in Rows : /\ rows[i].state # "none"
                                       /\ rows[i].code = req[r].code
                                       /\ Dead(i)

UnissuedUncharged == \A i \in Rows : rows[i].state = "none" => ~rows[i].charged

AuditInv ==
  OneStoredRow /\ JudgesItsCode /\ SawItDead /\ UnissuedUncharged /\ ChargedRowsWereDead

\* What the updates of a row leave alone of its code and its audit column.
LEMMA RowAudit ==
  ASSUME NEW w \in Row
  PROVE  /\ Deleted(w).code = w.code /\ Deleted(w).expiresAt = w.expiresAt
         /\ Deleted(w).charged = w.charged
         /\ Charged(w).code = w.code
         /\ Spent(w).code = w.code /\ Spent(w).charged = w.charged
BY DEF Row, Deleted, Charged, Spent

\* What a step keeps of a row that was issued.
KeepsRow(i) ==
  /\ rows'[i].state # "none"
  /\ rows[i].state = "deleted" => rows'[i].state = "deleted"
  /\ rows'[i].code = rows[i].code
  /\ rows'[i].expiresAt = rows[i].expiresAt
  /\ rows[i].used => rows'[i].used

\* The row one draw inserts.
Inserts(p, c, i) ==
  /\ rows[i].state = "none"
  /\ Stored(c) = {}
  /\ rows' = [rows EXCEPT ![i] = NewRow(c, issuer[p].expiresAt)]

\* An issued row keeps its code, its expiry, its spending and its withdrawal; only a
\* draw inserts rows, and only CountCodeAttempt charges them.
LEMMA RowsStep ==
  ASSUME TypeOK, [Next]_vars
  PROVE  /\ \A i \in Rows : rows[i].state # "none" => KeepsRow(i)
         /\ \/ \E p \in Issuers, c \in Codes, i \in Rows : Inserts(p, c, i)
            \/ \A i \in Rows : rows[i].state = "none" => rows'[i] = rows[i]
         /\ \/ \E r \in Requests : CountCodeAttempt(r)
            \/ \A i \in Rows : rows'[i].charged => rows[i].charged
<1> USE DEF TypeOK, KeepsRow, Row
<1>1. ASSUME NEW p \in Issuers, IssueSweep(p)
      PROVE  /\ \A i \in Rows : rows[i].state # "none" => KeepsRow(i)
             /\ \A i \in Rows : rows[i].state = "none" => rows'[i] = rows[i]
             /\ \A i \in Rows : rows'[i].charged => rows[i].charged
  BY <1>1, RowFields, RowAudit DEF IssueSweep, Sweepable
<1>2. ASSUME NEW p \in Issuers, NEW c \in Codes, IssueDraw(p, c)
      PROVE  /\ \A i \in Rows : rows[i].state # "none" => KeepsRow(i)
             /\ \/ \E i \in Rows : Inserts(p, c, i)
                \/ \A i \in Rows : rows[i].state = "none" => rows'[i] = rows[i]
             /\ \A i \in Rows : rows'[i].charged => rows[i].charged
  BY <1>2 DEF IssueDraw, InsertRow, Inserts, NewRow
<1>3. ASSUME NEW r \in Requests, CountCodeAttempt(r)
      PROVE  /\ \A i \in Rows : rows[i].state # "none" => KeepsRow(i)
             /\ \A i \in Rows : rows[i].state = "none" => rows'[i] = rows[i]
  BY <1>3, RowFields, RowExpiry, RowAudit DEF CountCodeAttempt, Stored
<1>4. ASSUME NEW r \in Requests, MarkPairingCodeUsed(r)
      PROVE  /\ \A i \in Rows : rows[i].state # "none" => KeepsRow(i)
             /\ \A i \in Rows : rows[i].state = "none" => rows'[i] = rows[i]
             /\ \A i \in Rows : rows'[i].charged => rows[i].charged
  <2>1. CASE UNCHANGED rows
    BY <2>1
  <2>2. ASSUME NEW j \in Rows, rows[j].state = "stored", rows' = [rows EXCEPT ![j] = Spent(@)]
        PROVE  /\ \A i \in Rows : rows[i].state # "none" => KeepsRow(i)
               /\ \A i \in Rows : rows[i].state = "none" => rows'[i] = rows[i]
               /\ \A i \in Rows : rows'[i].charged => rows[i].charged
    <3>1. \A i \in Rows \ {j} : rows'[i] = rows[i]
      BY <2>2
    <3>2. rows'[j] = Spent(rows[j])
      BY <2>2
    <3>3. QED
      BY <2>2, <3>1, <3>2, RowFields, RowExpiry, RowAudit
  <2>3. QED
    BY <1>4, <2>1, <2>2 DEF MarkPairingCodeUsed, Stored
<1>5. CASE UNCHANGED rows
  BY <1>5
<1>6. QED
  <2>1. CASE UNCHANGED rows
    BY <2>1, <1>5
  <2>2. CASE \E p \in Issuers : IssueSweep(p)
    BY <2>2, <1>1
  <2>3. CASE \E p \in Issuers, c \in Codes : IssueDraw(p, c)
    BY <2>3, <1>2
  <2>4. CASE \E r \in Requests : CountCodeAttempt(r)
    BY <2>4, <1>3
  <2>5. CASE \E r \in Requests : MarkPairingCodeUsed(r)
    BY <2>5, <1>4
  <2>6. QED
    BY <2>1, <2>2, <2>3, <2>4, <2>5 DEF Next, Serve, Issue, Pair, Lookup, Judge,
       InsertDevice, ClearFailures, ReadClock, Failed, StoreError, IssueAbort, Tick,
       Restart, vars, tables

\* The clock does not go back, so a dead row stays dead.
LEMMA DeadStaysDead ==
  ASSUME TypeOK, [Next]_vars, NEW i \in Rows, rows[i].state # "none", Dead(i)
  PROVE  Dead(i)'
<1>1. clock' = clock \/ clock' = clock + 1
  BY DEF Next, Serve, Issue, Pair, Lookup, Judge, CountCodeAttempt, MarkPairingCodeUsed,
     InsertDevice, ClearFailures, ReadClock, Failed, StoreError, IssueSweep, IssueDraw,
     IssueAbort, Tick, Restart, vars
<1>2. KeepsRow(i)
  BY RowsStep
<1>3. rows[i].expiresAt \in Nat /\ clock \in Nat
  BY DEF TypeOK, Row
<1>4. QED
  BY <1>1, <1>2, <1>3 DEF KeepsRow, Dead

\* How a call comes to judge a row or to charge a code.
LEMMA AuditMoves ==
  ASSUME TypeOK, [Next]_vars, NEW r \in Requests
  PROVE  /\ pc'[r] = "judge" =>
              \/ pc[r] = "judge" /\ req'[r] = req[r]
              \/ \E i \in Stored(req[r].code) : req'[r].row = i /\ req'[r].code = req[r].code
         /\ pc'[r] = "count" =>
              \/ pc[r] = "count" /\ req'[r] = req[r]
              \/ /\ req'[r].code = req[r].code
                 /\ \E i \in Stored(req[r].code) : rows[i].used
              \/ /\ req'[r].code = req[r].code
                 /\ pc[r] = "judge"
                 /\ clock >= rows[req[r].row].expiresAt
<1> USE DEF TypeOK
<1>1. req[r] \in Request
  OBVIOUS
<1>2. /\ [req[r] EXCEPT !.want = "invalid"].code = req[r].code
      /\ [req[r] EXCEPT !.row = None, !.want = "expired"].code = req[r].code
  BY <1>1 DEF Request
<1>3. ASSUME NEW i
      PROVE  [req[r] EXCEPT !.row = i].row = i /\ [req[r] EXCEPT !.row = i].code = req[r].code
  BY <1>1 DEF Request
<1>4. CASE Lookup(r)
  <2>1. CASE pc'[r] = "judge"
    <3>1. PICK i \in Stored(req[r].code) : req' = [req EXCEPT ![r] = [req[r] EXCEPT !.row = i]]
      BY <1>4, <2>1 DEF Lookup, Goto
    <3>2. QED
      BY <1>3, <2>1, <3>1
  <2>2. CASE pc'[r] = "count"
    <3>1. /\ req' = [req EXCEPT ![r] = [req[r] EXCEPT !.want = "invalid"]]
          /\ \E i \in Stored(req[r].code) : rows[i].used
      BY <1>4, <2>2 DEF Lookup, Goto
    <3>2. QED
      BY <1>2, <2>2, <3>1
  <2>3. QED
    BY <2>1, <2>2
<1>5. CASE Judge(r)
  BY <1>2, <1>5 DEF Judge, Goto
<1>6. CASE pc'[r] \notin {"judge", "count"}
  BY <1>6
<1>7. CASE pc'[r] = pc[r] /\ req'[r] = req[r]
  BY <1>7
<1>8. ASSUME NEW s \in Requests, Serve(s)
      PROVE  \/ Lookup(r) \/ Judge(r)
             \/ pc'[r] \notin {"judge", "count"}
             \/ pc'[r] = pc[r] /\ req'[r] = req[r]
  BY <1>8 DEF Serve, Lookup, Judge, CountCodeAttempt, MarkPairingCodeUsed, InsertDevice,
     ClearFailures, ReadClock, Failed, StoreError, Answer, Goto
<1>9. ASSUME NEW s \in Requests, NEW a \in ClientIPs, NEW c \in Codes, Pair(s, a, c)
      PROVE  \/ pc'[r] \notin {"judge", "count"}
             \/ pc'[r] = pc[r] /\ req'[r] = req[r]
  BY <1>9 DEF Pair, Goto
<1>10. \/ Lookup(r) \/ Judge(r)
       \/ pc'[r] \notin {"judge", "count"}
       \/ pc'[r] = pc[r] /\ req'[r] = req[r]
  BY <1>8, <1>9 DEF Next, Restart, Issue, IssueSweep, IssueDraw, IssueAbort, Tick, vars
<1>11. QED
  BY <1>4, <1>5, <1>6, <1>7, <1>10

LEMMA AuditStep == TypeOK /\ AuditInv /\ [Next]_vars => AuditInv'
<1> SUFFICES ASSUME TypeOK, AuditInv, [Next]_vars PROVE AuditInv'
  OBVIOUS
<1> USE DEF AuditInv
<1>1. \A i \in Rows : rows[i].state # "none" => KeepsRow(i)
  BY RowsStep
<1>2. \A i \in Rows : rows[i].state # "none" /\ Dead(i) => Dead(i)'
  BY DeadStaysDead
<1>3. \A i \in Rows : rows[i].state \in {"none", "stored", "deleted"}
  BY DEF TypeOK, Row
<1>4. \A i \in Rows : rows'[i].state = "stored" /\ rows[i].state # "none" =>
                        rows[i].state = "stored" /\ rows'[i].code = rows[i].code
  BY <1>1, <1>3 DEF KeepsRow
<1>5. OneStoredRow'
  <2>1. ASSUME NEW p \in Issuers, NEW c \in Codes, NEW k \in Rows, Inserts(p, c, k)
        PROVE  OneStoredRow'
    <3>1. rows'[k].code = c /\ \A i \in Rows \ {k} : rows'[i] = rows[i]
      BY <2>1 DEF Inserts, NewRow, TypeOK
    <3>2. QED
      BY <2>1, <3>1 DEF OneStoredRow, Inserts, Stored
  <2>2. CASE \A i \in Rows : rows[i].state = "none" => rows'[i] = rows[i]
    BY <1>4, <2>2 DEF OneStoredRow
  <2>3. QED
    BY <2>1, <2>2, RowsStep
<1>6. JudgesItsCode'
  <2> SUFFICES ASSUME NEW r \in Requests, pc'[r] = "judge"
               PROVE  /\ req'[r].row \in Rows
                      /\ rows'[req'[r].row].state # "none"
                      /\ rows'[req'[r].row].code = req'[r].code
    BY DEF JudgesItsCode
  <2>1. PICK i \in Rows : /\ req'[r].row = i /\ req'[r].code = rows[i].code
                          /\ rows[i].state # "none"
    BY AuditMoves DEF JudgesItsCode, Stored
  <2>2. QED
    BY <1>1, <2>1 DEF KeepsRow
<1>7. SawItDead'
  <2> SUFFICES ASSUME NEW r \in Requests, pc'[r] = "count"
               PROVE  \E i \in Rows : /\ rows'[i].state # "none"
                                      /\ rows'[i].code = req'[r].code
                                      /\ Dead(i)'
    BY DEF SawItDead
  <2>1. PICK i \in Rows : /\ rows[i].state # "none" /\ Dead(i)
                          /\ rows[i].code = req'[r].code
    BY AuditMoves DEF SawItDead, JudgesItsCode, Stored, Dead
  <2>2. QED
    BY <1>1, <1>2, <2>1 DEF KeepsRow
<1>8. UnissuedUncharged' /\ \A i \in Rows : rows'[i].charged => rows[i].state # "none"
  <2> SUFFICES ASSUME NEW i \in Rows
               PROVE  rows'[i].charged => rows[i].state # "none" /\ rows'[i].state # "none"
    BY DEF UnissuedUncharged
  <2>1. CASE rows[i].state # "none"
    BY <1>1, <2>1 DEF KeepsRow
  <2>2. ASSUME rows[i].state = "none", NEW p \in Issuers, NEW c \in Codes, NEW k \in Rows,
               Inserts(p, c, k)
        PROVE  ~rows'[i].charged
    BY <2>2 DEF Inserts, NewRow, TypeOK, UnissuedUncharged
  <2>3. CASE rows[i].state = "none" /\ rows'[i] = rows[i]
    BY <2>3 DEF UnissuedUncharged
  <2>4. QED
    BY <2>1, <2>2, <2>3, RowsStep
<1>9. ChargedRowsWereDead'
  <2> SUFFICES ASSUME NEW i \in Rows, rows'[i].charged
               PROVE  \/ Dead(i)'
                      \/ \E j \in Rows \ {i} :
                           rows'[j].state = "deleted" /\ rows'[j].code = rows'[i].code
    BY DEF ChargedRowsWereDead, Dead
  <2>1. ASSUME rows[i].state # "none",
               \/ Dead(i)
               \/ \E j \in Rows \ {i} : rows[j].state = "deleted" /\ rows[j].code = rows[i].code
        PROVE  \/ Dead(i)'
               \/ \E j \in Rows \ {i} :
                    rows'[j].state = "deleted" /\ rows'[j].code = rows'[i].code
    BY <1>1, <1>2, <2>1 DEF KeepsRow
  <2>2. ASSUME NEW r \in Requests, CountCodeAttempt(r), ~rows[i].charged
        PROVE  /\ rows[i].state # "none"
               /\ \/ Dead(i)
                  \/ \E j \in Rows \ {i} :
                       rows[j].state = "deleted" /\ rows[j].code = rows[i].code
    <3>1. i \in Stored(req[r].code)
      BY <2>2 DEF CountCodeAttempt
    <3>2. PICK j \in Rows : /\ rows[j].state # "none" /\ rows[j].code = req[r].code
                            /\ Dead(j)
      BY <2>2 DEF CountCodeAttempt, SawItDead
    <3>3. j = i \/ rows[j].state = "deleted"
      BY <1>3, <3>1, <3>2 DEF OneStoredRow, Stored
    <3>4. QED
      BY <3>1, <3>2, <3>3 DEF Stored
  <2>3. ASSUME rows[i].charged
        PROVE  \/ Dead(i)
               \/ \E j \in Rows \ {i} : rows[j].state = "deleted" /\ rows[j].code = rows[i].code
    BY <2>3 DEF ChargedRowsWereDead, Dead
  <2>4. rows[i].state # "none"
    BY <1>8
  <2>5. QED
    BY <2>1, <2>2, <2>3, <2>4, RowsStep
<1>10. QED
  BY <1>5, <1>6, <1>7, <1>8, <1>9

\* A failed attempt is charged only to a code that was dead, or whose digits had been
\* issued before.
THEOREM OnlyDeadRowsAreCharged == Spec => []ChargedRowsWereDead
<1>1. Init => AuditInv
  BY DEF Init, AuditInv, UnissuedUncharged, OneStoredRow, JudgesItsCode, SawItDead,
     ChargedRowsWereDead, NoRow
<1>2. QED
  BY <1>1, TypeCorrect, AuditStep, PTL DEF Spec, AuditInv

=============================================================================
