----------------------------- MODULE AuthProofs -----------------------------
(***************************************************************************)
(* What holds of authentication for any number of requests, devices and    *)
(* restarts, and any touch interval.                                       *)
(***************************************************************************)
EXTENDS Auth, TLAPS

-----------------------------------------------------------------------------
(* Rows and requests *)

\* A touch leaves the pairing and the revocation alone, and a version known.
LEMMA TouchUpdate ==
  ASSUME NEW row \in Row, NEW at \in TimesOrZero, NEW version \in Nat
  PROVE  /\ Touched(row, at, version) \in Row
         /\ Touched(row, at, version).paired = row.paired
         /\ Touched(row, at, version).revokedAt = row.revokedAt
         /\ row.version # 0 => Touched(row, at, version).version # 0
BY DEF Touched, Row

\* A revocation is kept, and happens if there was none.
LEMMA RevokeUpdate ==
  ASSUME NEW row \in Row, NEW at \in TimesOrZero
  PROVE  /\ Revoked(row, at) \in Row
         /\ Revoked(row, at).paired = row.paired
         /\ Revoked(row, at).version = row.version
         /\ row.revokedAt # 0 => Revoked(row, at).revokedAt = row.revokedAt
         /\ at # 0 => Revoked(row, at).revokedAt # 0
BY DEF Revoked, Row

LEMMA NewRow ==
  ASSUME NEW version \in Nat
  PROVE  /\ NoRow \in Row /\ ~NoRow.paired /\ NoRow.revokedAt = 0
         /\ [paired |-> TRUE, version |-> version, lastSeenAt |-> 0, revokedAt |-> 0] \in Row
BY AuthAssumption DEF NoRow, Row, TimesOrZero

LEMMA NoRequestTyped == NoRequest \in Request /\ ~NoRequest.late
BY AuthAssumption DEF NoRequest, Request, TimesOrZero

\* A reading of the clock changes one local.
LEMMA RequestUpdates ==
  ASSUME NEW q \in Request, NEW t \in TimesOrZero
  PROVE  /\ [q EXCEPT !.now = t] \in Request
         /\ [q EXCEPT !.now = t].device = q.device /\ [q EXCEPT !.now = t].target = q.target
         /\ [q EXCEPT !.now = t].late = q.late /\ [q EXCEPT !.now = t].now = t
         /\ [q EXCEPT !.at = t] \in Request
         /\ [q EXCEPT !.at = t].device = q.device /\ [q EXCEPT !.at = t].target = q.target
         /\ [q EXCEPT !.at = t].late = q.late /\ [q EXCEPT !.at = t].at = t
         /\ [q EXCEPT !.at = t].now = q.now
         /\ [q EXCEPT !.at = 0, !.version = 0] \in Request
         /\ [q EXCEPT !.at = 0, !.version = 0].device = q.device
         /\ [q EXCEPT !.at = 0, !.version = 0].target = q.target
         /\ [q EXCEPT !.at = 0, !.version = 0].late = q.late
         /\ [q EXCEPT !.at = 0, !.version = 0].now = q.now
<1>1. 0 \in TimesOrZero
  BY AuthAssumption DEF TimesOrZero
<1>2. /\ [q EXCEPT !.now = t] \in Request
      /\ [q EXCEPT !.now = t].device = q.device /\ [q EXCEPT !.now = t].target = q.target
      /\ [q EXCEPT !.now = t].late = q.late /\ [q EXCEPT !.now = t].now = t
  BY DEF Request
<1>3. /\ [q EXCEPT !.at = t] \in Request
      /\ [q EXCEPT !.at = t].device = q.device /\ [q EXCEPT !.at = t].target = q.target
      /\ [q EXCEPT !.at = t].late = q.late /\ [q EXCEPT !.at = t].at = t
      /\ [q EXCEPT !.at = t].now = q.now
  BY DEF Request
<1>4. /\ [q EXCEPT !.at = 0, !.version = 0] \in Request
      /\ [q EXCEPT !.at = 0, !.version = 0].device = q.device
      /\ [q EXCEPT !.at = 0, !.version = 0].target = q.target
      /\ [q EXCEPT !.at = 0, !.version = 0].late = q.late
      /\ [q EXCEPT !.at = 0, !.version = 0].now = q.now
  BY <1>1 DEF Request
<1>5. QED
  BY <1>2, <1>3, <1>4

\* What a step leaves of its request: nothing, or a request of the same device that
\* got on, for the first time only if its device was live.
MovedOn(r, step, q) ==
  /\ pc[r] # "idle"
  /\ pc' = [pc EXCEPT ![r] = step]
  /\ req' = [req EXCEPT ![r] = q]
  /\ \/ step = "idle" /\ q = NoRequest
     \/ /\ step \in Steps \ {"idle", "lookup"}
        /\ q.device \in Devices
        /\ q.device = req[r].device /\ q.target = req[r].target /\ q.late = req[r].late
        /\ pc[r] = "lookup" => Live(q.device)
        /\ step = "revoke" => q.target # NoDevice /\ q.at = clock

LEMMA Answered ==
  ASSUME TypeOK, NEW r \in Requests, pc[r] # "idle", Answer(r)
  PROVE  \E step \in Steps, q \in Request : MovedOn(r, step, q)
BY NoRequestTyped DEF MovedOn, Answer, Goto, Steps

\* Every step of a request moves it on.
LEMMA StepMoves ==
  ASSUME TypeOK, NEW r \in Requests, Step(r)
  PROVE  \E step \in Steps, q \in Request : MovedOn(r, step, q)
<1> USE DEF TypeOK
<1>0. /\ req[r] \in Request /\ clock \in TimesOrZero /\ 0 \in TimesOrZero
      /\ req = [req EXCEPT ![r] = req[r]]
  BY AuthAssumption DEF Times, TimesOrZero
<1>1. CASE Authenticate(r)
  <2>1. CASE Answer(r)
    BY <1>1, <2>1, Answered DEF Authenticate
  <2>2. CASE ~Answer(r)
    <3>1. MovedOn(r, "clock", req[r])
      BY <1>0, <1>1, <2>2 DEF Authenticate, MovedOn, Goto, Steps
    <3>2. QED
      BY <3>1, <1>0 DEF Steps
  <2>3. QED
    BY <2>1, <2>2
<1>2. CASE ReadClock(r)
  <2> DEFINE q == [req[r] EXCEPT !.now = clock]
  <2>1. q \in Request /\ q.device = req[r].device /\ q.target = req[r].target /\ q.late = req[r].late
    BY <1>0, RequestUpdates
  <2>2. req' = [req EXCEPT ![r] = q] /\ pc' = [pc EXCEPT ![r] = "throttle"] /\ pc[r] = "clock"
    BY <1>2 DEF ReadClock, Goto
  <2>3. MovedOn(r, "throttle", q)
    BY <2>1, <2>2 DEF MovedOn, Steps
  <2>4. QED
    BY <2>1, <2>3 DEF Steps
<1>3. ASSUME Handle(r), pc[r] \notin {"idle", "lookup"}
      PROVE  \E step \in Steps, q \in Request : MovedOn(r, step, q)
  <2> DEFINE q == [req[r] EXCEPT !.at = 0, !.version = 0]
  <2>1. q \in Request /\ q.device = req[r].device /\ q.target = req[r].target /\ q.late = req[r].late
    BY <1>0, RequestUpdates
  <2>2. req' = [req EXCEPT ![r] = q] /\ pc' = [pc EXCEPT ![r] = "handler"]
    BY <1>3 DEF Handle, Goto
  <2>3. MovedOn(r, "handler", q)
    BY <1>3, <2>1, <2>2 DEF MovedOn, Steps
  <2>4. QED
    BY <2>1, <2>3 DEF Steps
<1>4. CASE Throttle(r)
  <2>1. CASE Due(req[r].device, req[r].now)
    <3>1. MovedOn(r, "touching", req[r])
      BY <1>0, <1>4, <2>1 DEF Throttle, MovedOn, Goto, Steps
    <3>2. QED
      BY <3>1, <1>0 DEF Steps
  <2>2. CASE ~Due(req[r].device, req[r].now)
    BY <1>3, <1>4, <2>2 DEF Throttle
  <2>3. QED
    BY <2>1, <2>2
<1>5. ASSUME NEW step \in {"update", "revoke"}, Goto(r, step), pc[r] \in {"touching", "handler"},
             req' = [req EXCEPT ![r].at = clock], step = "revoke" => req[r].target # NoDevice
      PROVE  \E s \in Steps, q \in Request : MovedOn(r, s, q)
  <2> DEFINE q == [req[r] EXCEPT !.at = clock]
  <2>1. /\ q \in Request /\ q.device = req[r].device /\ q.target = req[r].target
        /\ q.late = req[r].late /\ q.at = clock
    BY <1>0, RequestUpdates
  <2>2. req' = [req EXCEPT ![r] = q] /\ pc' = [pc EXCEPT ![r] = step]
    BY <1>5 DEF Goto
  <2>3. MovedOn(r, step, q)
    BY <1>5, <2>1, <2>2 DEF MovedOn, Steps
  <2>4. QED
    BY <2>1, <2>3, <1>5 DEF Steps
<1>6. CASE BeginTouch(r) \/ BeginRevoke(r)
  BY <1>5, <1>6 DEF BeginTouch, BeginRevoke
<1>7. CASE TouchDevice(r) \/ TouchFails(r)
  BY <1>3, <1>7 DEF TouchDevice, TouchFails
<1>8. CASE Serve(r) \/ RevokeDevice(r) \/ StoreError(r)
  BY <1>8, Answered DEF Serve, RevokeDevice, StoreError
<1>9. QED
  BY <1>1, <1>2, <1>4, <1>6, <1>7, <1>8 DEF Step

\* A request arrives and is looked up next.
LEMMA ArriveMoves ==
  ASSUME TypeOK, NEW r \in Requests, NEW d \in Devices \cup {NoDevice},
         NEW t \in Devices \cup {NoDevice}, NEW v \in VersionCodes \cup {0}, Arrive(r, d, t, v)
  PROVE  \E q \in Request :
           /\ pc' = [pc EXCEPT ![r] = "lookup"] /\ req' = [req EXCEPT ![r] = q]
           /\ q.device = d /\ (q.late <=> d \in cut)
<1>1. (d \in cut) \in BOOLEAN /\ 0 \in TimesOrZero
  BY AuthAssumption DEF TimesOrZero
<1>2. PICK late \in BOOLEAN : late <=> d \in cut
  BY <1>1
<1>3. [device |-> d, target |-> t, version |-> v, late |-> late, now |-> 0, at |-> 0] \in Request
  BY <1>1 DEF Request
<1>4. late = (d \in cut)
  BY <1>2, Zenon
<1>5. QED
  BY <1>2, <1>3, <1>4 DEF Arrive, Goto

-----------------------------------------------------------------------------
(* Types *)

LEMMA MovedTyped ==
  ASSUME TypeOK, NEW r \in Requests, NEW step \in Steps, NEW q \in Request, MovedOn(r, step, q)
  PROVE  /\ pc' \in [Requests -> Steps] /\ req' \in [Requests -> Request]
         /\ \A s \in Requests : pc'[s] \notin {"idle", "lookup"} => req'[s].device \in Devices
         /\ \A s \in Requests : pc'[s] = "revoke" => req'[s].target \in Devices
<1>1. q.target \in Devices \cup {NoDevice}
  BY DEF Request
<1>2. QED
  BY <1>1 DEF TypeOK, MovedOn

LEMMA StepTyped == ASSUME TypeOK, NEW r \in Requests, Step(r) PROVE TypeOK'
<1> USE DEF TypeOK
<1>1. /\ pc' \in [Requests -> Steps] /\ req' \in [Requests -> Request]
      /\ \A s \in Requests : pc'[s] \notin {"idle", "lookup"} => req'[s].device \in Devices
      /\ \A s \in Requests : pc'[s] = "revoke" => req'[s].target \in Devices
  BY StepMoves, MovedTyped
<1>2. /\ req[r] \in Request /\ req[r].version \in Nat
      /\ req[r].now \in TimesOrZero /\ req[r].at \in TimesOrZero
  <2>1. req[r] \in Request /\ (VersionCodes \cup {0}) \subseteq Nat
    BY AuthAssumption
  <2>2. /\ req[r].version \in VersionCodes \cup {0}
        /\ req[r].now \in TimesOrZero /\ req[r].at \in TimesOrZero
    BY <2>1 DEF Request
  <2>3. QED
    BY <2>1, <2>2
<1>3. UNCHANGED <<clock, process>>
  BY DEF Step, Authenticate, ReadClock, Throttle, BeginTouch, TouchDevice, TouchFails, Serve,
         BeginRevoke, RevokeDevice, StoreError, history
<1>4. rows' \in [Devices -> Row] /\ cut' \subseteq Devices /\ spoiled' \subseteq Devices
  <2>1. CASE TouchDevice(r)
    <3>1. req[r].device \in Devices
      BY <2>1 DEF TouchDevice
    <3>2. Touched(rows[req[r].device], req[r].at, req[r].version) \in Row
      BY <1>2, <3>1, TouchUpdate
    <3>3. rows' = [rows EXCEPT ![req[r].device] = Touched(rows[req[r].device], req[r].at, req[r].version)]
      BY <2>1 DEF TouchDevice
    <3>4. cut' = cut /\ (spoiled' = spoiled \/ spoiled' = spoiled \cup {req[r].device})
      BY <2>1 DEF TouchDevice
    <3>5. rows' \in [Devices -> Row]
      BY <3>1, <3>2, <3>3
    <3>6. QED
      BY <3>1, <3>4, <3>5
  <2>2. CASE RevokeDevice(r)
    <3>1. req[r].target \in Devices
      BY <2>2 DEF RevokeDevice
    <3>2. Revoked(rows[req[r].target], req[r].at) \in Row
      BY <1>2, <3>1, RevokeUpdate
    <3>3. /\ spoiled' = spoiled
          /\ \/ /\ rows' = [rows EXCEPT ![req[r].target] = Revoked(rows[req[r].target], req[r].at)]
                /\ cut' = cut \cup {req[r].target}
             \/ UNCHANGED <<rows, cut>>
      BY <2>2 DEF RevokeDevice
    <3>4. QED
      BY <3>1, <3>2, <3>3
  <2>3. CASE TouchFails(r)
    BY <2>3 DEF TouchFails
  <2>4. CASE UNCHANGED <<rows, cut, spoiled>>
    BY <2>4
  <2>5. QED
    BY <2>1, <2>2, <2>3, <2>4 DEF Step, Authenticate, ReadClock, Throttle, BeginTouch, Serve,
       BeginRevoke, StoreError, history
<1>5. lastTouch' \in [Devices -> TimesOrZero] /\ touches' \in [Devices -> Nat]
  <2>1. CASE Throttle(r)
    BY <1>2, <2>1 DEF Throttle
  <2>2. CASE UNCHANGED <<lastTouch, touches>>
    BY <2>2
  <2>3. QED
    BY <2>1, <2>2 DEF Step, Authenticate, ReadClock, BeginTouch, TouchDevice, TouchFails, Serve,
       BeginRevoke, RevokeDevice, StoreError, history
<1>6. QED
  BY <1>1, <1>3, <1>4, <1>5 DEF process

LEMMA TypeStep == TypeOK /\ [Next]_vars => TypeOK'
<1> SUFFICES ASSUME TypeOK, [Next]_vars PROVE TypeOK'
  OBVIOUS
<1>1. ASSUME NEW r \in Requests, NEW d \in Devices \cup {NoDevice}, NEW t \in Devices \cup {NoDevice},
             NEW v \in VersionCodes \cup {0}, Arrive(r, d, t, v)
      PROVE  TypeOK'
  <2>1. PICK q \in Request : pc' = [pc EXCEPT ![r] = "lookup"] /\ req' = [req EXCEPT ![r] = q]
    BY <1>1, ArriveMoves
  <2>2. UNCHANGED <<clock, rows, lastTouch, process, history>>
    BY <1>1 DEF Arrive
  <2>3. QED
    BY <2>1, <2>2 DEF TypeOK, Steps, process, history
<1>2. ASSUME NEW r \in Requests, Step(r) PROVE TypeOK'
  BY <1>2, StepTyped
<1>3. ASSUME NEW d \in Devices, NEW v \in VersionCodes, InsertDevice(d, v) PROVE TypeOK'
  <2>1. [paired |-> TRUE, version |-> v, lastSeenAt |-> 0, revokedAt |-> 0] \in Row
    BY NewRow, AuthAssumption
  <2>2. QED
    BY <1>3, <2>1 DEF InsertDevice, TypeOK, process, history
<1>4. CASE Restart
  BY <1>4, NoRequestTyped, AuthAssumption DEF Restart, TypeOK, Steps, TimesOrZero
<1>5. CASE Tick
  BY <1>5, AuthAssumption DEF Tick, TypeOK, Times, process, history
<1>6. CASE UNCHANGED vars
  BY <1>6 DEF vars, TypeOK, process, history
<1>7. QED
  BY <1>1, <1>2, <1>3, <1>4, <1>5, <1>6 DEF Next

LEMMA TypeInit == Init => TypeOK
<1>1. NoRow \in Row
  BY NewRow, 0 \in Nat
<1>2. 0 \in TimesOrZero /\ 1 \in Times
  BY AuthAssumption DEF Times, TimesOrZero
<1>3. QED
  BY <1>1, <1>2, NoRequestTyped DEF Init, TypeOK, Steps

\* Every variable of Auth always has its type.
THEOREM TypeCorrect == Spec => []TypeOK
BY TypeInit, TypeStep, PTL DEF Spec

-----------------------------------------------------------------------------
(* The table only moves forward *)

\* A device without a row has nothing to lose, and no request that got past the lookup.
Blank(row) == row.version = 0 /\ row.revokedAt = 0
RowInv ==
  /\ TypeOK
  /\ \A d \in Devices : ~rows[d].paired => Blank(rows[d])
  /\ \A r \in Requests : pc[r] \notin {"idle", "lookup"} => rows[req[r].device].paired

Onward(old, new) ==
  /\ old.paired => new.paired
  /\ old.revokedAt # 0 => new.revokedAt = old.revokedAt
  /\ old.version # 0 => new.version # 0

\* Each row stays, moves onward without being paired by it, or is inserted.
LEMMA RowChanges ==
  ASSUME RowInv, [Next]_vars, NEW d \in Devices
  PROVE  /\ Onward(rows[d], rows'[d])
         /\ ~rows'[d].paired => Blank(rows'[d])
<1> USE DEF RowInv
<1>1. ASSUME NEW e \in Devices, NEW row \in Row, rows' = [rows EXCEPT ![e] = row],
             Onward(rows[e], row), row.paired
      PROVE  Onward(rows[d], rows'[d]) /\ (~rows'[d].paired => Blank(rows'[d]))
  BY <1>1 DEF Onward, TypeOK
<1>2. ASSUME rows' = rows
      PROVE  Onward(rows[d], rows'[d]) /\ (~rows'[d].paired => Blank(rows'[d]))
  BY <1>2 DEF Onward
<1>3. ASSUME NEW r \in Requests
      PROVE  req[r] \in Request /\ req[r].at \in TimesOrZero /\ req[r].version \in Nat
  <2>1. req[r] \in Request /\ (VersionCodes \cup {0}) \subseteq Nat
    BY AuthAssumption DEF TypeOK
  <2>2. QED
    BY <2>1 DEF Request
<1>4. ASSUME NEW r \in Requests, TouchDevice(r)
      PROVE  Onward(rows[d], rows'[d]) /\ (~rows'[d].paired => Blank(rows'[d]))
  <2> DEFINE e == req[r].device
             row == Touched(rows[e], req[r].at, req[r].version)
  <2>1. e \in Devices /\ rows[e] \in Row /\ rows[e].paired
    BY <1>4 DEF TouchDevice, TypeOK
  <2>2. row \in Row /\ row.paired /\ Onward(rows[e], row)
    BY <1>3, <2>1, TouchUpdate DEF Onward
  <2>3. rows' = [rows EXCEPT ![e] = row]
    BY <1>4 DEF TouchDevice
  <2> HIDE DEF e, row
  <2>4. QED
    BY <1>1, <2>1, <2>2, <2>3
<1>5. ASSUME NEW r \in Requests, RevokeDevice(r), rows' # rows
      PROVE  Onward(rows[d], rows'[d]) /\ (~rows'[d].paired => Blank(rows'[d]))
  <2> DEFINE e == req[r].target
             row == Revoked(rows[e], req[r].at)
  <2>1. e \in Devices /\ rows[e] \in Row /\ rows[e].paired
    BY <1>5 DEF RevokeDevice, TypeOK
  <2>2. row \in Row /\ row.paired /\ Onward(rows[e], row)
    BY <1>3, <2>1, RevokeUpdate DEF Onward
  <2>3. rows' = [rows EXCEPT ![e] = row]
    BY <1>5 DEF RevokeDevice
  <2> HIDE DEF e, row
  <2>4. QED
    BY <1>1, <2>1, <2>2, <2>3
<1>6. ASSUME NEW e \in Devices, NEW v \in VersionCodes, InsertDevice(e, v)
      PROVE  Onward(rows[d], rows'[d]) /\ (~rows'[d].paired => Blank(rows'[d]))
  <2>1. PICK row \in Row : row.paired /\ rows' = [rows EXCEPT ![e] = row]
    <3>1. v \in Nat
      BY AuthAssumption
    <3>2. [paired |-> TRUE, version |-> v, lastSeenAt |-> 0, revokedAt |-> 0] \in Row
      BY <3>1, NewRow
    <3>3. QED
      BY <1>6, <3>2 DEF InsertDevice
  <2>2. Onward(rows[e], row)
    BY <1>6, <2>1 DEF InsertDevice, Onward, Blank
  <2>3. QED
    BY <1>1, <2>1, <2>2
<1>7. CASE rows' # rows
  BY <1>4, <1>5, <1>6, <1>7 DEF Next, Step, Arrive, Authenticate, ReadClock, Throttle, BeginTouch,
     TouchFails, Serve, BeginRevoke, StoreError, Restart, Tick, vars
<1>8. QED
  BY <1>2, <1>7

LEMMA RowStep == RowInv /\ [Next]_vars => RowInv'
<1> SUFFICES ASSUME RowInv, [Next]_vars PROVE RowInv'
  OBVIOUS
<1>1. TypeOK /\ TypeOK'
  BY TypeStep DEF RowInv
<1>2. \A d \in Devices : ~rows'[d].paired => Blank(rows'[d])
  BY RowChanges
<1>3. \A d \in Devices : rows[d].paired => rows'[d].paired
  BY RowChanges DEF Onward
<1>4. ASSUME NEW r \in Requests, pc'[r] \notin {"idle", "lookup"}
      PROVE  /\ req'[r].device \in Devices
             /\ rows[req'[r].device].paired
  <2>1. req'[r].device \in Devices
    BY <1>1, <1>4 DEF TypeOK
  <2>2. CASE pc'[r] = pc[r] /\ req'[r] = req[r]
    BY <1>4, <2>1, <2>2 DEF RowInv
  <2>3. ASSUME NEW s \in Requests, Step(s) PROVE rows[req'[r].device].paired
    <3>1. PICK step \in Steps, q \in Request : MovedOn(s, step, q)
      BY <1>1, <2>3, StepMoves
    <3>2. CASE r = s
      <4>1. /\ pc'[r] = step /\ req'[r] = q
            /\ q.device = req[r].device
            /\ pc[r] = "lookup" => Live(q.device)
            /\ pc[r] # "idle"
        BY <1>1, <1>4, <3>1, <3>2 DEF MovedOn, TypeOK
      <4>2. QED
        BY <1>4, <2>1, <4>1 DEF RowInv, Live
    <3>3. CASE r # s
      <4>1. pc'[r] = pc[r] /\ req'[r] = req[r]
        BY <1>1, <3>1, <3>3 DEF MovedOn, TypeOK
      <4>2. QED
        BY <2>2, <4>1
    <3>4. QED
      BY <3>2, <3>3
  <2>4. ASSUME NEW s \in Requests, NEW d \in Devices \cup {NoDevice}, NEW t \in Devices \cup {NoDevice},
               NEW v \in VersionCodes \cup {0}, Arrive(s, d, t, v)
        PROVE  rows[req'[r].device].paired
    <3>1. PICK q \in Request : pc' = [pc EXCEPT ![s] = "lookup"] /\ req' = [req EXCEPT ![s] = q]
      BY <1>1, <2>4, ArriveMoves
    <3>2. r # s
      BY <1>1, <1>4, <3>1 DEF TypeOK
    <3>3. pc'[r] = pc[r] /\ req'[r] = req[r]
      BY <1>1, <3>1, <3>2 DEF TypeOK
    <3>4. QED
      BY <2>2, <3>3
  <2>5. CASE Restart
    BY <1>4, <2>5 DEF Restart
  <2>6. CASE UNCHANGED <<pc, req>>
    BY <2>2, <2>6
  <2>7. QED
    BY <2>1, <2>3, <2>4, <2>5, <2>6 DEF Next, InsertDevice, Tick, vars
<1>5. QED
  BY <1>1, <1>2, <1>3, <1>4 DEF RowInv

LEMMA RowInit == Init => RowInv
<1>1. Init => TypeOK
  BY TypeInit
<1>2. QED
  BY <1>1 DEF Init, RowInv, NoRow, Blank

LEMMA RowInvariant == Spec => []RowInv
BY RowInit, RowStep, PTL DEF Spec

\* No step of any request undoes a pairing, the first time of a revocation, or a known version.
THEOREM RowsOnlyProgress == Spec => RowsProgress
<1>1. RowInv /\ [Next]_vars =>
        [\A d \in Devices :
           /\ rows[d].paired => rows'[d].paired
           /\ rows[d].revokedAt # 0 => rows'[d].revokedAt = rows[d].revokedAt
           /\ rows[d].version # 0 => rows'[d].version # 0]_vars
  BY RowChanges DEF Onward
<1>2. QED
  BY <1>1, RowInvariant, PTL DEF Spec, RowsProgress

-----------------------------------------------------------------------------
(* Revocation *)

\* A revoked device stays so, because the store's clock is never 0 (NULL); a request that
\* arrived after the revocation is still of a revoked device when it is looked up.
RevocationInv ==
  /\ RowInv
  /\ \A d \in cut : rows[d].revokedAt # 0
  /\ \A r \in Requests : pc[r] = "revoke" => req[r].at # 0
  /\ \A r \in Requests : req[r].late => req[r].device \in cut
  /\ RevokedNotServed

\* Only a revocation adds to cut, and the row it leaves has a time.
LEMMA CutIsRecorded ==
  ASSUME RevocationInv, [Next]_vars, NEW d \in cut'
  PROVE  rows'[d].revokedAt # 0
<1> USE DEF RevocationInv, RowInv
<1>1. d \in Devices
  BY TypeStep DEF TypeOK
<1>2. CASE d \in cut
  BY <1>1, <1>2, RowChanges DEF Onward
<1>3. CASE d \notin cut
  <2>1. PICK r \in Requests : RevokeDevice(r)
    BY <1>3 DEF Next, Step, Arrive, Authenticate, ReadClock, Throttle, BeginTouch, TouchDevice,
       TouchFails, Serve, BeginRevoke, StoreError, InsertDevice, Restart, Tick, vars, history
  <2>2. /\ d = req[r].target /\ pc[r] = "revoke"
        /\ rows' = [rows EXCEPT ![d] = Revoked(rows[d], req[r].at)]
    BY <1>3, <2>1 DEF RevokeDevice
  <2>3. req[r].at # 0 /\ req[r].at \in TimesOrZero
    BY <2>2 DEF TypeOK, Request
  <2>4. Revoked(rows[d], req[r].at).revokedAt # 0
    BY <1>1, <2>3, RevokeUpdate DEF TypeOK
  <2>5. rows'[d] = Revoked(rows[d], req[r].at)
    BY <1>1, <2>2 DEF TypeOK
  <2>6. QED
    BY <2>4, <2>5
<1>4. QED
  BY <1>2, <1>3

LEMMA CutGrows == ASSUME [Next]_vars PROVE cut \subseteq cut'
BY DEF Next, Step, Arrive, Authenticate, ReadClock, Throttle, BeginTouch, TouchDevice,
   TouchFails, Serve, BeginRevoke, RevokeDevice, StoreError, InsertDevice, Restart, Tick, vars, history

\* What may be said of one request.
Orderly(r) ==
  /\ pc[r] = "revoke" => req[r].at # 0
  /\ req[r].late => req[r].device \in cut
  /\ pc[r] \notin {"idle", "lookup"} => ~req[r].late

LEMMA StaysOrderly ==
  ASSUME RevocationInv, [Next]_vars, NEW r \in Requests
  PROVE  Orderly(r)'
<1> USE DEF RevocationInv, RowInv
<1>1. TypeOK /\ cut \subseteq cut' /\ clock # 0
  BY CutGrows DEF TypeOK, Times
<1>2. ASSUME pc'[r] = pc[r], req'[r] = req[r] PROVE Orderly(r)'
  BY <1>1, <1>2 DEF Orderly, RevokedNotServed
<1>3. ASSUME NEW s \in Requests, Step(s) PROVE Orderly(r)'
  <2>1. PICK step \in Steps, q \in Request : MovedOn(s, step, q)
    BY <1>1, <1>3, StepMoves
  <2>2. CASE r # s
    <3>1. pc'[r] = pc[r] /\ req'[r] = req[r]
      BY <1>1, <2>1, <2>2 DEF MovedOn, TypeOK
    <3>2. QED
      BY <1>2, <3>1
  <2>3. CASE r = s
    <3>1. pc'[r] = step /\ req'[r] = q /\ pc[r] # "idle"
      BY <1>1, <2>1, <2>3 DEF MovedOn, TypeOK
    <3>2. CASE step = "idle" /\ q = NoRequest
      BY <3>1, <3>2, NoRequestTyped DEF Orderly
    <3>3. CASE step \notin {"idle", "lookup"}
      <4>1. /\ q.late = req[r].late /\ q.device = req[r].device
            /\ pc[r] = "lookup" => Live(q.device)
            /\ step = "revoke" => q.at = clock
        BY <2>1, <2>3, <3>3 DEF MovedOn
      <4>2. ~req[r].late
        <5>1. CASE pc[r] = "lookup"
          BY <4>1, <5>1 DEF Live
        <5>2. CASE pc[r] # "lookup"
          BY <3>1, <5>2 DEF RevokedNotServed
        <5>3. QED
          BY <5>1, <5>2
      <4>3. QED
        BY <1>1, <3>1, <4>1, <4>2 DEF Orderly
    <3>4. QED
      BY <2>1, <3>2, <3>3 DEF MovedOn
  <2>4. QED
    BY <2>2, <2>3
<1>4. ASSUME NEW s \in Requests, NEW d \in Devices \cup {NoDevice}, NEW t \in Devices \cup {NoDevice},
             NEW v \in VersionCodes \cup {0}, Arrive(s, d, t, v)
      PROVE  Orderly(r)'
  <2>1. PICK q \in Request :
          /\ pc' = [pc EXCEPT ![s] = "lookup"] /\ req' = [req EXCEPT ![s] = q]
          /\ q.device = d /\ (q.late <=> d \in cut)
    BY <1>1, <1>4, ArriveMoves
  <2>2. CASE r # s
    <3>1. pc'[r] = pc[r] /\ req'[r] = req[r]
      BY <1>1, <2>1, <2>2 DEF TypeOK
    <3>2. QED
      BY <1>2, <3>1
  <2>3. CASE r = s
    <3>1. pc'[r] = "lookup" /\ req'[r] = q
      BY <1>1, <2>1, <2>3 DEF TypeOK
    <3>2. QED
      BY <1>1, <2>1, <3>1 DEF Orderly
  <2>4. QED
    BY <2>2, <2>3
<1>5. CASE Restart
  <2>1. pc'[r] = "idle" /\ req'[r] = NoRequest
    BY <1>5 DEF Restart
  <2>2. QED
    BY <2>1, NoRequestTyped DEF Orderly
<1>6. CASE UNCHANGED <<pc, req>>
  BY <1>2, <1>6
<1>7. QED
  BY <1>3, <1>4, <1>5, <1>6 DEF Next, InsertDevice, Tick, vars

LEMMA RevocationStep == RevocationInv /\ [Next]_vars => RevocationInv'
<1> SUFFICES ASSUME RevocationInv, [Next]_vars PROVE RevocationInv'
  OBVIOUS
<1>1. RowInv'
  BY RowStep DEF RevocationInv
<1>2. \A d \in cut' : rows'[d].revokedAt # 0
  BY CutIsRecorded
<1>3. \A r \in Requests : Orderly(r)'
  BY StaysOrderly
<1>4. QED
  BY <1>1, <1>2, <1>3 DEF RevocationInv, RevokedNotServed, Orderly

LEMMA RevocationInit == Init => RevocationInv
<1>1. Init => RowInv
  BY RowInit
<1>2. QED
  BY <1>1, NoRequestTyped DEF Init, RevocationInv, RevokedNotServed

\* Revocation is effective on the next request: none that arrived after its device was
\* revoked gets past Require, for any number of concurrent requests, touches and restarts.
THEOREM RevokedAreNotServed == Spec => []RevokedNotServed
<1>1. RevocationInv => RevokedNotServed
  BY DEF RevocationInv
<1>2. QED
  BY <1>1, RevocationInit, RevocationStep, PTL DEF Spec

-----------------------------------------------------------------------------
(* The throttle *)

\* Each touch but the first came a whole interval after the one before it, which the mark
\* remembers: the mark is that of the last touch due, and no reading is of the future.
ThrottleInv ==
  /\ TypeOK
  /\ startedAt <= clock
  /\ \A d \in Devices :
       /\ lastTouch[d] <= clock
       /\ touches[d] > 0 => /\ lastTouch[d] # 0
                            /\ (touches[d] - 1) * TouchEvery <= lastTouch[d] - startedAt
  /\ \A r \in Requests : pc[r] = "throttle" => req[r].now \in startedAt..clock

LEMMA OneMore ==
  ASSUME NEW n \in Nat, NEW e \in Nat
  PROVE  n # 0 => n * e = (n - 1) * e + e
OBVIOUS

\* A request is at the throttle because it just read the clock, or was there before.
LEMMA ToThrottle ==
  ASSUME TypeOK, [Next]_vars, NEW r \in Requests, pc'[r] = "throttle"
  PROVE  ReadClock(r) \/ (pc'[r] = pc[r] /\ req'[r] = req[r] /\ ~Restart)
<1>1. ASSUME NEW s \in Requests, Step(s), ~ReadClock(s)
      PROVE  pc'[r] = pc[r] /\ req'[r] = req[r] /\ ~Restart
  <2>1. PICK step \in Steps, q \in Request : MovedOn(s, step, q)
    BY <1>1, StepMoves
  <2>2. pc'[s] # "throttle"
    BY <1>1 DEF Step, Authenticate, Throttle, BeginTouch, TouchDevice, TouchFails, Serve,
       BeginRevoke, RevokeDevice, StoreError, Answer, Handle, Goto, TypeOK
  <2>3. r # s
    BY <2>2
  <2>4. QED
    BY <2>1, <2>3 DEF MovedOn, TypeOK, Restart
<1>2. ASSUME NEW s \in Requests, ReadClock(s), r # s
      PROVE  pc'[r] = pc[r] /\ req'[r] = req[r] /\ ~Restart
  BY <1>2 DEF ReadClock, Goto, TypeOK, Restart
<1>3. ASSUME NEW s \in Requests, NEW d \in Devices \cup {NoDevice}, NEW t \in Devices \cup {NoDevice},
             NEW v \in VersionCodes \cup {0}, Arrive(s, d, t, v)
      PROVE  pc'[r] = pc[r] /\ req'[r] = req[r] /\ ~Restart
  <2>1. PICK q \in Request : pc' = [pc EXCEPT ![s] = "lookup"] /\ req' = [req EXCEPT ![s] = q]
    BY <1>3, ArriveMoves
  <2>2. QED
    BY <2>1 DEF TypeOK, Restart
<1>4. CASE Restart
  BY <1>4 DEF Restart
<1>5. CASE UNCHANGED <<pc, req>>
  BY <1>5 DEF Restart
<1>6. QED
  BY <1>1, <1>2, <1>3, <1>4, <1>5 DEF Next, Step, InsertDevice, Tick, vars

LEMMA ThrottleStep == ThrottleInv /\ [Next]_vars => ThrottleInv'
<1> SUFFICES ASSUME ThrottleInv, [Next]_vars PROVE ThrottleInv'
  OBVIOUS
<1>1. TypeOK /\ TypeOK'
  BY TypeStep DEF ThrottleInv
<1>2. /\ clock \in Nat /\ clock' \in Nat /\ clock # 0 /\ startedAt \in Nat /\ startedAt # 0
      /\ TouchEvery \in Nat
  BY <1>1, AuthAssumption DEF TypeOK, Times
<1>3. /\ clock <= clock' /\ startedAt' <= clock'
      /\ ~Restart => startedAt' = startedAt
  BY <1>2 DEF ThrottleInv, Next, Step, Arrive, Authenticate, ReadClock, Throttle, BeginTouch,
     TouchDevice, TouchFails, Serve, BeginRevoke, RevokeDevice, StoreError, InsertDevice, Restart,
     Tick, vars, process
<1>4. ASSUME NEW d \in Devices
      PROVE  /\ lastTouch'[d] <= clock'
             /\ touches'[d] > 0 => /\ lastTouch'[d] # 0
                                   /\ (touches'[d] - 1) * TouchEvery <= lastTouch'[d] - startedAt'
  <2>1. lastTouch[d] \in Nat /\ touches[d] \in Nat
    BY <1>1 DEF TypeOK, TimesOrZero
  <2>2. CASE /\ lastTouch'[d] = lastTouch[d] /\ touches'[d] = touches[d]
             /\ startedAt' = startedAt
    BY <1>2, <1>3, <2>1, <2>2 DEF ThrottleInv
  <2>3. ASSUME NEW r \in Requests, Throttle(r), Due(d, req[r].now), req[r].device = d
        PROVE  /\ lastTouch'[d] <= clock'
               /\ touches'[d] > 0 => /\ lastTouch'[d] # 0
                                     /\ (touches'[d] - 1) * TouchEvery <= lastTouch'[d] - startedAt'
    <3> DEFINE now == req[r].now
    <3>1. now \in Nat /\ startedAt <= now /\ now <= clock
      BY <1>2, <2>3 DEF Throttle, ThrottleInv
    <3>2. /\ lastTouch'[d] = now /\ touches'[d] = touches[d] + 1
          /\ startedAt' = startedAt /\ clock' = clock
      BY <1>1, <2>3 DEF Throttle, TypeOK, process
    <3>3. lastTouch[d] = 0 \/ now - lastTouch[d] >= TouchEvery
      BY <2>3 DEF Due
    <3>4. touches[d] * TouchEvery <= now - startedAt
      <4>1. CASE touches[d] = 0
        BY <1>2, <3>1, <4>1
      <4>2. CASE touches[d] # 0
        <5> DEFINE before == (touches[d] - 1) * TouchEvery
        <5>1. lastTouch[d] # 0 /\ before <= lastTouch[d] - startedAt
          BY <2>1, <4>2 DEF ThrottleInv
        <5>2. before \in Int
          BY <1>2, <2>1
        <5>3. touches[d] * TouchEvery = before + TouchEvery
          BY <1>2, <2>1, <4>2, OneMore
        <5> HIDE DEF before
        <5>4. QED
          BY <1>2, <2>1, <3>1, <3>3, <5>1, <5>2, <5>3
      <4>3. QED
        BY <4>1, <4>2
    <3>5. touches'[d] - 1 = touches[d]
      BY <2>1, <3>2
    <3>6. QED
      BY <1>2, <3>1, <3>2, <3>4, <3>5
  <2>4. CASE Restart
    BY <1>1, <1>2, <2>4 DEF Restart
  <2>5. ASSUME NEW r \in Requests, Throttle(r)
        PROVE  \/ Due(d, req[r].now) /\ req[r].device = d
               \/ lastTouch'[d] = lastTouch[d] /\ touches'[d] = touches[d] /\ startedAt' = startedAt
    BY <1>1, <2>5 DEF Throttle, TypeOK, process
  <2>6. QED
    BY <2>2, <2>3, <2>4, <2>5 DEF Next, Step, Arrive, Authenticate, ReadClock, BeginTouch,
       TouchDevice, TouchFails, Serve, BeginRevoke, RevokeDevice, StoreError, InsertDevice, Tick,
       vars, process, history
<1>5. ASSUME NEW r \in Requests, pc'[r] = "throttle"
      PROVE  req'[r].now \in startedAt'..clock'
  <2>1. CASE ReadClock(r)
    <3> DEFINE q == [req[r] EXCEPT !.now = clock]
    <3>1. q.now = clock
      <4>1. req[r] \in Request /\ clock \in TimesOrZero
        BY <1>1 DEF TypeOK, Times, TimesOrZero
      <4>2. QED
        BY <4>1, RequestUpdates
    <3>2. req'[r] = q /\ startedAt' = startedAt /\ clock' = clock
      BY <1>1, <2>1 DEF ReadClock, TypeOK, process
    <3> HIDE DEF q
    <3>3. QED
      BY <1>2, <1>3, <3>1, <3>2
  <2>2. CASE pc'[r] = pc[r] /\ req'[r] = req[r] /\ ~Restart
    BY <1>2, <1>3, <1>5, <2>2 DEF ThrottleInv
  <2>3. QED
    BY <1>1, <1>5, <2>1, <2>2, ToThrottle
<1>6. QED
  BY <1>1, <1>3, <1>4, <1>5 DEF ThrottleInv

LEMMA ThrottleInit == Init => ThrottleInv
<1>1. Init => TypeOK
  BY TypeInit
<1>2. QED
  BY <1>1 DEF Init, ThrottleInv

\* Touches are throttled: since the process started, a device has at most one touch due to
\* begin with and one per whole interval, however many requests race for it.
THEOREM TouchesAreThrottled == Spec => []TouchesThrottled
<1>1. ThrottleInv => TouchesThrottled
  <2> SUFFICES ASSUME ThrottleInv, NEW d \in Devices, touches[d] > 0
               PROVE  (touches[d] - 1) * TouchEvery <= clock - startedAt
    BY DEF TouchesThrottled
  <2> DEFINE before == (touches[d] - 1) * TouchEvery
  <2>1. /\ before \in Int /\ before <= lastTouch[d] - startedAt /\ lastTouch[d] <= clock
        /\ lastTouch[d] \in Nat /\ startedAt \in Nat /\ clock \in Nat
    BY AuthAssumption DEF ThrottleInv, TypeOK, Times, TimesOrZero
  <2> HIDE DEF before
  <2>2. before <= clock - startedAt
    BY <2>1
  <2>3. QED
    BY <2>2 DEF before
<1>2. QED
  BY <1>1, ThrottleInit, ThrottleStep, PTL DEF Spec

-----------------------------------------------------------------------------
(* last_seen_at *)

Writing == {"touching", "update"}
Throttled == Writing \cup Handling

\* A request that is past the throttle found the mark less than an interval behind it, or
\* set it; the mark of a device is in its row, or on its way there.
SeenInv ==
  /\ \A d \in Devices : lastTouch[d] # 0 => rows[d].paired
  /\ \A r \in Requests : pc[r] \in Throttled =>
       lastTouch[req[r].device] # 0 /\ req[r].now - lastTouch[req[r].device] < TouchEvery
  /\ \A r \in Requests : pc[r] \in {"throttle", "touching"} => req[r].now \in 1..clock
  /\ \A r \in Requests : pc[r] = "update" => req[r].now <= req[r].at
  /\ \A d \in Devices \ spoiled : lastTouch[d] # 0 =>
       \/ rows[d].lastSeenAt >= lastTouch[d]
       \/ \E r \in Requests : pc[r] \in Writing /\ req[r].device = d /\ req[r].now = lastTouch[d]

\* A request that keeps its place keeps its device and readings; it comes to no place
\* behind the throttle but from one.
Keeps(r) ==
  /\ pc'[r] \in Throttled \cup {"throttle"} =>
       /\ req'[r].device = req[r].device /\ req'[r].now = req[r].now
       /\ pc'[r] = pc[r] \/ (pc[r] = "handler" /\ pc'[r] = "revoke")
       /\ pc'[r] = "update" => req'[r].at = req[r].at
  /\ pc[r] \in Writing => pc'[r] = pc[r]

\* A step that neither marks, nor writes, nor loses a touch.
LEMMA QuietStep ==
  ASSUME TypeOK, TypeOK', SeenInv, clock <= clock', UNCHANGED <<lastTouch, spoiled>>,
         \A d \in Devices : rows[d].paired => rows'[d].paired /\ rows'[d].lastSeenAt = rows[d].lastSeenAt,
         \A r \in Requests : Keeps(r)
  PROVE  SeenInv'
<1>1. \A r \in Requests : pc'[r] \notin {"idle", "lookup"} => req'[r].device \in Devices
  BY DEF TypeOK
<1>2. \A d \in Devices : lastTouch'[d] # 0 => rows'[d].paired
  BY DEF SeenInv
<1>3. \A r \in Requests : pc'[r] \in Throttled =>
        lastTouch'[req'[r].device] # 0 /\ req'[r].now - lastTouch'[req'[r].device] < TouchEvery
  BY DEF SeenInv, Keeps, Throttled, Writing, Handling
<1>4. \A r \in Requests : pc'[r] \in {"throttle", "touching"} => req'[r].now \in 1..clock'
  <2>1. ASSUME NEW r \in Requests, pc'[r] \in {"throttle", "touching"} PROVE req'[r].now \in 1..clock'
    <3>1. req'[r].now = req[r].now /\ req[r].now \in 1..clock
      BY <2>1 DEF SeenInv, Keeps, Throttled, Writing
    <3>2. req'[r].now \in Int /\ clock \in Int /\ clock' \in Int
      BY DEF TypeOK, Request, Times, TimesOrZero
    <3>3. QED
      BY <3>1, <3>2
  <2>2. QED
    BY <2>1
<1>5. \A r \in Requests : pc'[r] = "update" => req'[r].now <= req'[r].at
  BY DEF SeenInv, Keeps, Throttled, Writing
<1>6. ASSUME NEW d \in Devices \ spoiled', lastTouch'[d] # 0
      PROVE  \/ rows'[d].lastSeenAt >= lastTouch'[d]
             \/ \E r \in Requests : pc'[r] \in Writing /\ req'[r].device = d /\ req'[r].now = lastTouch'[d]
  <2>1. CASE rows[d].lastSeenAt >= lastTouch[d]
    BY <1>6, <2>1 DEF SeenInv
  <2>2. ASSUME NEW r \in Requests, pc[r] \in Writing, req[r].device = d, req[r].now = lastTouch[d]
        PROVE  pc'[r] \in Writing /\ req'[r].device = d /\ req'[r].now = lastTouch'[d]
    BY <2>2 DEF Keeps, Throttled
  <2>3. QED
    BY <1>6, <2>1, <2>2 DEF SeenInv
<1>7. QED
  BY <1>2, <1>3, <1>4, <1>5, <1>6 DEF SeenInv

\* What Handle leaves of a request.
LEMMA HandleEffect ==
  ASSUME TypeOK, NEW r \in Requests, Handle(r)
  PROVE  /\ pc' = [pc EXCEPT ![r] = "handler"]
         /\ req'[r].device = req[r].device /\ req'[r].now = req[r].now
         /\ \A s \in Requests \ {r} : pc'[s] = pc[s] /\ req'[s] = req[s]
<1>1. req[r] \in Request /\ 0 \in TimesOrZero
  BY AuthAssumption DEF TypeOK, TimesOrZero
<1>2. req'[r] = [req[r] EXCEPT !.at = 0, !.version = 0]
  BY DEF Handle, TypeOK
<1>3. QED
  BY <1>1, <1>2, RequestUpdates DEF Handle, Goto, TypeOK

LEMMA TouchSeen ==
  ASSUME NEW row \in Row, NEW at \in TimesOrZero, NEW version \in Nat
  PROVE  Touched(row, at, version).lastSeenAt = at
BY DEF Touched, Row

LEMMA RevokeSeen ==
  ASSUME NEW row \in Row, NEW at \in TimesOrZero
  PROVE  Revoked(row, at).lastSeenAt = row.lastSeenAt
BY DEF Revoked, Row

\* The steps that are quiet.
LEMMA QuietSteps ==
  ASSUME RowInv, TypeOK', SeenInv, NEW r \in Requests,
         \/ Authenticate(r) \/ Serve(r) \/ BeginRevoke(r) \/ RevokeDevice(r) \/ StoreError(r)
  PROVE  SeenInv'
<1> USE DEF process, history
<1>1. TypeOK
  BY DEF RowInv
<1>2. clock' = clock /\ clock \in Int /\ UNCHANGED <<lastTouch, spoiled>>
  BY <1>1 DEF Authenticate, Serve, BeginRevoke, RevokeDevice, StoreError, TypeOK, Times
<1>3. ASSUME NEW d \in Devices, rows[d].paired
      PROVE  rows'[d].paired /\ rows'[d].lastSeenAt = rows[d].lastSeenAt
  <2>1. CASE RevokeDevice(r)
    <3>1. rows[d] \in Row /\ req[r].at \in TimesOrZero
      BY <1>1 DEF TypeOK, Request
    <3>2. rows'[d] \in {rows[d], Revoked(rows[d], req[r].at)}
      BY <1>1, <2>1 DEF RevokeDevice, TypeOK
    <3>3. QED
      BY <1>3, <3>1, <3>2, RevokeUpdate, RevokeSeen
  <2>2. CASE ~RevokeDevice(r)
    BY <1>3, <2>2 DEF Authenticate, Serve, BeginRevoke, StoreError
  <2>3. QED
    BY <2>1, <2>2
<1>4. ASSUME NEW s \in Requests PROVE Keeps(s)
  <2>1. CASE BeginRevoke(r) /\ s = r
    <3>1. req[r] \in Request /\ clock \in TimesOrZero
      BY <1>1 DEF TypeOK, Times, TimesOrZero
    <3>2. req'[r] = [req[r] EXCEPT !.at = clock] /\ pc[r] = "handler" /\ pc'[r] = "revoke"
      BY <1>1, <2>1 DEF BeginRevoke, Goto, TypeOK
    <3>3. req'[r].device = req[r].device /\ req'[r].now = req[r].now
      BY <3>1, <3>2 DEF Request
    <3>4. QED
      BY <2>1, <3>2, <3>3 DEF Keeps, Writing, Throttled, Handling
  <2>2. CASE ~BeginRevoke(r) /\ s = r
    BY <1>1, <2>2 DEF Keeps, Writing, Throttled, Handling, Authenticate, Serve, RevokeDevice,
       StoreError, Answer, Goto, TypeOK
  <2>3. CASE s # r
    BY <1>1, <2>3 DEF Keeps, Authenticate, Serve, BeginRevoke, RevokeDevice, StoreError,
       Answer, Goto, TypeOK
  <2>4. QED
    BY <2>1, <2>2, <2>3
<1>5. QED
  BY <1>1, <1>2, <1>3, <1>4, QuietStep

\* The mark moves forward by an interval, and the request that moved it is about to write.
LEMMA ThrottleSeen ==
  ASSUME RowInv, TypeOK', SeenInv, NEW r \in Requests, Throttle(r)
  PROVE  SeenInv'
<1> DEFINE d == req[r].device
           now == req[r].now
<1> USE DEF process, history
<1>1. /\ TypeOK /\ pc[r] = "throttle" /\ d \in Devices /\ now \in 1..clock
      /\ now \in Nat /\ clock \in Nat /\ rows[d].paired
      /\ \A e \in Devices : lastTouch[e] \in Nat
      /\ \A s \in Requests : req[s].now \in Nat
      /\ TouchEvery \in Nat \ {0}
  BY AuthAssumption DEF RowInv, SeenInv, Throttle, TypeOK, Request, Times, TimesOrZero
<1>2. UNCHANGED <<clock, rows, spoiled>>
  BY DEF Throttle
<1>3. CASE ~Due(d, now)
  <2>1. Handle(r) /\ UNCHANGED lastTouch
    BY <1>3 DEF Throttle
  <2>2. /\ pc'[r] = "handler" /\ req'[r].device = d /\ req'[r].now = now
        /\ \A s \in Requests \ {r} : pc'[s] = pc[s] /\ req'[s] = req[s]
    BY <1>1, <2>1, HandleEffect DEF TypeOK
  <2>3. lastTouch[d] # 0 /\ now - lastTouch[d] < TouchEvery
    BY <1>1, <1>3 DEF Due
  <2>4. /\ \A s \in Requests : pc'[s] \in Throttled =>
             lastTouch[req'[s].device] # 0 /\ req'[s].now - lastTouch[req'[s].device] < TouchEvery
        /\ \A s \in Requests : pc'[s] \in {"throttle", "touching"} => req'[s].now \in 1..clock
        /\ \A s \in Requests : pc'[s] = "update" => req'[s].now <= req'[s].at
    BY <2>2, <2>3 DEF SeenInv
  <2>5. \A s \in Requests : pc[s] \in Writing => pc'[s] \in Writing /\ req'[s] = req[s]
    BY <1>1, <2>2 DEF Writing
  <2>6. QED
    BY <1>2, <2>1, <2>4, <2>5 DEF SeenInv
<1>4. CASE Due(d, now)
  <2>1. /\ pc' = [pc EXCEPT ![r] = "touching"] /\ UNCHANGED req
        /\ lastTouch' = [lastTouch EXCEPT ![d] = now]
    BY <1>4 DEF Throttle, Goto
  <2>2. /\ lastTouch'[d] = now /\ \A e \in Devices \ {d} : lastTouch'[e] = lastTouch[e]
        /\ pc'[r] = "touching" /\ \A s \in Requests \ {r} : pc'[s] = pc[s]
    BY <1>1, <2>1 DEF TypeOK
  <2>3. now # 0 /\ (lastTouch[d] # 0 => now >= lastTouch[d])
    <3>1. lastTouch[d] = 0 \/ now - lastTouch[d] >= TouchEvery
      BY <1>4 DEF Due
    <3>2. QED
      BY <1>1, <3>1
  <2>4. ASSUME NEW s \in Requests, pc'[s] \in Throttled
        PROVE  lastTouch'[req[s].device] # 0 /\ req[s].now - lastTouch'[req[s].device] < TouchEvery
    <3>1. CASE s = r
      BY <1>1, <2>2, <2>3, <3>1
    <3>2. CASE s # r
      <4>1. /\ pc[s] \in Throttled /\ lastTouch[req[s].device] # 0
            /\ req[s].now - lastTouch[req[s].device] < TouchEvery /\ req[s].device \in Devices
        BY <1>1, <2>2, <2>4, <3>2 DEF SeenInv, TypeOK, Throttled, Writing, Handling
      <4>2. CASE req[s].device = d
        BY <1>1, <2>2, <2>3, <4>1, <4>2
      <4>3. CASE req[s].device # d
        BY <2>2, <4>1, <4>3
      <4>4. QED
        BY <4>2, <4>3
    <3>3. QED
      BY <3>1, <3>2
  <2>5. \A e \in Devices : lastTouch'[e] # 0 => rows[e].paired
    BY <1>1, <2>2 DEF SeenInv
  <2>6. \A s \in Requests : pc'[s] \in {"throttle", "touching"} => req[s].now \in 1..clock
    BY <1>1, <2>2 DEF SeenInv
  <2>7. \A s \in Requests : pc'[s] = "update" => req[s].now <= req[s].at
    BY <2>2 DEF SeenInv
  <2>8. ASSUME NEW e \in Devices \ spoiled, lastTouch'[e] # 0
        PROVE  \/ rows[e].lastSeenAt >= lastTouch'[e]
               \/ \E s \in Requests : pc'[s] \in Writing /\ req[s].device = e /\ req[s].now = lastTouch'[e]
    <3>1. CASE e = d
      BY <2>2, <3>1 DEF Writing
    <3>2. CASE e # d
      <4>1. \A s \in Requests : pc[s] \in Writing => pc'[s] \in Writing
        BY <1>1, <2>2 DEF Writing
      <4>2. QED
        BY <2>2, <2>8, <3>2, <4>1 DEF SeenInv
    <3>3. QED
      BY <3>1, <3>2
  <2>9. QED
    BY <1>2, <2>1, <2>4, <2>5, <2>6, <2>7, <2>8 DEF SeenInv
<1>5. QED
  BY <1>3, <1>4

\* A reading of the clock.
LEMMA ReadSeen ==
  ASSUME RowInv, TypeOK', SeenInv, NEW r \in Requests, ReadClock(r)
  PROVE  SeenInv'
<1> USE DEF process, history
<1>1. TypeOK /\ clock \in Nat \ {0} /\ req[r] \in Request
  BY AuthAssumption DEF RowInv, TypeOK, Times
<1>2. /\ pc[r] = "clock" /\ pc' = [pc EXCEPT ![r] = "throttle"]
      /\ req' = [req EXCEPT ![r] = [req[r] EXCEPT !.now = clock]]
      /\ UNCHANGED <<clock, rows, lastTouch, spoiled>>
  BY DEF ReadClock, Goto
<1>3. pc'[r] = "throttle" /\ req'[r].now = clock
  BY <1>1, <1>2 DEF TypeOK, Request
<1>4. \A s \in Requests \ {r} : pc'[s] = pc[s] /\ req'[s] = req[s]
  BY <1>1, <1>2 DEF TypeOK
<1>5. \A s \in Requests : pc[s] \in Writing => s # r
  BY <1>2 DEF Writing
<1>6. \A s \in Requests : pc'[s] \in Throttled => s # r
  BY <1>3 DEF Throttled, Writing, Handling
<1>7. clock \in 1..clock
  BY <1>1
<1>8. /\ \A s \in Requests : pc'[s] \in {"throttle", "touching"} => req'[s].now \in 1..clock
      /\ \A s \in Requests : pc'[s] = "update" => req'[s].now <= req'[s].at
  BY <1>3, <1>4, <1>7 DEF SeenInv
<1>9. \A s \in Requests : pc'[s] \in Throttled =>
        lastTouch[req'[s].device] # 0 /\ req'[s].now - lastTouch[req'[s].device] < TouchEvery
  BY <1>4, <1>6 DEF SeenInv
<1>10. QED
  BY <1>2, <1>4, <1>5, <1>8, <1>9 DEF SeenInv

\* The store's clock is read after the throttle's.
LEMMA BeginSeen ==
  ASSUME RowInv, TypeOK', SeenInv, NEW r \in Requests, BeginTouch(r)
  PROVE  SeenInv'
<1> USE DEF process, history
<1>1. TypeOK /\ req[r] \in Request /\ clock \in TimesOrZero
  BY DEF RowInv, TypeOK, Times, TimesOrZero
<1>2. /\ pc[r] = "touching" /\ pc' = [pc EXCEPT ![r] = "update"]
      /\ req' = [req EXCEPT ![r] = [req[r] EXCEPT !.at = clock]]
      /\ UNCHANGED <<clock, rows, lastTouch, spoiled>>
  BY DEF BeginTouch, Goto
<1>3. /\ pc'[r] = "update" /\ req'[r].at = clock
      /\ req'[r].device = req[r].device /\ req'[r].now = req[r].now
  BY <1>1, <1>2 DEF TypeOK, Request
<1>4. \A s \in Requests \ {r} : pc'[s] = pc[s] /\ req'[s] = req[s]
  BY <1>1, <1>2 DEF TypeOK
<1>5. req[r].now <= clock
  BY <1>1, <1>2 DEF SeenInv
<1>6. /\ \A s \in Requests : pc'[s] \in Throttled =>
           lastTouch[req'[s].device] # 0 /\ req'[s].now - lastTouch[req'[s].device] < TouchEvery
      /\ \A s \in Requests : pc'[s] \in {"throttle", "touching"} => req'[s].now \in 1..clock
      /\ \A s \in Requests : pc'[s] = "update" => req'[s].now <= req'[s].at
  BY <1>2, <1>3, <1>4, <1>5 DEF SeenInv, Throttled, Writing
<1>7. \A s \in Requests : pc[s] \in Writing =>
        pc'[s] \in Writing /\ req'[s].device = req[s].device /\ req'[s].now = req[s].now
  BY <1>2, <1>3, <1>4 DEF Writing
<1>8. QED
  BY <1>2, <1>6, <1>7 DEF SeenInv

\* The write of a touch brings its own mark; one that it overtakes spoils the device, as
\* does one that fails.
LEMMA WriteSeen ==
  ASSUME RowInv, TypeOK', SeenInv, NEW r \in Requests, TouchDevice(r) \/ TouchFails(r)
  PROVE  SeenInv'
<1> DEFINE d == req[r].device
           at == req[r].at
<1> USE DEF process, history
<1>1. /\ TypeOK /\ pc[r] = "update" /\ d \in Devices /\ rows[d] \in Row /\ at \in TimesOrZero
      /\ req[r].version \in Nat /\ rows[d].paired
  <2>1. pc[r] = "update"
    BY DEF TouchDevice, TouchFails
  <2>2. TypeOK /\ req[r] \in Request
    BY DEF RowInv, TypeOK
  <2>3. d \in Devices /\ rows[d].paired
    BY <2>1 DEF RowInv, TypeOK
  <2>4. rows[d] \in Row
    BY <2>2, <2>3 DEF TypeOK
  <2>5. at \in TimesOrZero /\ req[r].version \in Nat
    <3>1. at \in TimesOrZero /\ req[r].version \in VersionCodes \cup {0}
      BY <2>2 DEF Request
    <3>2. CASE req[r].version \in VersionCodes
      BY <3>1, <3>2, AuthAssumption
    <3>3. CASE req[r].version = 0
      BY <3>1, <3>3
    <3>4. QED
      BY <3>1, <3>2, <3>3
  <2>6. QED
    BY <2>1, <2>2, <2>3, <2>4, <2>5
<1>2. Handle(r) /\ UNCHANGED <<clock, lastTouch>>
  BY DEF TouchDevice, TouchFails
<1>3. /\ pc'[r] = "handler" /\ req'[r].device = d /\ req'[r].now = req[r].now
      /\ \A s \in Requests \ {r} : pc'[s] = pc[s] /\ req'[s] = req[s]
  BY <1>1, <1>2, HandleEffect DEF TypeOK
<1>4. /\ \A e \in Devices \ {d} : rows'[e] = rows[e]
      /\ rows'[d].paired
      /\ spoiled \subseteq spoiled'
      /\ d \notin spoiled' => rows'[d].lastSeenAt = at /\ ~(at < rows[d].lastSeenAt)
  <2>1. CASE TouchDevice(r)
    <3>1. rows' = [rows EXCEPT ![d] = Touched(rows[d], at, req[r].version)]
      BY <2>1 DEF TouchDevice
    <3>2. rows'[d] = Touched(rows[d], at, req[r].version) /\ \A e \in Devices \ {d} : rows'[e] = rows[e]
      BY <1>1, <3>1 DEF TypeOK
    <3>3. rows'[d].paired /\ rows'[d].lastSeenAt = at
      BY <1>1, <3>2, TouchUpdate, TouchSeen
    <3>4. /\ spoiled \subseteq spoiled'
          /\ d \notin spoiled' => ~(at < rows[d].lastSeenAt)
      BY <2>1 DEF TouchDevice
    <3>5. QED
      BY <3>2, <3>3, <3>4
  <2>2. CASE TouchFails(r)
    BY <1>1, <2>2 DEF TouchFails
  <2>3. QED
    BY <2>1, <2>2
<1>5. \A e \in Devices : lastTouch[e] # 0 => rows'[e].paired
  BY <1>4 DEF SeenInv
<1>6. \A s \in Requests : pc'[s] \in Throttled =>
        lastTouch[req'[s].device] # 0 /\ req'[s].now - lastTouch[req'[s].device] < TouchEvery
  BY <1>1, <1>3 DEF SeenInv, Throttled, Writing
<1>7. /\ \A s \in Requests : pc'[s] \in {"throttle", "touching"} => req'[s].now \in 1..clock
      /\ \A s \in Requests : pc'[s] = "update" => req'[s].now <= req'[s].at
  BY <1>3 DEF SeenInv
<1>8. ASSUME NEW e \in Devices \ spoiled', lastTouch[e] # 0
      PROVE  \/ rows'[e].lastSeenAt >= lastTouch[e]
             \/ \E s \in Requests : pc'[s] \in Writing /\ req'[s].device = e /\ req'[s].now = lastTouch[e]
  <2>1. \/ rows[e].lastSeenAt >= lastTouch[e]
        \/ \E s \in Requests : pc[s] \in Writing /\ req[s].device = e /\ req[s].now = lastTouch[e]
    BY <1>4, <1>8 DEF SeenInv
  <2>2. CASE rows[e].lastSeenAt >= lastTouch[e]
    <3>1. CASE e = d
      <4>1. rows'[d].lastSeenAt = at /\ ~(at < rows[d].lastSeenAt)
        BY <1>4, <1>8, <3>1
      <4>2. at \in Int /\ rows[d].lastSeenAt \in Int /\ lastTouch[d] \in Int
        BY <1>1 DEF Row, TimesOrZero, TypeOK
      <4>3. QED
        BY <2>2, <3>1, <4>1, <4>2
    <3>2. CASE e # d
      BY <1>4, <2>2, <3>2
    <3>3. QED
      BY <3>1, <3>2
  <2>3. ASSUME NEW s \in Requests, pc[s] \in Writing, req[s].device = e, req[s].now = lastTouch[e]
        PROVE  \/ rows'[e].lastSeenAt >= lastTouch[e]
               \/ \E q \in Requests : pc'[q] \in Writing /\ req'[q].device = e /\ req'[q].now = lastTouch[e]
    <3>1. CASE s = r
      <4>1. req[r].now <= at
        BY <1>1 DEF SeenInv
      <4>2. rows'[e].lastSeenAt = at
        BY <1>4, <1>8, <2>3, <3>1
      <4>3. at \in Int /\ lastTouch[e] \in Int
        BY <1>1 DEF TimesOrZero, TypeOK
      <4>4. QED
        BY <2>3, <3>1, <4>1, <4>2, <4>3
    <3>2. CASE s # r
      <4>1. pc'[s] \in Writing /\ req'[s].device = e /\ req'[s].now = lastTouch[e]
        BY <1>3, <2>3, <3>2 DEF Writing
      <4>2. QED
        BY <4>1
    <3>3. QED
      BY <3>1, <3>2
  <2>4. QED
    BY <2>1, <2>2, <2>3
<1>9. QED
  BY <1>2, <1>5, <1>6, <1>7, <1>8 DEF SeenInv

LEMMA SeenStep == RowInv /\ SeenInv /\ [Next]_vars => SeenInv'
<1> SUFFICES ASSUME RowInv, SeenInv, [Next]_vars PROVE SeenInv'
  OBVIOUS
<1>1. TypeOK /\ TypeOK'
  BY TypeStep DEF RowInv
<1>2. clock \in Int
  BY <1>1 DEF TypeOK, Times
<1>3. ASSUME NEW r \in Requests, Step(r) PROVE SeenInv'
  BY <1>1, <1>3, QuietSteps, ReadSeen, ThrottleSeen, BeginSeen, WriteSeen DEF Step
<1>4. ASSUME NEW r \in Requests, NEW d \in Devices \cup {NoDevice}, NEW t \in Devices \cup {NoDevice},
             NEW v \in VersionCodes \cup {0}, Arrive(r, d, t, v)
      PROVE  SeenInv'
  <2>1. PICK q \in Request : pc' = [pc EXCEPT ![r] = "lookup"] /\ req' = [req EXCEPT ![r] = q]
    BY <1>1, <1>4, ArriveMoves
  <2>2. pc[r] = "idle" /\ UNCHANGED <<clock, rows, lastTouch, spoiled>>
    BY <1>4 DEF Arrive, history
  <2>3. \A s \in Requests : Keeps(s)
    BY <1>1, <2>1, <2>2 DEF TypeOK, Keeps, Throttled, Writing, Handling
  <2>4. QED
    BY <1>1, <1>2, <2>2, <2>3, QuietStep
\* A device that was never paired has no mark to lose.
<1>5. ASSUME NEW d \in Devices, NEW v \in VersionCodes, InsertDevice(d, v) PROVE SeenInv'
  <2>1. /\ UNCHANGED <<clock, lastTouch, spoiled, pc, req>>
        /\ \A e \in Devices : rows[e].paired => rows'[e] = rows[e]
    BY <1>1, <1>5 DEF InsertDevice, history, TypeOK
  <2>2. \A s \in Requests : Keeps(s)
    BY <2>1 DEF Keeps
  <2>3. QED
    BY <1>1, <1>2, <2>1, <2>2, QuietStep
<1>6. CASE Restart
  <2>1. /\ \A r \in Requests : pc'[r] = "idle"
        /\ \A d \in Devices : lastTouch'[d] = 0
    BY <1>6 DEF Restart
  <2>2. QED
    BY <2>1 DEF SeenInv, Throttled, Writing, Handling
<1>7. CASE Tick
  <2>1. clock <= clock' /\ UNCHANGED <<lastTouch, spoiled, pc, req, rows>>
    BY <1>2, <1>7 DEF Tick, history
  <2>2. \A s \in Requests : Keeps(s)
    BY <2>1 DEF Keeps
  <2>3. QED
    BY <1>1, <2>1, <2>2, QuietStep
<1>8. CASE UNCHANGED vars
  <2>1. clock <= clock' /\ UNCHANGED <<lastTouch, spoiled, pc, req, rows>>
    BY <1>2, <1>8 DEF vars, history
  <2>2. \A s \in Requests : Keeps(s)
    BY <2>1 DEF Keeps
  <2>3. QED
    BY <1>1, <2>1, <2>2, QuietStep
<1>9. QED
  BY <1>3, <1>4, <1>5, <1>6, <1>7, <1>8 DEF Next

\* While a request is handled, last_seen_at of its device lies less than an interval before
\* the request's reading of the clock, unless a touch is on its way, failed or was overtaken.
THEOREM SeenIsRecent == Spec => []SeenWithinInterval
<1>1. Init => SeenInv
  BY DEF Init, SeenInv, Throttled, Writing, Handling
<1>2. RowInv /\ SeenInv => SeenWithinInterval
  <2> SUFFICES ASSUME RowInv, SeenInv, NEW r \in Requests, pc[r] \in Handling,
                      req[r].device \notin spoiled, ~TouchInFlight(req[r].device)
               PROVE  rows[req[r].device].lastSeenAt > req[r].now - TouchEvery
    BY DEF SeenWithinInterval
  <2> DEFINE d == req[r].device
  <2>1. d \in Devices /\ pc[r] \in Throttled
    BY DEF RowInv, TypeOK, Handling, Throttled
  <2>2. lastTouch[d] # 0 /\ req[r].now - lastTouch[d] < TouchEvery
    BY <2>1 DEF SeenInv
  <2>3. rows[d].lastSeenAt >= lastTouch[d]
    BY <2>1, <2>2 DEF SeenInv, TouchInFlight, Writing
  <2>4. /\ rows[d].lastSeenAt \in Int /\ lastTouch[d] \in Int /\ req[r].now \in Int
        /\ TouchEvery \in Int
    BY <2>1, AuthAssumption DEF RowInv, TypeOK, Row, Request, TimesOrZero
  <2>5. QED
    BY <2>2, <2>3, <2>4
<1>3. QED
  BY <1>1, <1>2, SeenStep, RowInvariant, PTL DEF Spec
=============================================================================
