-------------------------------- MODULE Auth --------------------------------
(***************************************************************************)
(* Authentication on the server (D-01): Authenticator.Require in           *)
(* auth/middleware.go around the handlers of httpapi, over the devices     *)
(* table of store/devices.go.  A request looks its token up, touches its   *)
(* device at most once per interval, and then runs its handler, which may  *)
(* revoke a device.  Requests run concurrently; one action is one store    *)
(* call, critical section or reading of a clock.                           *)
(*                                                                         *)
(* The token of a device stands for the device: it is minted with it, and  *)
(* revoked rows keep it.  Restart ends every request and empties the       *)
(* touch throttle, which lives in memory; the table survives.              *)
(***************************************************************************)
EXTENDS Integers, FiniteSets

CONSTANTS
  Requests,     \* requests in flight
  Devices,
  NoDevice,     \* no token, a malformed one, or one of no device; no device to revoke
  VersionCodes, \* X-Homesink-Client; 0 is an absent or unreadable one
  TouchEvery,   \* AuthenticatorOptions.TouchInterval
  LastMs,       \* bound of the clock
  MaxRestarts   \* bound

ASSUME AuthAssumption ==
  /\ NoDevice \notin Devices
  /\ VersionCodes \subseteq Nat
  /\ TouchEvery \in Nat \ {0}
  /\ LastMs \in Nat \ {0} /\ MaxRestarts \in Nat

VARIABLES
  clock,
  rows,       \* devices: what authentication reads and writes of each row
  lastTouch,  \* Authenticator.lastTouch; 0 for a device it has not seen
  pc,         \* what each request does next
  req,        \* its header and locals
  startedAt,  \* when the process started
  restarts,
  cut,        \* devices whose revocation was committed
  touches,    \* touches due since the start, of each device
  spoiled     \* devices one of whose touches failed or was overtaken by a later one

vars == <<clock, rows, lastTouch, pc, req, startedAt, restarts, cut, touches, spoiled>>
process == <<startedAt, restarts>>
history == <<cut, touches, spoiled>>

Times == 1..LastMs
TimesOrZero == 0..LastMs  \* 0 is NULL

Row == [paired : BOOLEAN, version : Nat, lastSeenAt : TimesOrZero, revokedAt : TimesOrZero]
NoRow == [paired |-> FALSE, version |-> 0, lastSeenAt |-> 0, revokedAt |-> 0]

Steps == {"idle", "lookup", "clock", "throttle", "touching", "update",
          "handler", "revoke"}
Handling == {"handler", "revoke"}

\* late: the revocation of its device was committed before it arrived.
Request == [device : Devices \cup {NoDevice}, target : Devices \cup {NoDevice},
            version : VersionCodes \cup {0}, late : BOOLEAN,
            now : TimesOrZero, at : TimesOrZero]
NoRequest == [device |-> NoDevice, target |-> NoDevice, version |-> 0, late |-> FALSE,
              now |-> 0, at |-> 0]

TypeOK ==
  /\ clock \in Times
  /\ rows \in [Devices -> Row]
  /\ lastTouch \in [Devices -> TimesOrZero]
  /\ pc \in [Requests -> Steps]
  /\ req \in [Requests -> Request]
  /\ \A r \in Requests : pc[r] \notin {"idle", "lookup"} => req[r].device \in Devices
  /\ \A r \in Requests : pc[r] = "revoke" => req[r].target \in Devices
  /\ startedAt \in Times /\ restarts \in Nat
  /\ cut \subseteq Devices /\ spoiled \subseteq Devices
  /\ touches \in [Devices -> Nat]

Init ==
  /\ clock = 1
  /\ rows = [d \in Devices |-> NoRow]
  /\ lastTouch = [d \in Devices |-> 0]
  /\ pc = [r \in Requests |-> "idle"]
  /\ req = [r \in Requests |-> NoRequest]
  /\ startedAt = 1 /\ restarts = 0
  /\ cut = {} /\ spoiled = {}
  /\ touches = [d \in Devices |-> 0]

-----------------------------------------------------------------------------
(* The table *)

\* DeviceByTokenHash: revoked devices are excluded.
Live(d) == rows[d].paired /\ rows[d].revokedAt = 0

\* A bug: the row is written back as the request had read it.
TouchedFromCopy(row, at, version) ==
  [row EXCEPT !.lastSeenAt = at, !.version = IF version = 0 THEN @ ELSE version,
              !.revokedAt = 0]

\* COALESCE(?, app_version_code); a revoked row is touched like any other.
Touched(row, at, version) ==
  [row EXCEPT !.lastSeenAt = at, !.version = IF version = 0 THEN @ ELSE version]

\* A bug: the time of the last call is kept.
RevokedAnew(row, at) == [row EXCEPT !.revokedAt = at]

\* Revoking twice keeps the first time.
Revoked(row, at) == IF row.revokedAt = 0 THEN [row EXCEPT !.revokedAt = at] ELSE row

-----------------------------------------------------------------------------
(* Authenticator.Require *)

Goto(r, step) == pc' = [pc EXCEPT ![r] = step]

Answer(r) ==
  /\ Goto(r, "idle")
  /\ req' = [req EXCEPT ![r] = NoRequest]

Arrive(r, device, target, version) ==
  /\ pc[r] = "idle"
  /\ req' = [req EXCEPT ![r] =
       [device |-> device, target |-> target, version |-> version, late |-> device \in cut,
        now |-> 0, at |-> 0]]
  /\ Goto(r, "lookup")
  /\ UNCHANGED <<clock, rows, lastTouch, process, history>>

\* A bug: only a token that is found can be rejected.
AuthenticateKnown(r) ==
  /\ pc[r] = "lookup"
  /\ \/ /\ req[r].device \in Devices => Live(req[r].device)
        /\ Goto(r, "clock")
        /\ UNCHANGED req
     \/ /\ req[r].device \in Devices /\ ~Live(req[r].device)
        /\ Answer(r)
  /\ UNCHANGED <<clock, rows, lastTouch, process, history>>

\* authenticate: 401 for a token without a live device.
Authenticate(r) ==
  /\ pc[r] = "lookup"
  /\ \/ /\ req[r].device \in Devices /\ Live(req[r].device)
        /\ Goto(r, "clock")
        /\ UNCHANGED req
     \/ /\ ~(req[r].device \in Devices /\ Live(req[r].device))
        /\ Answer(r)
  /\ UNCHANGED <<clock, rows, lastTouch, process, history>>

\* touch reads the clock before it takes the mutex.
ReadClock(r) ==
  /\ pc[r] = "clock"
  /\ req' = [req EXCEPT ![r].now = clock]
  /\ Goto(r, "throttle")
  /\ UNCHANGED <<clock, rows, lastTouch, process, history>>

\* The locals of touch are gone when the handler runs.
Handle(r) ==
  /\ Goto(r, "handler")
  /\ req' = [req EXCEPT ![r].at = 0, ![r].version = 0]

Due(d, now) == lastTouch[d] = 0 \/ now - lastTouch[d] >= TouchEvery

\* A bug: the mark is left to whoever writes.
ThrottleUnmarked(r) ==
  LET d == req[r].device IN
  /\ pc[r] = "throttle"
  /\ \/ /\ Due(d, req[r].now)
        /\ touches' = [touches EXCEPT ![d] = @ + 1]
        /\ Goto(r, "touching")
        /\ UNCHANGED req
     \/ /\ ~Due(d, req[r].now)
        /\ Handle(r)
        /\ UNCHANGED touches
  /\ UNCHANGED <<clock, rows, lastTouch, process, cut, spoiled>>

\* A bug: every request moves the mark.
ThrottleMarking(r) ==
  LET d == req[r].device IN
  /\ pc[r] = "throttle"
  /\ lastTouch' = [lastTouch EXCEPT ![d] = req[r].now]
  /\ touches' = IF Due(d, req[r].now) THEN [touches EXCEPT ![d] = @ + 1] ELSE touches
  /\ IF Due(d, req[r].now) THEN Goto(r, "touching") /\ UNCHANGED req ELSE Handle(r)
  /\ UNCHANGED <<clock, rows, process, cut, spoiled>>

\* The critical section of touch: the mark comes before the write.
Throttle(r) ==
  LET d == req[r].device IN
  /\ pc[r] = "throttle"
  /\ \/ /\ Due(d, req[r].now)
        /\ lastTouch' = [lastTouch EXCEPT ![d] = req[r].now]
        /\ touches' = [touches EXCEPT ![d] = @ + 1]
        /\ Goto(r, "touching")
        /\ UNCHANGED req
     \/ /\ ~Due(d, req[r].now)
        /\ Handle(r)
        /\ UNCHANGED <<lastTouch, touches>>
  /\ UNCHANGED <<clock, rows, process, cut, spoiled>>

\* TouchDevice reads the store's clock before its transaction.
BeginTouch(r) ==
  /\ pc[r] = "touching"
  /\ req' = [req EXCEPT ![r].at = clock]
  /\ Goto(r, "update")
  /\ UNCHANGED <<clock, rows, lastTouch, process, history>>

TouchDevice(r) ==
  LET d == req[r].device IN
  /\ pc[r] = "update"
  /\ rows' = [rows EXCEPT ![d] = Touched(@, req[r].at, req[r].version)]
  /\ spoiled' = IF req[r].at < rows[d].lastSeenAt THEN spoiled \cup {d} ELSE spoiled
  /\ Handle(r)
  /\ UNCHANGED <<clock, lastTouch, process, cut, touches>>

\* A failed write is logged, and the request served all the same.
TouchFails(r) ==
  /\ pc[r] = "update"
  /\ spoiled' = spoiled \cup {req[r].device}
  /\ Handle(r)
  /\ UNCHANGED <<clock, rows, lastTouch, process, cut, touches>>

-----------------------------------------------------------------------------
(* The handlers.  Without a device to revoke they change nothing here, as   *)
(* listDevices does.                                                         *)

Serve(r) ==
  /\ pc[r] = "handler"
  /\ req[r].target = NoDevice
  /\ Answer(r)
  /\ UNCHANGED <<clock, rows, lastTouch, process, history>>

\* RevokeDevice reads the store's clock before its transaction.
BeginRevoke(r) ==
  /\ pc[r] = "handler"
  /\ req[r].target # NoDevice
  /\ req' = [req EXCEPT ![r].at = clock]
  /\ Goto(r, "revoke")
  /\ UNCHANGED <<clock, rows, lastTouch, process, history>>

\* 204, also for a device revoked before; 404 for one that does not exist.
RevokeDevice(r) ==
  LET d == req[r].target IN
  /\ pc[r] = "revoke"
  /\ \/ /\ rows[d].paired
        /\ rows' = [rows EXCEPT ![d] = Revoked(@, req[r].at)]
        /\ cut' = cut \cup {d}
     \/ /\ ~rows[d].paired
        /\ UNCHANGED <<rows, cut>>
  /\ Answer(r)
  /\ UNCHANGED <<clock, lastTouch, process, touches, spoiled>>

\* 500: the lookup or the handler's store call fails.
StoreError(r) ==
  /\ pc[r] \in {"lookup", "revoke"}
  /\ Answer(r)
  /\ UNCHANGED <<clock, rows, lastTouch, process, history>>

-----------------------------------------------------------------------------
(* Around it *)

\* Pairer.Pair's InsertDevice, once per device id.
InsertDevice(d, version) ==
  /\ ~rows[d].paired
  /\ rows' = [rows EXCEPT ![d] =
       [paired |-> TRUE, version |-> version, lastSeenAt |-> 0, revokedAt |-> 0]]
  /\ UNCHANGED <<clock, lastTouch, pc, req, process, history>>

Restart ==
  /\ restarts < MaxRestarts
  /\ restarts' = restarts + 1
  /\ startedAt' = clock
  /\ lastTouch' = [d \in Devices |-> 0]
  /\ touches' = [d \in Devices |-> 0]
  /\ pc' = [r \in Requests |-> "idle"]
  /\ req' = [r \in Requests |-> NoRequest]
  /\ UNCHANGED <<clock, rows, cut, spoiled>>

Tick ==
  /\ clock < LastMs
  /\ clock' = clock + 1
  /\ UNCHANGED <<rows, lastTouch, pc, req, process, history>>

Step(r) ==
  \/ Authenticate(r) \/ ReadClock(r) \/ Throttle(r)
  \/ BeginTouch(r) \/ TouchDevice(r) \/ TouchFails(r)
  \/ Serve(r) \/ BeginRevoke(r) \/ RevokeDevice(r)
  \/ StoreError(r)

Next ==
  \/ \E r \in Requests :
       \/ Arrive(r, NoDevice, NoDevice, 0)
       \/ \E d \in Devices, t \in Devices \cup {NoDevice}, v \in VersionCodes : Arrive(r, d, t, v)
       \/ Step(r)
  \/ \E d \in Devices, v \in VersionCodes : InsertDevice(d, v)
  \/ Restart
  \/ Tick

Spec == Init /\ [][Next]_vars

-----------------------------------------------------------------------------
(* Properties *)

\* "Revocation is effective on the very next request" (middleware.go:82): no request that
\* arrived after its device was revoked gets past Require, whatever requests that came
\* before the revocation still write.
RevokedNotServed == \A r \in Requests : pc[r] \notin {"idle", "lookup"} => ~req[r].late

\* No step of any request undoes what is known of a device: its pairing, the time it was
\* first revoked, or that its app version is known.
RowsProgress ==
  [][\A d \in Devices :
       /\ rows[d].paired => rows'[d].paired
       /\ rows[d].revokedAt # 0 => rows'[d].revokedAt = rows[d].revokedAt
       /\ rows[d].version # 0 => rows'[d].version # 0]_vars

\* "At most once per TouchInterval per device" (middleware.go:135-136), over the life of the
\* process and however requests race: one touch to begin with, then one per whole interval.
TouchesThrottled ==
  \A d \in Devices : touches[d] > 0 => (touches[d] - 1) * TouchEvery <= clock - startedAt

TouchInFlight(d) == \E r \in Requests : req[r].device = d /\ pc[r] \in {"touching", "update"}

\* While a request is handled, last_seen_at of its device is less than an interval behind
\* it, unless a touch is still being written, failed, or was overtaken by a later one.
SeenWithinInterval ==
  \A r \in Requests :
    LET d == req[r].device IN
    (pc[r] \in Handling /\ d \notin spoiled /\ ~TouchInFlight(d))
      => rows[d].lastSeenAt > req[r].now - TouchEvery
=============================================================================
