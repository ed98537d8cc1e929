------------------------------ MODULE Pairing ------------------------------
(***************************************************************************)
(* Issuing and redeeming pairing codes (D-01): auth.Pairer and the         *)
(* pairing_codes table behind it.                                          *)
(*                                                                         *)
(* The server runs any number of Pair calls at once, one per request slot. *)
(* A call is a sequence of steps, one per store call or critical section,  *)
(* so everything another call, the issuing process or the clock can do     *)
(* between two of them is in the model.  Codes are issued by another       *)
(* process (homesinkd pair), which shares only the database: a crash of    *)
(* the server loses the calls in flight and the limiter, not the tables.   *)
(***************************************************************************)
EXTENDS Integers, FiniteSets

CONSTANTS
  Requests,     \* slots for concurrent Pair calls (bounds the concurrency)
  ClientIPs,    \* addresses requests come from
  Codes,        \* the code space
  Rows,         \* rows ever inserted in pairing_codes (bounds the issues)
  Devices,      \* device ids and tokens ever drawn (bounds the enrolments)
  Issuers,      \* processes that may issue a code at the same time
  MaxAttempts,  \* failures of one address before its lockout
  CodeTTL,      \* how long a code stays redeemable
  Lockout,      \* how long an address stays locked out
  IssueRetries, \* draws before issuing gives up
  MaxTime,      \* the clock stops here
  None          \* "no row", "no code"

ASSUME PairingAssumption ==
  /\ IsFiniteSet(Requests)
  /\ MaxAttempts \in Nat \ {0}
  /\ CodeTTL \in Nat \ {0}
  /\ Lockout \in Nat \ {0}
  /\ IssueRetries \in Nat \ {0}
  /\ MaxTime \in Nat
  /\ None \notin Rows \cup Codes

VARIABLES
  clock,        \* the wall clock, milliseconds
  rows,         \* pairing_codes; a deleted row stays here as history
  devices,      \* the row whose code enrolled each device
  failures,     \* the limiter's record of each address, in memory
  pc,           \* where each Pair call is
  req,          \* what each Pair call carries
  issuer        \* the IssueCode calls in progress

vars == <<clock, rows, devices, failures, pc, req, issuer>>
tables == <<rows, devices>>

-----------------------------------------------------------------------------
(* State *)

\* charged abstracts the attempts column to whether any attempt was recorded.
Row == [state : {"none", "stored", "deleted"}, code : Codes \cup {None},
        expiresAt : Nat, used : BOOLEAN, charged : BOOLEAN]
NoRow == [state |-> "none", code |-> None, expiresAt |-> 0,
          used |-> FALSE, charged |-> FALSE]
NewRow(c, e) == [state |-> "stored", code |-> c, expiresAt |-> e,
                 used |-> FALSE, charged |-> FALSE]
Deleted(w) == [w EXCEPT !.state = "deleted"]
Spent(w)   == [w EXCEPT !.used = TRUE]
Charged(w) == [w EXCEPT !.charged = TRUE]

\* An absent record is one with no failures; the zero time is 0.
FailureState == [count : Nat, lockedUntil : Nat, lastFailure : Nat]
NoFailures == [count |-> 0, lockedUntil |-> 0, lastFailure |-> 0]

Steps == {"idle", "lookup", "judge", "count", "burn", "enrol", "clear", "fail",
          "record"}

\* The call's arguments, the row it read or burnt, the error it will answer, and
\* the time at which it failed.
Request == [ip : ClientIPs \cup {None}, code : Codes \cup {None},
            row : Rows \cup {None}, want : {"none", "invalid", "expired"}, now : Nat]
NoRequest == [ip |-> None, code |-> None, row |-> None, want |-> "none", now |-> 0]

\* draws counts the draws left; none means no call in progress.
IssueState == [draws : 0..IssueRetries, expiresAt : Nat]
NotIssuing == [draws |-> 0, expiresAt |-> 0]
OneDrawLess(w) == IF w.draws = 1 THEN NotIssuing ELSE [w EXCEPT !.draws = @ - 1]

TypeOK ==
  /\ clock \in Nat
  /\ rows \in [Rows -> Row]
  /\ devices \in [Devices -> Rows \cup {None}]
  /\ failures \in [ClientIPs -> FailureState]
  /\ pc \in [Requests -> Steps]
  /\ req \in [Requests -> Request]
  /\ \A r \in Requests : pc[r] # "idle" => req[r].ip \in ClientIPs
  /\ issuer \in [Issuers -> IssueState]

Init ==
  /\ clock = 0
  /\ rows = [i \in Rows |-> NoRow]
  /\ devices = [d \in Devices |-> None]
  /\ failures = [a \in ClientIPs |-> NoFailures]
  /\ pc = [r \in Requests |-> "idle"]
  /\ req = [r \in Requests |-> NoRequest]
  /\ issuer = [p \in Issuers |-> NotIssuing]

\* The rows the table holds for a code hash: at most one, it is the key.
Stored(c) == {i \in Rows : rows[i].state = "stored" /\ rows[i].code = c}

-----------------------------------------------------------------------------
(* Issuing: homesinkd pair *)

\* A bug: the sweep does not look at the expiry.
SweepableAnyway(i) == rows[i].state = "stored"

\* DeletePairingCodesBefore takes the rows that expired before now, used or not.
Sweepable(i) == rows[i].state = "stored" /\ rows[i].expiresAt < clock

\* The sweep may fail: issuing goes on.
IssueSweep(p) ==
  /\ issuer[p].draws = 0
  /\ issuer' = [issuer EXCEPT ![p] = [draws |-> IssueRetries,
                                      expiresAt |-> clock + CodeTTL]]
  /\ \/ rows' = [i \in Rows |-> IF Sweepable(i) THEN Deleted(rows[i]) ELSE rows[i]]
     \/ UNCHANGED rows
  /\ UNCHANGED <<clock, devices, failures, pc, req>>

InsertRow(p, c) ==
  \E i \in Rows :
    /\ rows[i].state = "none"
    /\ rows' = [rows EXCEPT ![i] = NewRow(c, issuer[p].expiresAt)]

\* A bug: the insert replaces a row that already has this hash.
IssueDrawOverwriting(p, c) ==
  /\ issuer[p].draws > 0
  /\ \/ /\ Stored(c) # {}
        /\ rows' = [i \in Rows |-> IF i \in Stored(c)
                                   THEN NewRow(c, issuer[p].expiresAt) ELSE rows[i]]
     \/ /\ Stored(c) = {}
        /\ InsertRow(p, c)
  /\ issuer' = [issuer EXCEPT ![p] = NotIssuing]
  /\ UNCHANGED <<clock, devices, failures, pc, req>>

\* One draw: a hash the table already has, spent or not, means another draw.
IssueDraw(p, c) ==
  /\ issuer[p].draws > 0
  /\ \/ /\ Stored(c) # {}
        /\ issuer' = [issuer EXCEPT ![p] = OneDrawLess(@)]
        /\ UNCHANGED rows
     \/ /\ Stored(c) = {}
        /\ InsertRow(p, c)
        /\ issuer' = [issuer EXCEPT ![p] = NotIssuing]
  /\ UNCHANGED <<clock, devices, failures, pc, req>>

\* The store fails, or the issuing process dies.
IssueAbort(p) ==
  /\ issuer[p].draws > 0
  /\ issuer' = [issuer EXCEPT ![p] = NotIssuing]
  /\ UNCHANGED <<clock, tables, failures, pc, req>>

-----------------------------------------------------------------------------
(* The limiter *)

LockedOut(a) == clock < failures[a].lockedUntil

\* checkLocked drops the record of a lockout that has run out.
CheckedFailures(a) ==
  IF failures[a].lockedUntil # 0 THEN [failures EXCEPT ![a] = NoFailures] ELSE failures

\* A bug: the sweep forgets the interval a record must outlive.
ForgettableAtOnce(a, now) == failures[a].lastFailure < now /\ now > failures[a].lockedUntil

\* sweepFailuresLocked: records that can no longer affect anyone.
Forgettable(a, now) ==
  /\ failures[a].lastFailure < now - 2 * Lockout
  /\ now > failures[a].lockedUntil

SweptFailures(now) ==
  [a \in ClientIPs |-> IF Forgettable(a, now) THEN NoFailures ELSE failures[a]]

WithFailure(f, now) ==
  [count |-> f.count + 1,
   lockedUntil |-> IF f.count + 1 >= MaxAttempts THEN now + Lockout ELSE f.lockedUntil,
   lastFailure |-> now]

-----------------------------------------------------------------------------
(* Redeeming: one Pair call *)

\* The call goes on at another step, carrying q.
Goto(r, step, q) ==
  /\ pc' = [pc EXCEPT ![r] = step]
  /\ req' = [req EXCEPT ![r] = q]

\* A bug: the answer is written and the call goes on (a missing return).
AnswerAndGoOn(r) ==
  /\ UNCHANGED pc
  /\ req' = [req EXCEPT ![r] = NoRequest]

\* The call ends: its answer is on its way and the slot is free again.
Answer(r) == Goto(r, "idle", NoRequest)

\* A bug: the lockout is not consulted.
PairUnchecked(r, a, c) ==
  /\ pc[r] = "idle"
  /\ Goto(r, "lookup", [NoRequest EXCEPT !.ip = a, !.code = c])
  /\ UNCHANGED <<clock, tables, failures, issuer>>

\* checkLocked, then the request's format.  A locked-out address gets its 429
\* and a nameless request its 400 here, and neither is counted.
Pair(r, a, c) ==
  /\ pc[r] = "idle"
  /\ ~LockedOut(a)
  /\ failures' = CheckedFailures(a)
  /\ \/ Goto(r, "lookup", [NoRequest EXCEPT !.ip = a, !.code = c])        \* six digits
     \/ Goto(r, "fail", [NoRequest EXCEPT !.ip = a, !.want = "invalid"])  \* malformed
     \/ UNCHANGED <<pc, req>>                                             \* nameless
  /\ UNCHANGED <<clock, tables, issuer>>

\* PairingCodeByHash, and what the row says by itself: unknown, or spent.
Lookup(r) ==
  /\ pc[r] = "lookup"
  /\ \/ /\ Stored(req[r].code) = {}
        /\ Goto(r, "fail", [req[r] EXCEPT !.code = None, !.want = "invalid"])
     \/ \E i \in Stored(req[r].code) :
          \/ /\ rows[i].used
             /\ Goto(r, "count", [req[r] EXCEPT !.want = "invalid"])
          \/ /\ ~rows[i].used
             /\ Goto(r, "judge", [req[r] EXCEPT !.row = i])
  /\ UNCHANGED <<clock, tables, failures, issuer>>

\* A bug: a live code is taken for an expired one.
JudgeTooStrict(r) ==
  /\ pc[r] = "judge"
  /\ Goto(r, "count", [req[r] EXCEPT !.row = None, !.want = "expired"])
  /\ UNCHANGED <<clock, tables, failures, issuer>>

\* The expiry of the row that was read, against a fresh clock.
Judge(r) ==
  /\ pc[r] = "judge"
  /\ \/ /\ clock >= rows[req[r].row].expiresAt
        /\ Goto(r, "count", [req[r] EXCEPT !.row = None, !.want = "expired"])
     \/ /\ clock < rows[req[r].row].expiresAt
        /\ Goto(r, "burn", [req[r] EXCEPT !.row = None])
  /\ UNCHANGED <<clock, tables, failures, issuer>>

\* IncrementPairingCodeAttempts; whether it worked changes nothing else.
CountCodeAttempt(r) ==
  /\ pc[r] = "count"
  /\ \/ rows' = [i \in Rows |-> IF i \in Stored(req[r].code)
                                THEN Charged(rows[i]) ELSE rows[i]]
     \/ UNCHANGED rows
  /\ Goto(r, "fail", [req[r] EXCEPT !.code = None])
  /\ UNCHANGED <<clock, devices, failures, issuer>>

\* A bug: the update does not ask for an unused row.
RedeemableAlways(i) == TRUE

\* MarkPairingCodeUsed updates the row only WHERE used_at IS NULL.
Redeemable(i) == ~rows[i].used

\* The single-use step: one winner; a loser, or a code swept meanwhile, is a 400.
MarkPairingCodeUsed(r) ==
  /\ pc[r] = "burn"
  /\ \/ \E i \in Stored(req[r].code) :
          /\ Redeemable(i)
          /\ rows' = [rows EXCEPT ![i] = Spent(@)]
          /\ Goto(r, "enrol", [req[r] EXCEPT !.code = None, !.row = i])
     \/ /\ ~\E i \in Stored(req[r].code) : Redeemable(i)
        /\ Goto(r, "fail", [req[r] EXCEPT !.code = None, !.want = "invalid"])
        /\ UNCHANGED rows
  /\ UNCHANGED <<clock, devices, failures, issuer>>

\* Token and id are drawn at random: never ones a device already has.
InsertDevice(r) ==
  /\ pc[r] = "enrol"
  /\ \E d \in Devices :
       /\ devices[d] = None
       /\ devices' = [devices EXCEPT ![d] = req[r].row]
  /\ Goto(r, "clear", [req[r] EXCEPT !.row = None])
  /\ UNCHANGED <<clock, rows, failures, issuer>>

\* clearFailures, then the 200.
ClearFailures(r) ==
  /\ pc[r] = "clear"
  /\ failures' = [failures EXCEPT ![req[r].ip] = NoFailures]
  /\ Answer(r)
  /\ UNCHANGED <<clock, tables, issuer>>

\* failed reads the clock, and only then waits for the limiter's mutex.
ReadClock(r) ==
  /\ pc[r] = "fail"
  /\ Goto(r, "record", [req[r] EXCEPT !.now = clock])
  /\ UNCHANGED <<clock, tables, failures, issuer>>

\* Under the mutex: sweep the limiter, count, perhaps lock out, as of the time read.
\* Then the 429, 400 or 410.
Failed(r) ==
  /\ pc[r] = "record"
  /\ failures' = [SweptFailures(req[r].now) EXCEPT
                    ![req[r].ip] = WithFailure(@, req[r].now)]
  /\ Answer(r)
  /\ UNCHANGED <<clock, tables, issuer>>

\* A store call fails (a cancelled request fails every one): a 500, not counted.
StoreError(r) ==
  /\ pc[r] \in {"lookup", "burn", "enrol"}
  /\ Answer(r)
  /\ UNCHANGED <<clock, tables, failures, issuer>>

-----------------------------------------------------------------------------
(* Environment *)

Tick ==
  /\ clock < MaxTime
  /\ clock' = clock + 1
  /\ UNCHANGED <<tables, failures, pc, req, issuer>>

\* The server stops or dies, and starts again with an empty limiter.
Restart ==
  /\ pc' = [r \in Requests |-> "idle"]
  /\ req' = [r \in Requests |-> NoRequest]
  /\ failures' = [a \in ClientIPs |-> NoFailures]
  /\ UNCHANGED <<clock, tables, issuer>>

\* The steps a Pair call takes once it was admitted.
Serve(r) ==
  \/ Lookup(r) \/ Judge(r) \/ CountCodeAttempt(r) \/ MarkPairingCodeUsed(r)
  \/ InsertDevice(r) \/ ClearFailures(r) \/ ReadClock(r) \/ Failed(r) \/ StoreError(r)

Issue(p) == IssueAbort(p) \/ \E c \in Codes : IssueDraw(p, c)

Next ==
  \/ \E r \in Requests, a \in ClientIPs, c \in Codes : Pair(r, a, c)
  \/ \E r \in Requests : Serve(r)
  \/ \E p \in Issuers : IssueSweep(p) \/ Issue(p)
  \/ Tick
  \/ Restart

Spec == Init /\ [][Next]_vars

-----------------------------------------------------------------------------
(* Properties *)

\* Single use (D-01, MarkPairingCodeUsed): however requests, sweeps, repeated
\* codes and restarts interleave, no two devices were enrolled by one issued code.
SingleUse ==
  \A d, e \in Devices : devices[d] # None /\ devices[d] = devices[e] => d = e

\* The lockout is checked at the start of Pair and its record updated at the end,
\* so calls in flight overshoot MaxAttempts, but by less than one each.
OvershootBounded ==
  \A a \in ClientIPs : failures[a].count < MaxAttempts + Cardinality(Requests)

\* The audit column: an attempt is charged to a row only if that row was spent or
\* past its TTL, or if its code had been issued before (the row was swept and the
\* same digits drawn again between the lookup and the charge).
ChargedRowsWereDead ==
  \A i \in Rows :
    rows[i].charged =>
      \/ rows[i].used
      \/ clock >= rows[i].expiresAt
      \/ \E j \in Rows \ {i} : rows[j].state = "deleted" /\ rows[j].code = rows[i].code

\* A code on the user's screen stays redeemable until its TTL is over: no sweep,
\* no collision with a later draw and no failed attempt withdraws or alters it;
\* only a call that redeems this very code spends it.
LiveCodeKept ==
  [][\A i \in Rows :
       rows[i].state = "stored" /\ ~rows[i].used /\ clock < rows[i].expiresAt =>
         /\ rows'[i].state = "stored"
         /\ rows'[i].expiresAt = rows[i].expiresAt
         /\ rows'[i].used => \E r \in Requests : /\ pc[r] = "burn" /\ pc'[r] = "enrol"
                                                 /\ req[r].code = rows[i].code
    ]_vars

\* The limiter forgets failures only when the lockout ran out, after two lockouts
\* of silence, when that address paired, or when the server restarted.  (The end of a
\* lockout may move: whoever counts last sets it from a clock read before the mutex.)
FailuresRemembered ==
  [][\A a \in ClientIPs :
       \/ /\ failures'[a].count >= failures[a].count
          /\ failures[a].lockedUntil # 0 => failures'[a].lockedUntil # 0
       \/ /\ failures[a].lockedUntil # 0
          /\ failures[a].lockedUntil <= clock
       \/ failures[a].lastFailure + 2 * Lockout < clock
       \/ \E r \in Requests : pc[r] = "clear" /\ req[r].ip = a /\ pc'[r] = "idle"
       \/ Restart
    ]_vars

\* Each issued code goes through the stages of CodeLifecycle.
HasDevice(i) == \E d \in Devices : devices[d] = i
HasHolder(i) == \E r \in Requests : pc[r] = "enrol" /\ req[r].row = i

StageOf(i) ==
  IF rows[i].state = "none" THEN "unissued"
  ELSE IF rows[i].state = "stored" /\ ~rows[i].used THEN "live"
  ELSE IF HasDevice(i) THEN "enrolled"
  ELSE IF HasHolder(i) THEN "redeeming"
  ELSE "gone"

Stage == [i \in Rows |-> StageOf(i)]

Lifecycle == INSTANCE CodeLifecycle WITH stage <- Stage

\* Pairing implements the lifecycle of a code.
ImplementsLifecycle == Lifecycle!Spec

\* What D-01 says of the limiter ("max 5 wrong attempts then 15 min lockout"): an
\* address that is locked out does not pair.
NoPairingWhileLockedOut ==
  \A r \in Requests : pc[r] = "clear" => ~LockedOut(req[r].ip)
=============================================================================
