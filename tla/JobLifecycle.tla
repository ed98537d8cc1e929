---------------------------- MODULE JobLifecycle ----------------------------
(***************************************************************************)
(* What the queue promises about every job, whatever its priority, its     *)
(* backoff and the order of the calls: a job is in one place at a time,    *)
(* with at most one worker, which has no other; only the worker that has   *)
(* it ends the attempt; each start is counted, and a job goes back to the  *)
(* queue or gives up by that count alone.  A process that dies loses what  *)
(* its workers had, and nothing is started until all of it is back in the  *)
(* queue.  Module Jobs implements this (see Lifecycle there).              *)
(***************************************************************************)
EXTENDS Naturals

CONSTANTS Workers, Jobs, MaxAttempts

VARIABLES
  place,   \* where each job is
  starts   \* how often each was started

Outside == <<"absent">>
Queue == <<"queued">>
With(w) == <<"held", w>>
Lost == <<"running">>   \* running on record, with no worker behind it
Done == <<"done">>
Failed == <<"failed">>

Init ==
  /\ place = [j \in Jobs |-> Outside]
  /\ starts = [j \in Jobs |-> 0]

Move(j, from, to) ==
  /\ place[j] = from
  /\ place' = [place EXCEPT ![j] = to]

Enqueue(j) == Move(j, Outside, Queue) /\ UNCHANGED starts

Start(j, w) ==
  /\ \A k \in Jobs : place[k] \notin {With(w), Lost}
  /\ Move(j, Queue, With(w))
  /\ starts' = [starts EXCEPT ![j] = @ + 1]

Finish(j, w) == Move(j, With(w), Done) /\ UNCHANGED starts
Retry(j, w)  == starts[j] < MaxAttempts /\ Move(j, With(w), Queue) /\ UNCHANGED starts
GiveUp(j, w) == starts[j] >= MaxAttempts /\ Move(j, With(w), Failed) /\ UNCHANGED starts

IsHeld(j) == \E w \in Workers : place[j] = With(w)

Crash ==
  /\ place' = [j \in Jobs |-> IF IsHeld(j) THEN Lost ELSE place[j]]
  /\ UNCHANGED starts

Recover ==
  /\ place' = [j \in Jobs |-> IF place[j] = Lost THEN Queue ELSE place[j]]
  /\ UNCHANGED starts

Next ==
  \/ \E j \in Jobs : Enqueue(j)
  \/ \E j \in Jobs, w \in Workers : Start(j, w) \/ Finish(j, w) \/ Retry(j, w) \/ GiveUp(j, w)
  \/ Crash
  \/ Recover

Spec == Init /\ [][Next]_<<place, starts>>
=============================================================================
