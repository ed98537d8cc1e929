--------------------------- MODULE CodeLifecycle ---------------------------
(***************************************************************************)
(* What pairing promises about ONE issued code, whatever the number of     *)
(* requests, address changes, sweeps and restarts around it: a code is     *)
(* redeemed by at most one request, which enrols at most one device, and   *)
(* a code that was lost (swept, or spent by a redemption that failed) never *)
(* comes back.  Module Pairing implements this (see Lifecycle there).      *)
(***************************************************************************)
EXTENDS FiniteSets

CONSTANT Rows        \* the codes ever issued, one per row of pairing_codes

VARIABLE stage       \* how far each issued code has come

Stages == {"unissued", "live", "redeeming", "enrolled", "gone"}

TypeOK == stage \in [Rows -> Stages]

Init == stage = [i \in Rows |-> "unissued"]

\* One code moves from one stage to the next; the others stay.
Move(i, from, to) ==
  /\ stage[i] = from
  /\ stage' = [stage EXCEPT ![i] = to]

Issue(i)  == Move(i, "unissued", "live")
Redeem(i) == Move(i, "live", "redeeming")
Enrol(i)  == Move(i, "redeeming", "enrolled")

\* A sweep, or a crash of the server, loses any number of codes at once.
Lose(S) ==
  /\ \A i \in S : stage[i] \in {"live", "redeeming"}
  /\ stage' = [i \in Rows |-> IF i \in S THEN "gone" ELSE stage[i]]

Next ==
  \/ \E i \in Rows : Issue(i) \/ Redeem(i) \/ Enrol(i)
  \/ \E S \in SUBSET Rows : Lose(S)

Spec == Init /\ [][Next]_stage

=============================================================================
