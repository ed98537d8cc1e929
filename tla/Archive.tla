------------------------------ MODULE Archive ------------------------------
(***************************************************************************)
(* What the library promises to whoever looks at it: under a path, one     *)
(* photo at a time, the one uploaded for it, and the same bytes until it   *)
(* is deleted.  Only a blob of which a placement was deleted or cut short  *)
(* may be placed again with bytes that are not its own.  Module Library    *)
(* implements this (see Archived there).                                   *)
(***************************************************************************)
CONSTANTS Paths, Hashes

VARIABLES
  photos,  \* the photo at each path, as the hash on record and the bytes one sees
  given    \* the blobs whose path may have been given to another one

Nothing == <<>>

Init ==
  /\ photos = [p \in Paths |-> Nothing]
  /\ given = {}

Add(p, h) ==
  /\ photos[p] = Nothing
  /\ \E bytes \in Hashes :
       /\ bytes = h \/ h \in given
       /\ photos' = [photos EXCEPT ![p] = <<h, bytes>>]
  /\ UNCHANGED given

Remove(p) ==
  /\ photos[p] # Nothing
  /\ photos' = [photos EXCEPT ![p] = Nothing]
  /\ given' = given \cup {photos[p][1]}

\* A placement is cut short after its file and its blob, before its item.
GiveAway(h) ==
  /\ h \notin given
  /\ given' = given \cup {h}
  /\ UNCHANGED photos

\* A photo is seen to come or to go.
Changes(p) == photos'[p] # photos[p]

Next ==
  \/ \E p \in Paths : Changes(p) /\ (Remove(p) \/ \E h \in Hashes : Add(p, h))
  \/ \E h \in Hashes : GiveAway(h)

Spec == Init /\ [][Next]_<<photos, given>>
=============================================================================
