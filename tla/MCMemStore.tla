----------------------------- MODULE MCMemStore -----------------------------
(* Two blobs; items that share an id, a path, a month, and none of them.    *)
EXTENDS MemStore, TLC

CONSTANTS h1, h2

MCSizeOf == h1 :> 1 @@ h2 :> 2

MCItems ==
  {[id |-> 1, hash |-> h1, path |-> "a", album |-> 1, month |-> 1, captured |-> 2],
   [id |-> 2, hash |-> h2, path |-> "b", album |-> 1, month |-> 1, captured |-> 1],
   [id |-> 2, hash |-> h1, path |-> "c", album |-> 1, month |-> 2, captured |-> 3],
   [id |-> 3, hash |-> h2, path |-> "a", album |-> 2, month |-> 1, captured |-> 3],
   [id |-> 3, hash |-> h1, path |-> "d", album |-> 1, month |-> 1, captured |-> 3],
   [id |-> 4, hash |-> h2, path |-> "e", album |-> 2, month |-> 1, captured |-> 1],
   [id |-> 4, hash |-> h1, path |-> "b", album |-> 1, month |-> 2, captured |-> 2]}
=============================================================================
