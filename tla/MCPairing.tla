----------------------------- MODULE MCPairing -----------------------------
(* Small instances of Pairing for TLC. *)
EXTENDS Pairing, TLC

\* Nothing distinguishes two requests, two rows, two codes, and so on.
Symmetric ==
  Permutations(Requests) \cup Permutations(ClientIPs) \cup Permutations(Codes)
    \cup Permutations(Rows) \cup Permutations(Devices)
=============================================================================
