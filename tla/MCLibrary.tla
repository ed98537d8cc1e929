----------------------------- MODULE MCLibrary -----------------------------
(* Three uploads, two of which share the first eight digits of their hash, *)
(* and one file name in two albums.                                        *)
EXTENDS Library, TLC

CONSTANTS h1, h2, h3

MCRequested == {<<"Camera", "IMG">>, <<"WhatsApp", "IMG">>}
MCPrefix == h1 :> "a1" @@ h2 :> "a1" @@ h3 :> "b2"
MCSize == h1 :> 1 @@ h2 :> 2 @@ h3 :> 4
MCCaptured == h1 :> 3 @@ h2 :> 1 @@ h3 :> 2
MCSymmetry == Permutations(Callers)
=============================================================================
