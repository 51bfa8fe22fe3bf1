------------------------------ MODULE MCTrieDB ------------------------------
(***************************************************************************)
(* Bounds for TLC.  Of the two values one is longer than a hash, and with  *)
(* the other a leaf is inline, a branch of a value and a leaf is inline,   *)
(* and a branch of two leaves is exactly as long as a hash.  The keys      *)
(* extend one another, share parts, and diverge at both ends.              *)
(***************************************************************************)
EXTENDS TrieDB, TLC

CONSTANTS short, long

MCSizeOf == (short :> 5) @@ (long :> 40)

MCKeys == {<<0, 0>>, <<0, 0, 0, 1>>, <<0, 0, 1, 0>>, <<1, 0, 0, 1>>}

=============================================================================
