---------------------------- MODULE MCDatabase ----------------------------
(* Bounds for TLC: two threads, since one suffices to come between the       *)
(* other's unlock and its return, and two keys with two values, so that a    *)
(* value read for another key shows.                                         *)
EXTENDS Database
CONSTANTS t1, t2, k1, k2, v1, v2, missing, torn, free
MCThreads == {t1, t2}
MCKeys == {k1, k2}
MCValues == {v1, v2}
=============================================================================
