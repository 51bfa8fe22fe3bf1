--------------------------- MODULE MCTransaction ---------------------------
(* Two keys, one body, two nonces.  An int holds less than 64: ids 1 and 13 fit, 14 does *)
(* with one of the two recovery bits, 65 wraps to the v of chain id 1, and 0 is never   *)
(* accepted.  From outside come every v around the limits with a point that is zero, out *)
(* of range, or a key's for something else, and lists that are too short or too long.  *)
EXTENDS Transaction

CONSTANTS k1, k2, b1

MCForeignV == {0, 26, 27, 28, 29, 36, 37, 38, 62, LongLimit + 1, WordLimit - 1}

MCTampered ==
    [by |-> k1, bit |-> 0,
     of |-> [fields |-> 9, creation |-> FALSE, nonce |-> 1, body |-> b1, v |-> 13, point |-> Zero]]

MCList(fields, v, point) ==
    [fields |-> fields, creation |-> FALSE, nonce |-> 0, body |-> b1, v |-> v, point |-> point]

MCForeign ==
    {MCList(9, v, p) : v \in MCForeignV, p \in {Zero, Bad, MCTampered}}
    \union {MCList(6, None, None), MCList(10, 37, MCTampered)}
============================================================================
