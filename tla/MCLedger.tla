------------------------------ MODULE MCLedger ------------------------------
(* Bounds for TLC.  A package holds 8 bytes; under a path of two bytes the first of a    *)
(* transaction takes 6 and each later one 8, so one transaction has a second package of  *)
(* one byte and one a full one.  Of a personal message the first takes 5: one is empty,  *)
(* one fits, one does not.                                                               *)
EXTENDS Ledger
CONSTANTS i0, i1, m0, m1, m7, m14
MCPathSize == [i \in {i0, i1} |-> IF i = i0 THEN 3 ELSE 2]
MCDefault == [index |-> i0, hardened |-> TRUE]
MCLengthOf == [m \in {m0, m1, m7, m14} |-> CASE m = m0 -> 0 [] m = m1 -> 1 [] m = m7 -> 7 [] m = m14 -> 14]
P(i, h) == [index |-> i, hardened |-> h]
C(op, p, m, from) == [op |-> op, path |-> p, message |-> m, from |-> from]
\* An account under either kind of path, transactions by the right sender and by another
\* one, and personal messages.
MCCalls ==
    {C("account", P(i1, h), m1, P(i1, h)) : h \in BOOLEAN}
    \union {C("transaction", P(i1, TRUE), m, P(i1, TRUE)) : m \in {m7, m14}}
    \union {C("transaction", P(i1, TRUE), m1, P(i0, TRUE))}
    \union {C("personal", P(i1, TRUE), m, P(i1, TRUE)) : m \in {m0, m1, m7}}
=============================================================================
