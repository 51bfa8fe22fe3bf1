----------------------------- MODULE MCKeyStore -----------------------------
(* Bounds for TLC: two key files, so that one can be torn while another is   *)
(* imported and two can share an address; one address and the zero address;  *)
(* two passwords; and one fault, with the calls after it unbounded, so that  *)
(* they meet whatever it left behind.                                        *)
EXTENDS KeyStore, TLC
CONSTANTS u1, u2, a1, p1, p2, zero, unknown, nothing, torn
MCUuids == {u1, u2}
MCAddresses == {a1}
MCPasswords == {p1, p2}
MCMaxFaults == 1
Symmetric == Permutations({u1, u2}) \union Permutations({p1, p2})
=============================================================================
