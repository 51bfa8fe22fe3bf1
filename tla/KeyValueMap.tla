---------------------------- MODULE KeyValueMap ----------------------------
(***************************************************************************)
(* What a Database promises its callers: a map that changes one key at a   *)
(* time by a put or a delete, or loses several by a drop.                  *)
(***************************************************************************)
CONSTANTS Keys, Values, Missing

VARIABLE map

Init == map = [k \in Keys |-> Missing]

Put(k, v) == map' = [map EXCEPT ![k] = v]
Delete(k) == map' = [map EXCEPT ![k] = Missing]
Drop(ks) == map' = [k \in Keys |-> IF k \in ks THEN Missing ELSE map[k]]

Next ==
    \/ \E k \in Keys, v \in Values : Put(k, v)
    \/ \E k \in Keys : Delete(k)
    \/ \E ks \in SUBSET Keys : Drop(ks)

Spec == Init /\ [][Next]_map
=============================================================================
