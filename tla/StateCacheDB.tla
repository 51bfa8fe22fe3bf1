---------------------------- MODULE StateCacheDB ----------------------------
(***************************************************************************)
(* The store under a trie, src/devcore/StateCacheDB.cpp: m_main maps a     *)
(* hash to a node's bytes and a count of the references taken to it.       *)
(* Hashing is perfect, so a node stands for its hash and m_main is a       *)
(* function from nodes to counts.  m_enforceRefs is false, its default: a  *)
(* node whose count fell to zero can still be looked up until a purge.     *)
(***************************************************************************)
EXTENDS Naturals

DbLookup(db, n) == n \in DOMAIN db

DbInsert(db, n) ==
    IF n \in DOMAIN db THEN [db EXCEPT ![n] = @ + 1]
                       ELSE [m \in DOMAIN db \cup {n} |-> IF m = n THEN 1 ELSE db[m]]

\* A defect: the last reference takes the node away at once.
DbKillErases(db, n) ==
    IF n \notin DOMAIN db THEN db
    ELSE IF db[n] = 1 THEN [m \in DOMAIN db \ {n} |-> db[m]]
    ELSE [db EXCEPT ![n] = @ - 1]

DbKill(db, n) == IF n \in DOMAIN db /\ db[n] > 0 THEN [db EXCEPT ![n] = @ - 1] ELSE db

\* keys(): what is referenced.
DbKeys(db) == {n \in DOMAIN db : db[n] > 0}

DbPurge(db) == [n \in DbKeys(db) |-> db[n]]

=============================================================================
