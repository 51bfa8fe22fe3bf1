------------------------------ MODULE Database ------------------------------
(***************************************************************************)
(* One Database object shared by threads (DB.cpp, DB.h).  Every operation  *)
(* locks dbMutex around its LevelDB call, but dbStatus and tmpValue are     *)
(* members too, and some operations read them after the unlock.            *)
(*                                                                         *)
(* The database is open.  LevelDB itself is external: a call takes effect  *)
(* at once or fails without effect, a Get of an absent key leaves the      *)
(* value buffer alone, and an iterator shows one snapshot.                 *)
(***************************************************************************)
CONSTANTS
    Threads, Keys, Values,
    Missing,    \* no value; also the empty string a failed get returns
    TornValue,  \* a string copied while another thread assigns it
    Free        \* no thread

ASSUME DbSentinelsAssumption ==
    /\ Missing \notin Values /\ TornValue \notin Values /\ Missing # TornValue /\ Free \notin Threads
    /\ "true" \notin Values \union {Missing, TornValue}

VARIABLES
    store,      \* what LevelDB holds
    dbMutex,    \* the thread that holds dbMutex
    dbStatus,   \* the status of the last LevelDB call that assigned it
    tmpValue,   \* the value buffer
    tpc, tcall, \* where each thread is and in which call
    answer,     \* what each thread's last call returned
    (* history *)
    effect,     \* what LevelDB did for each thread's call
    overlapped  \* another get ran between a get's LevelDB call and its return

shared == <<store, dbMutex, dbStatus, tmpValue>>
dbVars == <<shared, tpc, tcall, answer, effect, overlapped>>

Contents == [Keys -> Values \union {Missing}]
Idle == [op |-> "none"]
Calls == [op : {"get", "delete"}, key : Keys] \union [op : {"put"}, key : Keys, value : Values]
             \union [op : {"pairs", "drop"}]

DbTypeOK ==
    /\ store \in Contents
    /\ dbMutex \in Threads \union {Free}
    /\ dbStatus \in {"ok", "notFound", "error"}
    /\ tmpValue \in Values \union {Missing}
    /\ tpc \in [Threads -> {"idle", "lock", "body", "copy", "report"}]
    /\ tcall \in [Threads -> Calls \union {Idle}]
    /\ \A t \in Threads : tpc[t] # "idle" => tcall[t] \in Calls
    /\ answer \in [Threads -> Values \union {Missing, TornValue, "true", "false"}]
    /\ effect \in [Threads -> {"none", "done", "failed"} \X (Values \union {Missing})]
    /\ overlapped \in [Threads -> BOOLEAN]

\* The thread's LevelDB call may be assigning dbStatus, or tmpValue, right now.
AssignsStatus(t) == tpc[t] = "body" /\ tcall[t].op \in {"get", "put", "delete"}
AssignsValue(t) == tpc[t] = "body" /\ tcall[t].op = "get"

DbInit ==
    /\ store = [k \in Keys |-> Missing]
    /\ dbMutex = Free /\ dbStatus = "ok" /\ tmpValue = Missing
    /\ tpc = [t \in Threads |-> "idle"]
    /\ tcall = [t \in Threads |-> Idle]
    /\ answer = [t \in Threads |-> Missing]
    /\ effect = [t \in Threads |-> <<"none", Missing>>]
    /\ overlapped = [t \in Threads |-> FALSE]

Call(t, c) ==
    /\ tpc[t] = "idle"
    /\ tcall' = [tcall EXCEPT ![t] = c]
    /\ tpc' = [tpc EXCEPT ![t] = "lock"]
    /\ answer' = [answer EXCEPT ![t] = Missing]
    /\ effect' = [effect EXCEPT ![t] = <<"none", Missing>>]
    /\ overlapped' = [overlapped EXCEPT ![t] = FALSE]
    /\ UNCHANGED shared

Lock(t) ==
    /\ tpc[t] = "lock" /\ dbMutex = Free
    /\ dbMutex' = t
    /\ tpc' = [tpc EXCEPT ![t] = "body"]
    /\ UNCHANGED <<store, dbStatus, tmpValue, tcall, answer, effect, overlapped>>

\* The LevelDB call of t is made, with the mutex held, and the mutex unlocked.
Body(t, op, next) ==
    /\ tpc[t] = "body" /\ tcall[t].op = op
    /\ dbMutex' = Free
    /\ tpc' = [tpc EXCEPT ![t] = next]

\* getKeyValue: the key is absent, or the read fails; "" is returned (lines 47-51).
GetFails(t) ==
    /\ Body(t, "get", "idle")
    /\ dbStatus' \in IF store[tcall[t].key] = Missing THEN {"notFound", "error"} ELSE {"error"}
    /\ effect' = [effect EXCEPT ![t] = <<"failed", Missing>>]
    /\ overlapped' = [s \in Threads |-> overlapped[s] \/ tpc[s] = "copy"]
    /\ UNCHANGED <<store, tmpValue, tcall, answer>>

\* getKeyValue finds the key and unlocks (lines 47-52) ...
Get(t) ==
    /\ Body(t, "get", "copy")
    /\ store[tcall[t].key] # Missing
    /\ dbStatus' = "ok" /\ tmpValue' = store[tcall[t].key]
    /\ effect' = [effect EXCEPT ![t] = <<"done", tmpValue'>>]
    /\ overlapped' = [s \in Threads |-> overlapped[s] \/ (tpc[s] = "copy" /\ s # t)]
    /\ UNCHANGED <<store, tcall, answer>>

\* A defect: the buffer is emptied once it was copied, by whoever copies it.
GetCopyMoves(t) ==
    /\ tpc[t] = "copy"
    /\ answer' = [answer EXCEPT ![t] = Missing]
    /\ tpc' = [tpc EXCEPT ![t] = "idle"]
    /\ UNCHANGED <<shared, tcall, effect, overlapped>>

\* ... and then returns a copy of the shared buffer (line 53).
GetCopy(t) ==
    /\ tpc[t] = "copy"
    /\ \E v \in {tmpValue} \union (IF \E s \in Threads : AssignsValue(s) THEN {TornValue} ELSE {}) :
          answer' = [answer EXCEPT ![t] = v]
    /\ tpc' = [tpc EXCEPT ![t] = "idle"]
    /\ UNCHANGED <<shared, tcall, effect, overlapped>>

\* A defect: the value is stored under every key.
PutEverywhere(t) ==
    /\ Body(t, "put", "report")
    /\ store' = [k \in Keys |-> tcall[t].value]
    /\ dbStatus' = "ok"
    /\ effect' = [effect EXCEPT ![t] = <<"done", Missing>>]
    /\ UNCHANGED <<tmpValue, tcall, answer, overlapped>>

\* putKeyValue (lines 58-65), deleteKeyValue (lines 71-78).
Put(t) ==
    /\ Body(t, "put", "report")
    /\ store' = [store EXCEPT ![tcall[t].key] = tcall[t].value]
    /\ dbStatus' = "ok"
    /\ effect' = [effect EXCEPT ![t] = <<"done", Missing>>]
    /\ UNCHANGED <<tmpValue, tcall, answer, overlapped>>

Delete(t) ==
    /\ Body(t, "delete", "report")
    /\ store' = [store EXCEPT ![tcall[t].key] = Missing]
    /\ dbStatus' = "ok"
    /\ effect' = [effect EXCEPT ![t] = <<"done", Missing>>]
    /\ UNCHANGED <<tmpValue, tcall, answer, overlapped>>

\* A defect: a failed write goes on to the last line, which reads dbStatus again.
WriteFailsThrough(t) ==
    /\ \E op \in {"put", "delete"} : Body(t, op, "report")
    /\ dbStatus' = "error"
    /\ effect' = [effect EXCEPT ![t] = <<"failed", Missing>>]
    /\ UNCHANGED <<store, tmpValue, tcall, answer, overlapped>>

\* The write fails: false is returned at once (lines 59-64, 72-77).
WriteFails(t) ==
    /\ \E op \in {"put", "delete"} : Body(t, op, "idle")
    /\ dbStatus' = "error"
    /\ effect' = [effect EXCEPT ![t] = <<"failed", Missing>>]
    /\ answer' = [answer EXCEPT ![t] = "false"]
    /\ UNCHANGED <<store, tmpValue, tcall, overlapped>>

\* dbStatus.ok() is read again after the unlock (lines 66, 79).
Report(t) ==
    /\ tpc[t] = "report"
    /\ \E b \in {IF dbStatus = "ok" THEN "true" ELSE "false"}
                    \union (IF \E s \in Threads : AssignsStatus(s) THEN {"true", "false"} ELSE {}) :
          answer' = [answer EXCEPT ![t] = b]
    /\ tpc' = [tpc EXCEPT ![t] = "idle"]
    /\ UNCHANGED <<shared, tcall, effect, overlapped>>

\* keyExists, getAllKeys, getAllValues and getAllPairs walk an iterator with the mutex
\* held, and touch no member (lines 30-43, 82-116).
Pairs(t) ==
    /\ Body(t, "pairs", "idle")
    /\ effect' = [effect EXCEPT ![t] = <<"done", Missing>>]
    /\ UNCHANGED <<store, dbStatus, tmpValue, tcall, answer, overlapped>>

\* dropDatabase deletes what the iterator shows and looks at no status, so any of the
\* deletes may have failed (lines 118-126).
DropDatabase(t) ==
    /\ Body(t, "drop", "idle")
    /\ \E ks \in SUBSET Keys : store' = [k \in Keys |-> IF k \in ks THEN Missing ELSE store[k]]
    /\ effect' = [effect EXCEPT ![t] = <<"done", Missing>>]
    /\ UNCHANGED <<dbStatus, tmpValue, tcall, answer, overlapped>>

DbStep(t) ==
    \/ GetFails(t) \/ Get(t) \/ GetCopy(t)
    \/ Put(t) \/ Delete(t) \/ WriteFails(t) \/ Report(t)
    \/ Pairs(t) \/ DropDatabase(t)

DbNext == \E t \in Threads : Lock(t) \/ DbStep(t) \/ \E c \in Calls : Call(t, c)

DbSpec == DbInit /\ [][DbNext]_dbVars

----------------------------------------------------------------------------
\* Whatever the threads do, LevelDB sees a map that is put to, deleted from and
\* dropped, one operation after the other.
Map == INSTANCE KeyValueMap WITH map <- store
ImplementsMap == Map!Spec

\* A put or delete that returns true has taken effect, although the status it returns
\* may be another thread's: the first look at the status happens with the mutex held.
TrueMeansDone ==
    \A t \in Threads : tpc[t] = "idle" /\ answer[t] = "true" => effect[t][1] = "done"

\* What a get returns is what LevelDB read for it, or its bytes mixed with those another
\* get was just writing, unless another thread's get ran between its unlock and its
\* return.
GetReturnsItsRead ==
    \A t \in Threads :
        tpc[t] = "idle" /\ tcall[t].op = "get" /\ ~overlapped[t]
            => answer[t] \in {effect[t][2], TornValue}

=============================================================================
