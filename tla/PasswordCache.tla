--------------------------- MODULE PasswordCache ---------------------------
(***************************************************************************)
(* The "remember my password" feature of Wallet: storePassword,            *)
(* clearPassword, isPasswordStored and the detached threads that run       *)
(* passHandler (Wallet.cpp:329-345, Wallet.h:70-80).                       *)
(*                                                                         *)
(* One application thread calls the three methods; every timed             *)
(* storePassword starts one more detached handler thread.  The shared      *)
(* members _password and _passEnd have no lock, so each access is a step   *)
(* of its own and the threads interleave freely.                           *)
(***************************************************************************)
EXTENDS Integers

CONSTANTS
    Storable,     \* the passwords the application may store
    Empty,        \* the empty string
    Torn,         \* content of _password after two racing writes mixed
    Durations,    \* the values of the argument "seconds"
    Handlers,     \* one identity per detached thread the caller may start
    NoHandler,    \* no thread
    StoreUntil,   \* bound: no call is made after this time
    ClockLimit    \* bound: the last value of std::time

ASSUME SentinelsAssumption ==
    /\ Empty \notin Storable /\ Torn \notin Storable /\ Empty # Torn
    /\ NoHandler \notin Handlers
ASSUME TimesAssumption == Durations \subseteq Nat /\ StoreUntil \in Nat /\ ClockLimit \in Nat

VARIABLES
    now,        \* std::time(nullptr)
    password,   \* Wallet::_password
    passEnd,    \* Wallet::_passEnd
    cpc,        \* where the application thread is
    arg,        \* arguments of the call in progress
    raced,      \* a handler cleared _password while the call assigned it
    hpc,        \* where each handler thread is
    hnow,       \* each handler's local variable "now"
    last        \* history: what the last call asked for

cacheVars == <<now, password, passEnd, cpc, arg, raced, hpc, hnow, last>>

CallerPc == {"idle", "assigning", "setEnd", "spawn", "clearEnd"}
HandlerPc == {"unborn", "readNow", "test", "sleep", "clear", "reset", "done"}

\* A handler that may still touch the members of the wallet.
Alive(h) == hpc[h] \notin {"unborn", "done"}
\* A handler that has yet to clear the password.
WillClear(h) == hpc[h] \in {"readNow", "test", "sleep", "clear"}

\* The identity of the next detached thread.
NewHandler == CHOOSE h \in Handlers : hpc[h] = "unborn"

\* The parts of the history: the kind of the last call, whether it started with
\* no handler alive, the deadline it set, the thread it created, and whether the
\* call before it was clearPassword.
Kinds == {"none", "timed", "indefinite", "cleared"}

CacheTypeOK ==
    /\ now \in Nat
    /\ password \in Storable \union {Empty, Torn}
    /\ passEnd \in Nat
    /\ cpc \in CallerPc
    /\ arg \in [pw : Storable \union {Empty}, secs : Nat]
    /\ raced \in BOOLEAN
    /\ hpc \in [Handlers -> HandlerPc]
    /\ hnow \in [Handlers -> Nat]
    /\ last \in [kind : Kinds, solo : BOOLEAN, deadline : Nat,
                 keeper : Handlers \union {NoHandler}]

----------------------------------------------------------------------------
\* _passEnd is not initialised by the constructor: any value.
CacheInit ==
    /\ now = 0
    /\ password = Empty
    /\ passEnd \in {0, ClockLimit}
    /\ cpc = "idle"
    /\ arg = [pw |-> Empty, secs |-> 0]
    /\ raced = FALSE
    /\ hpc = [h \in Handlers |-> "unborn"]
    /\ hnow = [h \in Handlers |-> 0]
    /\ last = [kind |-> "none", solo |-> FALSE, deadline |-> 0, keeper |-> NoHandler]

\* storePassword is called: the assignment of _password begins (line 330).
StoreBegin(p, s) ==
    /\ cpc = "idle"
    /\ now <= StoreUntil
    /\ s > 0 => \E h \in Handlers : hpc[h] = "unborn"
    /\ arg' = [pw |-> p, secs |-> s]
    /\ raced' = FALSE
    /\ cpc' = "assigning"
    /\ last' = [last EXCEPT !.kind = IF s > 0 THEN "timed" ELSE "indefinite",
                            !.solo = \A h \in Handlers : ~Alive(h)]
    /\ UNCHANGED <<now, password, passEnd, hpc, hnow>>

\* The assignment ends.  If a handler cleared the same string meanwhile, the
\* length and the bytes may come from either write.
StoreAssign ==
    /\ cpc = "assigning"
    /\ password' \in IF raced THEN {Empty, arg.pw, Torn} ELSE {arg.pw}
    /\ cpc' = IF arg.secs > 0 THEN "setEnd" ELSE "idle"
    /\ UNCHANGED <<now, passEnd, arg, raced, hpc, hnow, last>>

\* _passEnd = std::time(nullptr) + seconds (line 332).
StoreSetEnd ==
    /\ cpc = "setEnd"
    /\ passEnd' = now + arg.secs
    /\ last' = [last EXCEPT !.deadline = now + arg.secs]
    /\ cpc' = "spawn"
    /\ UNCHANGED <<now, password, arg, raced, hpc, hnow>>

\* The handler thread is created and detached (lines 333-334).
StoreSpawn ==
    /\ cpc = "spawn"
    /\ \E h \in Handlers : hpc[h] = "unborn"
    /\ hpc' = [hpc EXCEPT ![NewHandler] = "readNow"]
    /\ last' = [last EXCEPT !.keeper = NewHandler]
    /\ cpc' = "idle"
    /\ UNCHANGED <<now, password, passEnd, arg, raced, hnow>>

\* clearPassword empties the password (line 339) ...
ClearBegin ==
    /\ cpc = "idle"
    /\ now <= StoreUntil
    /\ password' = Empty
    /\ cpc' = "clearEnd"
    /\ last' = [last EXCEPT !.kind = "cleared"]
    /\ UNCHANGED <<now, passEnd, arg, raced, hpc, hnow>>

\* ... and then zeroes the deadline so that the handler ends (line 340).
ClearEnd ==
    /\ cpc = "clearEnd"
    /\ passEnd' = 0
    /\ cpc' = "idle"
    /\ UNCHANGED <<now, password, arg, raced, hpc, hnow, last>>

----------------------------------------------------------------------------
\* passHandler: now = std::time(nullptr) (Wallet.h:73).
HandlerReadNow(h) ==
    /\ hpc[h] = "readNow"
    /\ hnow' = [hnow EXCEPT ![h] = now]
    /\ hpc' = [hpc EXCEPT ![h] = "test"]
    /\ UNCHANGED <<now, password, passEnd, cpc, arg, raced, last>>

\* A defect: the handler leaves its loop one second early.
HandlerTestEarly(h) ==
    /\ hpc[h] = "test"
    /\ hpc' = [hpc EXCEPT ![h] = IF hnow[h] + 1 >= passEnd THEN "clear" ELSE "sleep"]
    /\ hnow' = [hnow EXCEPT ![h] = 0]  \* the local goes out of scope
    /\ UNCHANGED <<now, password, passEnd, cpc, arg, raced, last>>

\* A defect: the loop ends in a return and not in a break.
HandlerTestReturns(h) ==
    /\ hpc[h] = "test"
    /\ hpc' = [hpc EXCEPT ![h] = IF hnow[h] >= passEnd THEN "done" ELSE "sleep"]
    /\ hnow' = [hnow EXCEPT ![h] = 0]
    /\ UNCHANGED <<now, password, passEnd, cpc, arg, raced, last>>

\* if (now >= _passEnd) break (Wallet.h:74).
HandlerTest(h) ==
    /\ hpc[h] = "test"
    /\ hpc' = [hpc EXCEPT ![h] = IF hnow[h] >= passEnd THEN "clear" ELSE "sleep"]
    /\ hnow' = [hnow EXCEPT ![h] = 0]  \* the local goes out of scope
    /\ UNCHANGED <<now, password, passEnd, cpc, arg, raced, last>>

\* The one-second sleep ends: after an arbitrary finite delay.
HandlerWake(h) ==
    /\ hpc[h] = "sleep"
    /\ hpc' = [hpc EXCEPT ![h] = "readNow"]
    /\ UNCHANGED <<now, password, passEnd, cpc, arg, raced, hnow, last>>

\* A defect: the handler ends without clearing the password.
HandlerClearSkipped(h) ==
    /\ hpc[h] = "clear"
    /\ hpc' = [hpc EXCEPT ![h] = "reset"]
    /\ UNCHANGED <<now, password, passEnd, cpc, arg, raced, hnow, last>>

\* _password.clear() (Wallet.h:77); it may overlap an assignment.
HandlerClear(h) ==
    /\ hpc[h] = "clear"
    /\ password' = Empty
    /\ raced' = (raced \/ cpc = "assigning")
    /\ hpc' = [hpc EXCEPT ![h] = "reset"]
    /\ UNCHANGED <<now, passEnd, cpc, arg, hnow, last>>

\* _passEnd = 0 (Wallet.h:78); the thread ends.
HandlerReset(h) ==
    /\ hpc[h] = "reset"
    /\ passEnd' = 0
    /\ hpc' = [hpc EXCEPT ![h] = "done"]
    /\ UNCHANGED <<now, password, cpc, arg, raced, hnow, last>>

\* The wall clock.  While a call is in progress it stops at StoreUntil, so
\* that every deadline lies below ClockLimit.
Tick ==
    /\ now < IF cpc = "idle" THEN ClockLimit ELSE StoreUntil
    /\ now' = now + 1
    /\ UNCHANGED <<password, passEnd, cpc, arg, raced, hpc, hnow, last>>

----------------------------------------------------------------------------
CallerStep == StoreAssign \/ StoreSetEnd \/ StoreSpawn \/ ClearEnd
CallerStart == ClearBegin \/ \E p \in Storable, s \in Durations : StoreBegin(p, s)
HandlerStep(h) ==
    \/ HandlerReadNow(h) \/ HandlerTest(h) \/ HandlerWake(h)
    \/ HandlerClear(h) \/ HandlerReset(h)

CacheNext == CallerStart \/ CallerStep \/ Tick \/ \E h \in Handlers : HandlerStep(h)

\* The clock advances and the operating system schedules every thread; nothing
\* makes the application call.
Fairness ==
    /\ SF_cacheVars(Tick)
    /\ WF_cacheVars(CallerStep)
    /\ \A h \in Handlers : WF_cacheVars(HandlerStep(h))

CacheSpec == CacheInit /\ [][CacheNext]_cacheVars /\ Fairness

----------------------------------------------------------------------------
\* A password stored for a limited time is never left without a thread that has
\* yet to clear it, whatever older threads and later calls did to the members it
\* shares with them.
TimedHasKeeper ==
    cpc = "idle" /\ last.kind = "timed" /\ password # Empty => WillClear(last.keeper)

\* A password stored when no older handler was alive is not forgotten before its
\* deadline: only passHandler's own break, at now >= _passEnd, leads to the clear.
KeptToDeadline ==
    [][ (/\ last.kind = "timed" /\ last.solo
         /\ cpc = "idle" /\ UNCHANGED cpc
         /\ password # Empty /\ password' = Empty)
        => now >= last.deadline ]_cacheVars

\* What makes TimedHasKeeper inductive: the history says of a call in progress
\* what its arguments say.
CallPhase ==
    /\ cpc = "assigning" /\ arg.secs = 0 => last.kind # "timed"
    /\ cpc = "clearEnd" => last.kind = "cleared"

\* What makes KeptToDeadline inductive: after a store that met no older handler,
\* only its own thread is alive, and that thread judges by its own deadline.
SoloStore ==
    last.kind = "timed" /\ last.solo =>
        /\ cpc \in {"assigning", "setEnd", "spawn"} => \A h \in Handlers : ~Alive(h)
        /\ cpc = "spawn" => passEnd = last.deadline
        /\ cpc = "idle" => \A h \in Handlers : Alive(h) =>
               /\ h = last.keeper
               /\ WillClear(h) => passEnd = last.deadline
               /\ hpc[h] = "test" => hnow[h] <= now
               /\ hpc[h] = "clear" => last.deadline <= now

\* A password stored for a limited time is forgotten in the end, unless a later
\* call replaced it by one to keep: no interleaving of handlers leaves it behind.
TimedIsForgotten ==
    (cpc = "idle" /\ last.kind = "timed" /\ password # Empty)
        ~> (password = Empty \/ last.kind # "timed")
=============================================================================
