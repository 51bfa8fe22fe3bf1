--------------------------- MODULE RequestsProofs ---------------------------
(* Proof that a request goes to one Provider, for any threads, calls, providers and     *)
(* errors: the lock has one holder, a Provider is whole except for the fields a change   *)
(* has yet to assign, and what a holder has copied under no change is all of it.  Then   *)
(* that an Error tells how its call ended, and that RPC lets through what is documented. *)
EXTENDS Requests, TLAPS

Types ==
    /\ provider \in [Fields -> Providers]
    /\ change.todo \in Todos
    /\ change.todo # <<>> => change \in [to : Providers, todo : Todos]
    /\ lock \in Threads \union {None}
    /\ pc \in [Threads -> States]
    /\ goal \in [Threads -> [Fields -> Providers \union {None, Mixed}]]
    /\ under \in [Threads -> Providers \union {None}]

OneHolder == \A t \in Threads : pc[t] \in Running <=> lock = t

\* The fields assigned so far are the new Provider's; between changes all are one's.
Whole ==
    /\ change.todo = <<>> => provider["host"] = provider["target"] /\ provider["host"] = provider["port"]
    /\ change.todo = <<"port">> => provider["host"] = change.to /\ provider["target"] = change.to
    /\ change.todo = <<"target", "port">> => provider["host"] = change.to

\* No change has begun under a holder that still counts on its Provider.
Still ==
    \A t \in Threads : lock = t /\ under[t] # None => change.todo = <<>> /\ provider["host"] = under[t]

Copied(at) ==
    CASE at = "target" -> {"host"}
      [] at = "port" -> {"host", "target"}
      [] at \in {"unlock", "post"} -> Fields
      [] OTHER -> {}

CopiesAgree ==
    \A t \in Threads : under[t] # None => \A f \in Copied(pc[t]) : goal[t][f] = under[t]

IInv == Types /\ OneHolder /\ Whole /\ Still /\ CopiesAgree

LEMMA InitIInv == Init => IInv
<1> SUFFICES ASSUME Init PROVE IInv
  OBVIOUS
<1>1. Types
  BY SentinelsAssumption DEF Init, Types, Fields, States, Todos
<1>2. OneHolder
  BY SentinelsAssumption DEF Init, OneHolder, Running, Fields
<1>3. Whole
  BY DEF Init, Whole, Fields
<1>4. Still /\ CopiesAgree
  BY DEF Init, Still, CopiesAgree
<1> QED BY <1>1, <1>2, <1>3, <1>4 DEF IInv

\* A step of one thread outside HTTPRequest disturbs nothing the invariant looks at.
LEMMA Outside ==
  ASSUME IInv, NEW t \in Threads, Start(t) \/ Build(t)
  PROVE  IInv'
<1>1. /\ \E at \in {"started", "built", "request", "refused"} : pc' = [pc EXCEPT ![t] = at]
      /\ pc[t] \in {"idle", "started"}
      /\ UNCHANGED <<copying, setting>>
  <2>1. CASE Start(t)
    BY <2>1 DEF Start
  <2>2. CASE Build(t)
    <3> DEFINE at == CASE request[t].via = "rpc" -> "built"
                       [] request[t].via = "account" \/ Told(t).code = 0 -> "request"
                       [] OTHER -> "refused"
    <3>1. pc' = [pc EXCEPT ![t] = at] /\ pc[t] = "started" /\ UNCHANGED <<copying, setting>>
      BY <2>2 DEF Build
    <3>2. at \in {"built", "request", "refused"}
      OBVIOUS
    <3> HIDE DEF at
    <3> QED BY <3>1, <3>2
  <2> QED BY <2>1, <2>2
<1>2. PICK at \in {"started", "built", "request", "refused"} : pc' = [pc EXCEPT ![t] = at]
  BY <1>1
<1>3. /\ \A u \in Threads : pc'[u] = IF u = t THEN at ELSE pc[u]
      /\ UNCHANGED <<provider, change, lock, goal, under>>
  BY <1>1, <1>2 DEF IInv, Types, copying, setting
<1>4. Types'
  BY <1>2, <1>3 DEF IInv, Types, States
<1>5. OneHolder'
  BY <1>1, <1>2, <1>3 DEF IInv, OneHolder, Running, Fields
<1>6. Whole' /\ Still'
  BY <1>3 DEF IInv, Whole, Still
<1>7. CopiesAgree'
  BY <1>3 DEF IInv, CopiesAgree, Copied
<1> QED BY <1>4, <1>5, <1>6, <1>7 DEF IInv

LEMMA LockKeeps ==
  ASSUME IInv, NEW t \in Threads, Lock(t)
  PROVE  IInv'
<1>1. /\ \A u \in Threads : pc'[u] = IF u = t THEN "host" ELSE pc[u]
      /\ \A u \in Threads : under'[u] =
            IF u = t THEN IF change.todo = <<>> THEN provider["host"] ELSE None ELSE under[u]
      /\ pc[t] = "request" /\ lock = None /\ lock' = t
      /\ UNCHANGED <<provider, change, goal>>
  BY DEF IInv, Types, Lock, setting
<1>2. Types'
  BY <1>1 DEF IInv, Types, Lock, States, Running, Fields
<1>3. OneHolder'
  BY <1>1, SentinelsAssumption DEF IInv, OneHolder, Running, Fields
<1>4. Whole' /\ Still'
  BY <1>1, SentinelsAssumption DEF IInv, Whole, Still
<1>5. CopiesAgree'
  BY <1>1 DEF IInv, CopiesAgree, Copied
<1> QED BY <1>2, <1>3, <1>4, <1>5 DEF IInv

LEMMA CopyKeeps ==
  ASSUME IInv, NEW t \in Threads, Copy(t)
  PROVE  IInv'
<1> DEFINE f == pc[t]
<1>1. PICK v \in Seen(f) : goal' = [goal EXCEPT ![t][f] = v]
  BY DEF Copy
<1>2. /\ f \in Fields
      /\ \A u \in Threads : pc'[u] = IF u = t THEN AfterCopy[f] ELSE pc[u]
      /\ UNCHANGED <<provider, change, lock, under>>
  BY DEF IInv, Types, Copy, setting
<1>3. AfterCopy[f] \in Running /\ AfterCopy[f] # "host"
  BY <1>2 DEF AfterCopy, Fields, Running
<1>4. v \in Providers \union {Mixed}
  BY <1>2 DEF Seen, IInv, Types
<1>5. goal' \in [Threads -> [Fields -> Providers \union {None, Mixed}]]
  BY <1>1, <1>2, <1>4 DEF IInv, Types
<1>6. Types'
  <2>1. pc' \in [Threads -> States]
    BY <1>3 DEF IInv, Types, Copy, States
  <2> QED BY <1>2, <1>5, <2>1 DEF IInv, Types
<1>7. OneHolder'
  BY <1>2, <1>3 DEF IInv, OneHolder, Running
<1>8. Whole' /\ Still'
  BY <1>2 DEF IInv, Whole, Still
<1>9. CopiesAgree'
  <2> SUFFICES ASSUME NEW u \in Threads, under[u] # None, NEW g \in Copied(pc'[u])
               PROVE  goal'[u][g] = under[u]
    BY <1>2 DEF CopiesAgree
  <2>1. CASE u # t
    BY <2>1, <1>1, <1>2 DEF IInv, Types, CopiesAgree
  <2>2. CASE u = t
    <3>1. lock = t /\ change.todo = <<>> /\ provider["host"] = under[t]
      BY <2>2, <1>2 DEF IInv, OneHolder, Still, Running
    <3>2. v = under[t]
      BY <3>1, <1>2 DEF Seen, IInv, Whole, Fields
    <3>3. g = f \/ g \in Copied(f)
      BY <2>2, <1>2 DEF Copied, AfterCopy, Fields
    <3>4. g \in Fields
      BY DEF Copied, Fields
    <3>5. CASE g = f
      BY <3>2, <3>4, <3>5, <1>1, <2>2 DEF IInv, Types
    <3>6. CASE g # f
      <4>1. goal[t][g] = under[t]
        BY <3>3, <3>6, <2>2 DEF IInv, CopiesAgree
      <4> QED BY <4>1, <3>4, <3>6, <1>1, <2>2 DEF IInv, Types
    <3> QED BY <3>5, <3>6
  <2> QED BY <2>1, <2>2
<1> QED BY <1>6, <1>7, <1>8, <1>9 DEF IInv

LEMMA UnlockKeeps ==
  ASSUME IInv, NEW t \in Threads, Unlock(t)
  PROVE  IInv'
<1>1. /\ \A u \in Threads : pc'[u] = IF u = t THEN "post" ELSE pc[u]
      /\ pc[t] = "unlock" /\ lock' = None
      /\ UNCHANGED <<provider, change, goal, under>>
  BY DEF IInv, Types, Unlock, setting
<1>2. Types'
  BY <1>1 DEF IInv, Types, Unlock, States
<1>3. OneHolder'
  BY <1>1, SentinelsAssumption DEF IInv, OneHolder, Running, Fields
<1>4. Whole' /\ Still'
  BY <1>1, SentinelsAssumption DEF IInv, Whole, Still
<1>5. CopiesAgree'
  BY <1>1 DEF IInv, CopiesAgree, Copied
<1> QED BY <1>2, <1>3, <1>4, <1>5 DEF IInv

LEMMA PostKeeps ==
  ASSUME IInv, NEW t \in Threads, Post(t)
  PROVE  IInv'
<1>1. /\ \E at \in {"returned", "threw"} : pc' = [pc EXCEPT ![t] = at]
      /\ pc[t] = "post"
      /\ goal' = [goal EXCEPT ![t] = [f \in Fields |-> None]]
      /\ under' = [under EXCEPT ![t] = None]
      /\ UNCHANGED <<provider, change, lock>>
  BY DEF Post, Ending, Forget, setting
<1>2. PICK at \in {"returned", "threw"} : pc' = [pc EXCEPT ![t] = at]
  BY <1>1
<1>3. \A u \in Threads : /\ pc'[u] = IF u = t THEN at ELSE pc[u]
                         /\ under'[u] = IF u = t THEN None ELSE under[u]
                         /\ u # t => goal'[u] = goal[u]
  BY <1>1, <1>2 DEF IInv, Types
<1>4. Types'
  BY <1>1, <1>2 DEF IInv, Types, States
<1>5. OneHolder'
  BY <1>1, <1>2, <1>3 DEF IInv, OneHolder, Running, Fields
<1>6. Whole' /\ Still'
  BY <1>1, <1>3 DEF IInv, Whole, Still
<1>7. CopiesAgree'
  BY <1>3 DEF IInv, CopiesAgree
<1> QED BY <1>4, <1>5, <1>6, <1>7 DEF IInv

LEMMA BeginChangeKeeps ==
  ASSUME IInv, BeginChange
  PROVE  IInv'
<1>1. PICK p \in Providers : change' = [to |-> p, todo |-> <<"host", "target", "port">>]
  BY DEF BeginChange
<1>2. /\ \A t \in Threads : under'[t] = IF lock = t THEN None ELSE under[t]
      /\ UNCHANGED <<provider, lock, pc, goal>>
  BY DEF BeginChange, asking
<1>3. Types'
  BY <1>1, <1>2 DEF IInv, Types, Todos, BeginChange
<1>4. OneHolder' /\ Whole' /\ Still'
  BY <1>1, <1>2 DEF IInv, OneHolder, Whole, Still
<1>5. CopiesAgree'
  BY <1>2 DEF IInv, CopiesAgree
<1> QED BY <1>3, <1>4, <1>5 DEF IInv

LEMMA AssignKeeps ==
  ASSUME IInv, Assign
  PROVE  IInv'
<1>1. /\ change.todo # <<>> /\ change \in [to : Providers, todo : Todos]
      /\ UNCHANGED <<lock, pc, goal, under>>
  BY DEF IInv, Types, Assign, asking, copying
<1>2. /\ provider' = [provider EXCEPT ![Head(change.todo)] = change.to]
      /\ change' = [change EXCEPT !.todo = Tail(change.todo)]
  BY DEF Assign
<1> DEFINE f == Head(change.todo)
           rest == Tail(change.todo)
<1>3. \/ change.todo = <<"port">> /\ f = "port" /\ rest = <<>>
      \/ change.todo = <<"target", "port">> /\ f = "target" /\ rest = <<"port">>
      \/ change.todo = <<"host", "target", "port">> /\ f = "host" /\ rest = <<"target", "port">>
  <2>1. change.todo \in Todos
    BY <1>1
  <2>2. CASE change.todo = <<"port">>
    BY <2>2
  <2>3. CASE change.todo = <<"target", "port">>
    BY <2>3
  <2>4. CASE change.todo = <<"host", "target", "port">>
    BY <2>4
  <2> QED BY <1>1, <2>1, <2>2, <2>3, <2>4 DEF Todos
<1>4. f \in Fields /\ rest \in Todos
  BY <1>3 DEF Fields, Todos
<1>5. change'.to = change.to /\ change'.todo = rest /\ change.to \in Providers
      /\ change' \in [to : Providers, todo : Todos]
  BY <1>1, <1>2, <1>4
<1>6. \A g \in Fields : provider'[g] = IF g = f THEN change.to ELSE provider[g]
  BY <1>2 DEF IInv, Types
<1> HIDE DEF f, rest
<1>7. Types'
  <2>1. provider' \in [Fields -> Providers]
    BY <1>2, <1>5 DEF IInv, Types, f
  <2> QED BY <1>1, <1>4, <1>5, <2>1 DEF IInv, Types
<1>8. Whole'
  BY <1>3, <1>5, <1>6 DEF IInv, Whole, Fields
<1>9. OneHolder' /\ CopiesAgree'
  BY <1>1 DEF IInv, OneHolder, CopiesAgree
<1>10. Still'
  BY <1>1 DEF IInv, Still
<1> QED BY <1>7, <1>8, <1>9, <1>10 DEF IInv

LEMMA StutterKeeps ==
  ASSUME IInv, UNCHANGED vars
  PROVE  IInv'
BY DEF IInv, Types, OneHolder, Whole, Still, CopiesAgree, vars, asking, copying, setting

LEMMA NextIInv == IInv /\ [Next]_vars => IInv'
BY Outside, LockKeeps, CopyKeeps, UnlockKeeps, PostKeeps, BeginChangeKeeps, AssignKeeps,
   StutterKeeps DEF Next

LEMMA IInvHolds == IInv => PostsToOneProvider
<1> SUFFICES ASSUME IInv, NEW t \in Threads, pc[t] = "post", under[t] # None
             PROVE  goal[t] = [f \in Fields |-> under[t]]
  BY DEF PostsToOneProvider
<1>1. \A f \in Fields : goal[t][f] = under[t]
  BY DEF IInv, CopiesAgree, Copied
<1> QED BY <1>1 DEF IInv, Types

\* The Provider, the change under way, the lock with its one holder and the copies keep their
\* types in HTTPRequest and setProvider, for any threads, providers and calls.
THEOREM TypeCorrect == Spec => []TypeOK
<1>1. IInv => TypeOK
  BY DEF IInv, Types, OneHolder, TypeOK
<1> QED BY <1>1, InitIInv, NextIInv, PTL DEF Spec

\* Whatever threads, calls, answers and changes there are, a request whose time under the
\* lock met no change of Provider goes to the host, target and port of the one there was.
THEOREM OneProviderAlways == Spec => []PostsToOneProvider
<1> QED BY InitIInv, NextIInv, IInvHolds, PTL DEF Spec

----------------------------------------------------------------------------
(* An Error of one call only is set by that call: the others write to Errors *)
(* whose users they are themselves.                                          *)

Active == Running \union {"started", "request", "post"}

ErrorTypes ==
    /\ pc \in [Threads -> States]
    /\ error \in [Threads -> Errors \union {None}]
    /\ DOMAIN request = Threads /\ DOMAIN answer = Threads /\ DOMAIN errors = Errors
    /\ \A e \in Errors : errors[e].isSet \in BOOLEAN
    /\ users \in [Errors -> SUBSET (Threads \X Vias)]

Unstarted == \A t \in Threads : pc[t] = "idle" => \A e \in Errors : \A v \in Vias : <<t, v>> \notin users[e]

UsesItsError ==
    \A t \in Threads : pc[t] \in Active /\ request[t].via \in {"wallet", "rpc"} =>
        error[t] \in Errors /\ <<t, request[t].via>> \in users[error[t]]

UsesOneError ==
    \A t \in Threads : pc[t] \in Active =>
        \A e \in Errors : \A v \in Vias : <<t, v>> \in users[e] => v = request[t].via /\ e = error[t]

UnusedIsUnset == \A e \in Errors : users[e] = {} => ~errors[e].isSet

EInv == ErrorTypes /\ Unstarted /\ UsesItsError /\ UsesOneError /\ UnusedIsUnset /\ ErrorIsOutcome

LEMMA InitEInv == Init => EInv
<1> SUFFICES ASSUME Init PROVE EInv
  OBVIOUS
<1>1. ErrorTypes
  BY DEF Init, ErrorTypes, States
<1>2. Unstarted /\ UsesItsError /\ UsesOneError /\ UnusedIsUnset
  BY DEF Init, Unstarted, UsesItsError, UsesOneError, UnusedIsUnset, Active, Running, Fields
<1>3. ErrorIsOutcome
  BY DEF Init, ErrorIsOutcome
<1> QED BY <1>1, <1>2, <1>3 DEF EInv

LEMMA StartKeepsErrors ==
  ASSUME EInv, NEW t \in Threads, Start(t)
  PROVE  EInv'
<1>1. PICK c \in CallsOf[t] : \E e \in IF c.via \in {"wallet", "rpc"} THEN Errors ELSE {None} :
        /\ request' = [request EXCEPT ![t] =
                [via |-> c.via, method |-> c.method, args |-> PassedOn(WithBlock(c))]]
        /\ error' = [error EXCEPT ![t] = e]
        /\ users' = [d \in Errors |-> IF d = e THEN users[d] \union {<<t, c.via>>} ELSE users[d]]
  BY DEF Start
<1>2. PICK e \in IF c.via \in {"wallet", "rpc"} THEN Errors ELSE {None} :
        /\ request' = [request EXCEPT ![t] =
                [via |-> c.via, method |-> c.method, args |-> PassedOn(WithBlock(c))]]
        /\ error' = [error EXCEPT ![t] = e]
        /\ users' = [d \in Errors |-> IF d = e THEN users[d] \union {<<t, c.via>>} ELSE users[d]]
  BY <1>1
<1>3. c.via \in Vias
  BY CallsAssumption DEF Calls
<1>4. /\ pc[t] = "idle" /\ UNCHANGED <<answer, errors>>
      /\ pc' = [pc EXCEPT ![t] = "started"]
      /\ \A u \in Threads : /\ pc'[u] = IF u = t THEN "started" ELSE pc[u]
                            /\ error'[u] = IF u = t THEN e ELSE error[u]
                            /\ u # t => request'[u] = request[u]
      /\ request'[t].via = c.via
  BY <1>2 DEF Start, EInv, ErrorTypes
<1>5. \A d \in Errors : users'[d] = IF d = e THEN users[d] \union {<<t, c.via>>} ELSE users[d]
  BY <1>2
<1>6. e \in Errors <=> c.via \in {"wallet", "rpc"}
  BY <1>2, SentinelsAssumption
<1>7. \A d \in Errors : \A v \in Vias : <<t, v>> \notin users[d]
  BY <1>4 DEF EInv, Unstarted
<1> DEFINE Uses(u, v, d) == <<u, v>> \in users[d]
           UsesNow(u, v, d) == <<u, v>> \in users'[d]
<1>now. \A u \in Threads, v \in Vias, d \in Errors :
         UsesNow(u, v, d) <=> Uses(u, v, d) \/ (u = t /\ v = c.via /\ d = e)
  <2> SUFFICES ASSUME NEW u \in Threads, NEW v \in Vias, NEW d \in Errors
               PROVE  UsesNow(u, v, d) <=> Uses(u, v, d) \/ (u = t /\ v = c.via /\ d = e)
    OBVIOUS
  <2>1. <<u, v>> = <<t, c.via>> <=> u = t /\ v = c.via
    OBVIOUS
  <2> QED BY <2>1, <1>5
<1>fresh. \A v \in Vias, d \in Errors : ~Uses(t, v, d)
  BY <1>7
<1>8. ErrorTypes'
  BY <1>2, <1>3, <1>4, <1>5 DEF EInv, ErrorTypes, States
<1>9. Unstarted'
  <2>1. \A u \in Threads, v \in Vias, d \in Errors : pc[u] = "idle" => ~Uses(u, v, d)
    BY DEF EInv, Unstarted
  <2> HIDE DEF Uses
  <2>2. \A u \in Threads, v \in Vias, d \in Errors : pc'[u] = "idle" => ~UsesNow(u, v, d)
    BY <2>1, <1>4, <1>now
  <2> QED BY <2>2 DEF Unstarted
<1>10. UsesItsError'
  <2>1. \A u \in Threads : pc[u] \in Active /\ request[u].via \in {"wallet", "rpc"} =>
          error[u] \in Errors /\ Uses(u, request[u].via, error[u])
    BY DEF EInv, UsesItsError
  <2> HIDE DEF Uses, UsesNow
  <2>2. \A u \in Threads : pc'[u] \in Active /\ request'[u].via \in {"wallet", "rpc"} =>
          error'[u] \in Errors /\ UsesNow(u, request'[u].via, error'[u])
    <3> SUFFICES ASSUME NEW u \in Threads, pc'[u] \in Active, request'[u].via \in {"wallet", "rpc"}
                 PROVE  error'[u] \in Errors /\ UsesNow(u, request'[u].via, error'[u])
      OBVIOUS
    <3>1. CASE u = t
      BY <3>1, <1>3, <1>4, <1>6, <1>now
    <3>2. CASE u # t
      BY <3>2, <2>1, <1>4, <1>now DEF Vias
    <3> QED BY <3>1, <3>2
  <2> QED BY <2>2 DEF UsesItsError, UsesNow
<1>11. UsesOneError'
  <2>1. \A u \in Threads : pc[u] \in Active =>
          \A d \in Errors, v \in Vias : Uses(u, v, d) => v = request[u].via /\ d = error[u]
    BY DEF EInv, UsesOneError
  <2> HIDE DEF Uses, UsesNow
  <2>2. \A u \in Threads : pc'[u] \in Active =>
          \A d \in Errors, v \in Vias : UsesNow(u, v, d) => v = request'[u].via /\ d = error'[u]
    BY <2>1, <1>4, <1>now, <1>fresh
  <2> QED BY <2>2 DEF UsesOneError, UsesNow
<1>12. UnusedIsUnset'
  BY <1>4, <1>5 DEF EInv, UnusedIsUnset
<1>13. ErrorIsOutcome'
  <2> SUFFICES ASSUME NEW u \in Threads, NEW d \in Errors, users'[d] = {<<u, "wallet">>}
               PROVE  CASE pc'[u] = "returned" ->
                            errors'[d] = [isSet |-> TRUE, code |-> IF answer'[u] = "result" THEN 0 ELSE 13]
                        [] pc'[u] = "refused" -> errors'[d].isSet /\ errors'[d].code # 0
                        [] OTHER -> ~errors'[d].isSet
    BY DEF ErrorIsOutcome
  <2>1. CASE d = e
    <3>1. u = t
      <4>1. <<t, c.via>> = <<u, "wallet">>
        BY <2>1, <1>5
      <4> QED BY <4>1
    <3>2. users[d] \subseteq {<<t, "wallet">>} /\ <<t, "wallet">> \notin users[d]
      BY <2>1, <3>1, <1>5, <1>7 DEF Vias
    <3>3. ~errors[d].isSet
      BY <3>2 DEF EInv, UnusedIsUnset
    <3> QED BY <3>1, <3>3, <1>4
  <2>2. CASE d # e
    <3>1. users[d] = {<<u, "wallet">>} /\ u # t
      BY <2>2, <1>5, <1>7 DEF Vias
    <3> QED BY <3>1, <1>4 DEF EInv, ErrorIsOutcome
  <2> QED BY <2>1, <2>2
<1> QED BY <1>8, <1>9, <1>10, <1>11, <1>12, <1>13 DEF EInv

\* A step of a call under way writes to its own Error at most, and says how it ended.
LEMMA CallKeepsErrors ==
  ASSUME EInv, NEW t \in Threads, NEW at \in States \ {"idle"},
         pc[t] \in Active,
         pc' = [pc EXCEPT ![t] = at],
         UNCHANGED <<error, users>>,
         DOMAIN request' = Threads, DOMAIN answer' = Threads, DOMAIN errors' = Errors,
         \A u \in Threads \ {t} : request'[u] = request[u] /\ answer'[u] = answer[u],
         at \in Active => request'[t] = request[t],
         \A e \in Errors : errors'[e].isSet \in BOOLEAN,
         \A e \in Errors : errors'[e] # errors[e] =>
            e = error[t] /\ request[t].via \in {"wallet", "rpc"},
         \A e \in Errors : users[e] = {<<t, "wallet">>} =>
            CASE at = "returned" ->
                    errors'[e] = [isSet |-> TRUE, code |-> IF answer'[t] = "result" THEN 0 ELSE 13]
              [] at = "refused" -> errors'[e].isSet /\ errors'[e].code # 0
              [] OTHER -> ~errors'[e].isSet
  PROVE  EInv'
<1>1. \A u \in Threads : pc'[u] = IF u = t THEN at ELSE pc[u]
  BY DEF EInv, ErrorTypes
<1>2. ErrorTypes'
  BY DEF EInv, ErrorTypes
<1>3. Unstarted' /\ UsesItsError' /\ UsesOneError'
  BY <1>1 DEF EInv, Unstarted, UsesItsError, UsesOneError
<1>4. \A e \in Errors : errors'[e] # errors[e] => <<t, request[t].via>> \in users[e]
  BY DEF EInv, UsesItsError
<1>5. UnusedIsUnset'
  BY <1>4 DEF EInv, UnusedIsUnset
<1>6. ErrorIsOutcome'
  <2> SUFFICES ASSUME NEW u \in Threads, NEW e \in Errors, users'[e] = {<<u, "wallet">>}
               PROVE  CASE pc'[u] = "returned" ->
                            errors'[e] = [isSet |-> TRUE, code |-> IF answer'[u] = "result" THEN 0 ELSE 13]
                        [] pc'[u] = "refused" -> errors'[e].isSet /\ errors'[e].code # 0
                        [] OTHER -> ~errors'[e].isSet
    BY DEF ErrorIsOutcome
  <2>1. CASE u = t
    BY <2>1, <1>1
  <2>2. CASE u # t
    <3>1. errors'[e] = errors[e]
      BY <2>2, <1>4
    <3> QED BY <2>2, <3>1, <1>1 DEF EInv, ErrorIsOutcome
  <2> QED BY <2>1, <2>2
<1> QED BY <1>2, <1>3, <1>5, <1>6 DEF EInv

LEMMA BuildKeepsErrors ==
  ASSUME EInv, NEW t \in Threads, Build(t)
  PROVE  EInv'
<1> DEFINE at == CASE request[t].via = "rpc" -> "built"
                   [] request[t].via = "account" \/ Told(t).code = 0 -> "request"
                   [] OTHER -> "refused"
<1>1. /\ pc' = [pc EXCEPT ![t] = at] /\ pc[t] = "started"
      /\ UNCHANGED <<error, users, request, answer>>
  BY DEF Build
<1>2. at \in {"built", "request", "refused"}
  OBVIOUS
<1>3. error[t] \in Errors \/ request[t].via \notin {"wallet", "rpc"}
  BY <1>1 DEF EInv, UsesItsError, Active
<1>4. DOMAIN errors' = Errors
  BY DEF Build, EInv, ErrorTypes
<1>5. \A e \in Errors :
        errors'[e] = IF e # error[t] THEN errors[e]
                     ELSE IF request[t].via = "rpc" THEN Told(t)
                     ELSE IF request[t].via = "wallet" /\ Told(t).code # 0
                          THEN SetCode(errors[e], Told(t).code) ELSE errors[e]
  BY DEF Build, EInv, ErrorTypes
<1>6. request[t].via = "rpc" => Told(t).isSet \in BOOLEAN
  BY <1>3 DEF Told, SetCode, EInv, ErrorTypes
<1>7. \A e \in Errors : errors'[e].isSet \in BOOLEAN
  <2> SUFFICES ASSUME NEW e \in Errors PROVE errors'[e].isSet \in BOOLEAN
    OBVIOUS
  <2>1. errors[e].isSet \in BOOLEAN /\ SetCode(errors[e], Told(t).code).isSet \in BOOLEAN
    BY DEF SetCode, EInv, ErrorTypes
  <2>2. errors'[e] \in {errors[e], SetCode(errors[e], Told(t).code)}
        \/ (errors'[e] = Told(t) /\ request[t].via = "rpc")
    BY <1>5
  <2> QED BY <1>6, <2>1, <2>2
<1>8. \A e \in Errors : users[e] = {<<t, "wallet">>} =>
        /\ request[t].via = "wallet" /\ e = error[t]
        /\ ~errors[e].isSet
  <2> SUFFICES ASSUME NEW e \in Errors, users[e] = {<<t, "wallet">>}
               PROVE  /\ request[t].via = "wallet" /\ e = error[t]
                      /\ ~errors[e].isSet
    OBVIOUS
  <2>1. <<t, "wallet">> \in users[e] /\ "wallet" \in Vias /\ pc[t] \in Active
    BY <1>1 DEF Vias, Active
  <2> QED BY <1>1, <2>1 DEF EInv, UsesOneError, ErrorIsOutcome
<1>9. \A e \in Errors : users[e] = {<<t, "wallet">>} =>
        CASE at = "returned" ->
                errors'[e] = [isSet |-> TRUE, code |-> IF answer'[t] = "result" THEN 0 ELSE 13]
          [] at = "refused" -> errors'[e].isSet /\ errors'[e].code # 0
          [] OTHER -> ~errors'[e].isSet
  BY <1>5, <1>8 DEF SetCode
<1>10. \A e \in Errors : errors'[e] # errors[e] => e = error[t] /\ request[t].via \in {"wallet", "rpc"}
  BY <1>5
<1> HIDE DEF at
<1> QED
  BY <1>1, <1>2, <1>4, <1>7, <1>9, <1>10, CallKeepsErrors DEF States, Active, EInv, ErrorTypes

LEMMA RequestKeepsErrors ==
  ASSUME EInv, NEW t \in Threads, Lock(t) \/ Copy(t) \/ Unlock(t)
  PROVE  EInv'
<1>1. \E at \in Running \union {"post"} : pc' = [pc EXCEPT ![t] = at]
  BY DEF Lock, Copy, Unlock, AfterCopy, Running, Fields
<1>2. PICK at \in Running \union {"post"} : pc' = [pc EXCEPT ![t] = at]
  BY <1>1
<1>3. pc[t] \in Active /\ UNCHANGED <<error, users, request, answer, errors>>
  BY DEF Lock, Copy, Unlock, Active, Running
<1>4. at \in States \ {"idle", "returned", "refused"}
  BY <1>2 DEF States, Running, Fields
<1>5. pc[t] \notin {"returned", "refused"}
  BY <1>3 DEF Active, Running, Fields
<1>6. \A e \in Errors : users[e] = {<<t, "wallet">>} => ~errors[e].isSet
  BY <1>5 DEF EInv, ErrorIsOutcome
<1> QED BY <1>2, <1>3, <1>4, <1>6, CallKeepsErrors DEF EInv, ErrorTypes

LEMMA PostKeepsErrors ==
  ASSUME EInv, NEW t \in Threads, Post(t)
  PROVE  EInv'
<1>1. PICK a \in {"result", "error", "garbage", "unreachable"} :
        /\ answer' = [answer EXCEPT ![t] = a]
        /\ errors' = Reported(t, a)
        /\ pc' = [pc EXCEPT ![t] = Ending(t, a)]
  BY DEF Post
<1> DEFINE at == Ending(t, a)
<1>2. pc[t] = "post" /\ UNCHANGED <<error, users>> /\ request' = [request EXCEPT ![t] = Nothing]
  BY DEF Post, Forget
<1>3. \A e \in Errors :
        errors'[e] = IF e = error[t] /\ request[t].via = "wallet" /\ a \in {"result", "error"}
                     THEN SetCode(errors[e], IF a = "error" THEN 13 ELSE 0) ELSE errors[e]
  BY <1>1 DEF Reported, EInv, ErrorTypes
<1>4. \A e \in Errors : users[e] = {<<t, "wallet">>} =>
        request[t].via = "wallet" /\ e = error[t] /\ ~errors[e].isSet
  <2> SUFFICES ASSUME NEW e \in Errors, users[e] = {<<t, "wallet">>}
               PROVE  request[t].via = "wallet" /\ e = error[t] /\ ~errors[e].isSet
    OBVIOUS
  <2>1. <<t, "wallet">> \in users[e] /\ "wallet" \in Vias /\ pc[t] \in Active
    BY <1>2 DEF Vias, Active
  <2> QED BY <1>2, <2>1 DEF EInv, UsesOneError, ErrorIsOutcome
<1>5. answer'[t] = a
  BY <1>1 DEF EInv, ErrorTypes
<1>6. \A e \in Errors : users[e] = {<<t, "wallet">>} =>
        CASE at = "returned" ->
                errors'[e] = [isSet |-> TRUE, code |-> IF answer'[t] = "result" THEN 0 ELSE 13]
          [] at = "refused" -> errors'[e].isSet /\ errors'[e].code # 0
          [] OTHER -> ~errors'[e].isSet
  BY <1>3, <1>4, <1>5 DEF SetCode, Ending
<1>7. /\ \A e \in Errors : errors'[e].isSet \in BOOLEAN
      /\ DOMAIN errors' = Errors
      /\ \A e \in Errors : errors'[e] # errors[e] => e = error[t] /\ request[t].via \in {"wallet", "rpc"}
  BY <1>1, <1>3 DEF Reported, SetCode, EInv, ErrorTypes
<1>8. at \in {"returned", "threw"} /\ pc' = [pc EXCEPT ![t] = at]
  BY <1>1 DEF Ending
<1> HIDE DEF at
<1>9. at \in States \ {"idle"} /\ at \notin Active /\ pc[t] \in Active
  BY <1>2, <1>8 DEF States, Active, Running, Fields
<1>10. /\ DOMAIN request' = Threads /\ DOMAIN answer' = Threads
       /\ \A u \in Threads \ {t} : request'[u] = request[u] /\ answer'[u] = answer[u]
  BY <1>1, <1>2 DEF EInv, ErrorTypes
<1> QED BY <1>2, <1>6, <1>7, <1>8, <1>9, <1>10, CallKeepsErrors

LEMMA NextEInv == EInv /\ [Next]_vars => EInv'
<1>1. ASSUME EInv, BeginChange \/ Assign \/ UNCHANGED vars PROVE EInv'
  <2>1. UNCHANGED asking
    BY <1>1 DEF BeginChange, Assign, vars
  <2> QED
    BY <1>1, <2>1 DEF asking, EInv, ErrorTypes, Unstarted, UsesItsError, UsesOneError,
                      UnusedIsUnset, ErrorIsOutcome
<1> QED
  BY <1>1, StartKeepsErrors, BuildKeepsErrors, RequestKeepsErrors, PostKeepsErrors DEF Next

\* Whatever threads, calls, shared Errors and answers there are, an Error passed to one
\* sendTransaction only tells how that call ended, and is unset when it threw.
THEOREM OutcomeAlways == Spec => []ErrorIsOutcome
<1>1. EInv => ErrorIsOutcome
  BY DEF EInv
<1> QED BY <1>1, InitEInv, NextEInv, PTL DEF Spec

----------------------------------------------------------------------------
(* What the checks of a method let through is what is documented: each of them looks at an *)
(* argument whose documented form it asks for, a hash by two checks.                       *)

Odd(s) == s.digits % 2 = 1 /\ s.digits > 1

HashNames == {"hash", "blockhash", "powHash", "digest", "hashrate", "id"}
AddressNames == {"address", "from", "to"}
BlockNames == {"defaultBlock", "fromBlock", "toBlock"}
DataNames == {"position", "number", "data", "gas", "gasPrice", "value", "nonce", "signedTxData",
              "index", "topics", "filterId"}

Alone ==
    {Hex(n) : n \in DataNames} \union {Address(n) : n \in AddressNames} \union {Block(n) : n \in BlockNames}
Paired(cs) ==
    UNION {{Hex(n), Length(n, 32)} :
              n \in {m \in HashNames : \E i, j \in DOMAIN cs : cs[i] = Hex(m) /\ cs[j] = Length(m, 32)}}
AsDocumented(cs) == \A i \in DOMAIN cs : cs[i] \in Alone \union Paired(cs)

Lets(cs, n, s) == \A i \in DOMAIN cs : cs[i].arg = n => Passes(cs[i], s)

LEMMA HexPasses ==
  ASSUME NEW s \in Text, NEW n
  PROVE  Passes(Hex(n), s) <=> s.prefix = 1 /\ s.kind \in {"hex", "badsum"}
BY DEF Passes, Hex, IsHexStrict, IsHex, Text

LEMMA AddressPasses ==
  ASSUME NEW s \in Text, NEW n
  PROVE  Passes(Address(n), s) <=> s.prefix <= 1 /\ s.digits = 40 /\ s.kind = "hex"
BY DEF Passes, Address, IsAddress, Text

LEMMA BlockPasses ==
  ASSUME NEW s \in Text, NEW n
  PROVE  Passes(Block(n), s) <=>
           (s.prefix = 0 /\ s.kind = "tag") \/ (s.prefix = 1 /\ s.kind \in {"hex", "badsum"})
BY DEF Passes, Block, CheckDefaultBlock, IsHexStrict, IsHex, Text

LEMMA LengthPasses ==
  ASSUME NEW s \in Text, ~Odd(s), NEW n, NEW size \in {8, 32},
         s.prefix = 1, s.kind \in {"hex", "badsum"}
  PROVE  Passes(Length(n, size), s) <=> s.digits = 2 * size /\ s.kind = "hex"
<1>1. s.digits \in Nat /\ (s.kind = "badsum" => s.digits = 40)
  BY DEF Text
<1>2. Passes(Length(n, size), s) <=> s.digits \div 2 = size
  BY <1>1 DEF Passes, Length, CheckHexLength
<1>3. s.digits \div 2 = size <=> s.digits = 2 * size
  BY <1>1 DEF Odd
<1> QED BY <1>1, <1>2, <1>3

LEMMA AloneLets ==
  ASSUME NEW c \in Alone, NEW s \in Text
  PROVE  c.arg \notin HashNames /\ (Passes(c, s) <=> Documented(c.arg, s))
<1>1. CASE c \in {Hex(n) : n \in DataNames}
  <2> PICK n \in DataNames : c = Hex(n)
    BY <1>1
  <2>1. c.arg = n
    BY DEF Hex
  <2> QED BY <2>1, HexPasses DEF Documented, DataNames, HashNames
<1>2. CASE c \in {Address(n) : n \in AddressNames}
  <2> PICK n \in AddressNames : c = Address(n)
    BY <1>2
  <2>1. c.arg = n
    BY DEF Address
  <2> QED BY <2>1, AddressPasses DEF Documented, AddressNames, HashNames
<1>3. CASE c \in {Block(n) : n \in BlockNames}
  <2> PICK n \in BlockNames : c = Block(n)
    BY <1>3
  <2>1. c.arg = n
    BY DEF Block
  <2> QED BY <2>1, BlockPasses DEF Documented, BlockNames, HashNames
<1> QED BY <1>1, <1>2, <1>3 DEF Alone

LEMMA ListLets ==
  ASSUME NEW cs, AsDocumented(cs), NEW i \in DOMAIN cs, NEW s \in Text, ~Odd(s)
  PROVE  Lets(cs, cs[i].arg, s) <=> Documented(cs[i].arg, s)
<1>1. \A j \in DOMAIN cs : cs[j] \in Paired(cs) =>
        /\ cs[j].arg \in HashNames
        /\ \E k, l \in DOMAIN cs : cs[k] = Hex(cs[j].arg) /\ cs[l] = Length(cs[j].arg, 32)
        /\ cs[j] \in {Hex(cs[j].arg), Length(cs[j].arg, 32)}
  BY DEF Paired, Hex, Length
<1>2. CASE cs[i] \in Alone
  <2>1. cs[i].arg \notin HashNames
    BY <1>2, AloneLets
  <2>2. \A j \in DOMAIN cs : cs[j].arg = cs[i].arg => (Passes(cs[j], s) <=> Documented(cs[i].arg, s))
    BY <1>1, <2>1, AloneLets DEF AsDocumented
  <2> QED BY <2>2 DEF Lets
<1>3. CASE cs[i] \in Paired(cs)
  <2> DEFINE n == cs[i].arg
  <2>1. n \in HashNames
    BY <1>1, <1>3
  <2>2. PICK k, l \in DOMAIN cs : cs[k] = Hex(n) /\ cs[l] = Length(n, 32)
    BY <1>1, <1>3
  <2>3. cs[k].arg = n /\ cs[l].arg = n
    BY <2>2 DEF Hex, Length
  <2>4. \A j \in DOMAIN cs : cs[j].arg = n => cs[j] \in {Hex(n), Length(n, 32)}
    BY <1>1, <2>1, AloneLets DEF AsDocumented
  <2>5. Lets(cs, n, s) <=> Passes(Hex(n), s) /\ Passes(Length(n, 32), s)
    BY <2>2, <2>3, <2>4 DEF Lets
  <2>6. Documented(n, s) <=> s.prefix = 1 /\ s.digits = 64 /\ s.kind = "hex"
    BY <2>1 DEF Documented, HashNames
  <2> HIDE DEF n
  <2> QED BY <2>5, <2>6, HexPasses, LengthPasses DEF n
<1> QED BY <1>2, <1>3 DEF AsDocumented

LEMMA ChecksOfTable ==
  ASSUME NEW m \in Methods
  PROVE  \E table \in {NoArguments, AccountChecks, CountChecks, SigningChecks, CallChecks,
                       BlockChecks, FilterChecks, WorkChecks} :
            m \in DOMAIN table /\ Checks[m] = table[m]
<1>1. \A f, g : \A x \in DOMAIN (f ++ g) :
        \/ x \in DOMAIN f /\ (f ++ g)[x] = f[x]
        \/ x \in DOMAIN g /\ (f ++ g)[x] = g[x]
  BY DEF ++
<1> QED BY <1>1 DEF Methods, Checks

\* A list of one or two checks, and a hash's.
LEMMA ListsAsDocumented ==
  /\ AsDocumented(<<>>)
  /\ \A n \in DataNames : AsDocumented(<<Hex(n)>>)
  /\ \A c, d \in Alone : AsDocumented(<<c, d>>)
  /\ \A n \in HashNames : AsDocumented(Hash(n))
<1>1. AsDocumented(<<>>) /\ \A n \in DataNames : AsDocumented(<<Hex(n)>>)
  BY DEF AsDocumented, Alone
<1>2. \A c, d \in Alone : AsDocumented(<<c, d>>)
  BY DEF AsDocumented
<1>3. ASSUME NEW n \in HashNames PROVE AsDocumented(Hash(n))
  <2> DEFINE cs == Hash(n)
  <2>1. DOMAIN cs = {1, 2} /\ cs[1] = Hex(n) /\ cs[2] = Length(n, 32)
    BY DEF Hash
  <2> HIDE DEF cs
  <2>2. Hex(n) \in Paired(cs) /\ Length(n, 32) \in Paired(cs)
    BY <2>1 DEF Paired
  <2>3. AsDocumented(cs)
    BY <2>1, <2>2 DEF AsDocumented
  <2> QED BY <2>3 DEF cs
<1> QED BY <1>1, <1>2, <1>3

LEMMA AloneHas ==
  /\ \A n \in DataNames : Hex(n) \in Alone
  /\ \A n \in AddressNames : Address(n) \in Alone
  /\ \A n \in BlockNames : Block(n) \in Alone
BY DEF Alone

LEMMA AccountTable == \A m \in DOMAIN AccountChecks : AsDocumented(AccountChecks[m])
<1>1. AsDocumented(<<Address("address"), Block("defaultBlock")>>)
  BY ListsAsDocumented, AloneHas DEF AddressNames, BlockNames
<1>2. AsDocumented(<<Address("address"), Hex("position"), Block("defaultBlock")>>)
  BY AloneHas DEF AsDocumented, AddressNames, DataNames, BlockNames
<1> QED BY <1>1, <1>2 DEF AccountChecks

LEMMA CountTable == \A m \in DOMAIN CountChecks : AsDocumented(CountChecks[m])
<1>1. AsDocumented(Hash("hash")) /\ AsDocumented(<<Hex("number")>>)
  BY ListsAsDocumented DEF HashNames, DataNames
<1> QED BY <1>1 DEF CountChecks

LEMMA SigningTable == \A m \in DOMAIN SigningChecks : AsDocumented(SigningChecks[m])
<1>1. AsDocumented(<<Address("address"), Hex("data")>>) /\ AsDocumented(<<Hex("signedTxData")>>)
  BY ListsAsDocumented, AloneHas DEF AddressNames, DataNames
<1>2. AsDocumented(TransactionFields)
  BY AloneHas DEF AsDocumented, TransactionFields, AddressNames, DataNames
<1> QED BY <1>1, <1>2 DEF SigningChecks

LEMMA CallTable == \A m \in DOMAIN CallChecks : AsDocumented(CallChecks[m])
<1>1. AsDocumented(CallFields)
  BY AloneHas DEF AsDocumented, CallFields, AddressNames, DataNames
<1>2. /\ DOMAIN Append(CallFields, Block("defaultBlock")) = 1 .. 7
      /\ \A i \in 1 .. 6 : Append(CallFields, Block("defaultBlock"))[i] = CallFields[i]
      /\ Append(CallFields, Block("defaultBlock"))[7] = Block("defaultBlock")
  BY DEF CallFields
<1>3. \A i \in 1 .. 6 : CallFields[i] \in Alone
  BY AloneHas DEF CallFields, AddressNames, DataNames
<1>4. AsDocumented(Append(CallFields, Block("defaultBlock")))
  BY <1>2, <1>3, AloneHas DEF AsDocumented, BlockNames
<1>5. /\ DOMAIN CallChecks = {"eth_call", "eth_estimateGas"}
      /\ CallChecks["eth_call"] = Append(CallFields, Block("defaultBlock"))
      /\ CallChecks["eth_estimateGas"] = CallFields
  BY DEF CallChecks
<1> QED BY <1>1, <1>4, <1>5, Zenon

LEMMA BlockTable == \A m \in DOMAIN BlockChecks : AsDocumented(BlockChecks[m])
<1>1. AsDocumented(Hash("hash")) /\ AsDocumented(<<Hex("number")>>)
      /\ AsDocumented(<<Hex("number"), Hex("index")>>)
  BY ListsAsDocumented, AloneHas DEF HashNames, DataNames
<1> DEFINE cs == <<Hex("hash"), Hex("index"), Length("hash", 32)>>
<1>2. DOMAIN cs = 1 .. 3 /\ cs[1] = Hex("hash") /\ cs[2] = Hex("index") /\ cs[3] = Length("hash", 32)
  OBVIOUS
<1> HIDE DEF cs
<1>3. Hex("hash") \in Paired(cs) /\ Length("hash", 32) \in Paired(cs)
  BY <1>2 DEF Paired, HashNames
<1>4. AsDocumented(cs)
  BY <1>2, <1>3, AloneHas DEF AsDocumented, DataNames
<1> QED BY <1>1, <1>4 DEF BlockChecks, cs

LEMMA FilterTable == \A m \in DOMAIN FilterChecks : AsDocumented(FilterChecks[m])
<1>1. AsDocumented(<<Hex("filterId")>>)
  BY ListsAsDocumented DEF DataNames
<1>2. \A i \in 1 .. 4 : FilterFields[i] \in Alone
  BY AloneHas DEF FilterFields, AddressNames, BlockNames, DataNames
<1>3. AsDocumented(FilterFields)
  BY <1>2 DEF AsDocumented, FilterFields
<1> DEFINE cs == FilterFields \o Hash("blockhash")
<1>4. /\ DOMAIN cs = 1 .. 6 /\ cs[5] = Hex("blockhash") /\ cs[6] = Length("blockhash", 32)
      /\ \A i \in 1 .. 4 : cs[i] = FilterFields[i]
  BY DEF FilterFields, Hash
<1> HIDE DEF cs
<1>5. Hex("blockhash") \in Paired(cs) /\ Length("blockhash", 32) \in Paired(cs)
  BY <1>4 DEF Paired, HashNames
<1>6. AsDocumented(cs)
  BY <1>2, <1>4, <1>5 DEF AsDocumented
<1>7. FilterChecks["eth_getLogs"] = cs
  BY DEF FilterChecks, cs
<1>8. \A m \in DOMAIN FilterChecks \ {"eth_getLogs"} :
        FilterChecks[m] \in {FilterFields, <<Hex("filterId")>>}
  BY DEF FilterChecks
<1> QED BY <1>1, <1>3, <1>6, <1>7, <1>8, Zenon

LEMMA WorkTable == \A m \in DOMAIN WorkChecks \ {"eth_submitWork"} : AsDocumented(WorkChecks[m])
<1>1. AsDocumented(<<Hex("data")>>)
  BY ListsAsDocumented DEF DataNames
<1> DEFINE cs == <<Hex("hashrate"), Hex("id"), Length("hashrate", 32), Length("id", 32)>>
<1>2. DOMAIN cs = 1 .. 4 /\ cs[1] = Hex("hashrate") /\ cs[2] = Hex("id")
      /\ cs[3] = Length("hashrate", 32) /\ cs[4] = Length("id", 32)
  OBVIOUS
<1> HIDE DEF cs
<1>3. \A i \in 1 .. 4 : cs[i] \in Paired(cs)
  BY <1>2 DEF Paired, HashNames
<1>4. AsDocumented(cs)
  BY <1>2, <1>3 DEF AsDocumented
<1> QED BY <1>1, <1>4 DEF WorkChecks, cs

\* The checks of every method but eth_submitWork.
LEMMA MethodsAsDocumented ==
  ASSUME NEW m \in Methods, m # "eth_submitWork"
  PROVE  AsDocumented(Checks[m])
<1>1. \A n \in DOMAIN NoArguments : AsDocumented(NoArguments[n])
  BY ListsAsDocumented DEF NoArguments
<1> QED
  BY <1>1, ChecksOfTable, AccountTable, CountTable, SigningTable, CallTable, BlockTable,
     FilterTable, WorkTable

----------------------------------------------------------------------------
(* RPC's code tells whether a check failed. *)

LEMMA ChecksAreFew ==
  ASSUME NEW m \in Methods
  PROVE  /\ DOMAIN Checks[m] \subseteq 1 .. 7
         /\ \A i \in DOMAIN Checks[m] : Checks[m][i].code # 0
<1> DEFINE Few(cs) == DOMAIN cs \subseteq 1 .. 7 /\ \A i \in DOMAIN cs : cs[i].code # 0
           Coded(c) == c.code # 0
<1>1. \A n, size : Coded(Hex(n)) /\ Coded(Address(n)) /\ Coded(Block(n)) /\ Coded(Length(n, size))
  BY DEF Hex, Address, Block, Length
<1> HIDE DEF Coded
<1>2. Few(<<>>) /\ \A c : Coded(c) => Few(<<c>>)
  BY DEF Coded
<1>3. \A c, d : Coded(c) /\ Coded(d) => Few(<<c, d>>)
  BY DEF Coded
<1>4. \A c, d, e : Coded(c) /\ Coded(d) /\ Coded(e) => Few(<<c, d, e>>)
  BY DEF Coded
<1>5. \A c, d, e, f : Coded(c) /\ Coded(d) /\ Coded(e) /\ Coded(f) => Few(<<c, d, e, f>>)
  BY DEF Coded
<1>6. Few(FilterFields) /\ Few(CallFields) /\ Few(TransactionFields)
  <2> USE DEF Coded
  <2>1. \A c, d, e, f, g, h : /\ Coded(c) /\ Coded(d) /\ Coded(e) /\ Coded(f) /\ Coded(g) /\ Coded(h)
                             => Few(<<c, d, e, f, g, h>>)
    OBVIOUS
  <2>2. \A c, d, e, f, g, h, i :
            Coded(c) /\ Coded(d) /\ Coded(e) /\ Coded(f) /\ Coded(g) /\ Coded(h) /\ Coded(i)
                => Few(<<c, d, e, f, g, h, i>>)
    OBVIOUS
  <2> HIDE DEF Few, Coded
  <2> QED
    BY <1>1, <1>5, <2>1, <2>2, Zenon DEF FilterFields, CallFields, TransactionFields
<1>7. Few(FilterFields \o Hash("blockhash"))
  BY <1>1 DEF FilterFields, Hash, Coded
<1>8. Few(Append(CallFields, Block("defaultBlock")))
  BY <1>1 DEF CallFields, Coded
<1>9. Few(WorkChecks["eth_submitWork"])
  BY <1>1 DEF WorkChecks, Coded
<1> HIDE DEF Few
<1>10. \A n \in DOMAIN NoArguments : Few(NoArguments[n])
  BY <1>2 DEF NoArguments
<1>11. \A n \in DOMAIN AccountChecks : Few(AccountChecks[n])
  BY <1>1, <1>3, <1>4 DEF AccountChecks
<1>12. \A n \in DOMAIN CountChecks : Few(CountChecks[n])
  BY <1>1, <1>2, <1>3 DEF CountChecks, Hash
<1>13. \A n \in DOMAIN SigningChecks : Few(SigningChecks[n])
  BY <1>1, <1>2, <1>3, <1>6 DEF SigningChecks
<1>14. \A n \in DOMAIN CallChecks : Few(CallChecks[n])
  <2>1. /\ DOMAIN CallChecks = {"eth_call", "eth_estimateGas"}
        /\ CallChecks["eth_call"] = Append(CallFields, Block("defaultBlock"))
        /\ CallChecks["eth_estimateGas"] = CallFields
    BY DEF CallChecks
  <2> QED BY <1>6, <1>8, <2>1, Zenon
<1>15. \A n \in DOMAIN BlockChecks : Few(BlockChecks[n])
  <2>1. /\ Few(Hash("hash")) /\ Few(<<Hex("number")>>) /\ Few(<<Hex("number"), Hex("index")>>)
        /\ Few(<<Hex("hash"), Hex("index"), Length("hash", 32)>>)
    BY <1>1, <1>2, <1>3, <1>4, Zenon DEF Hash
  <2>2. \A n \in DOMAIN BlockChecks :
          BlockChecks[n] \in {Hash("hash"), <<Hex("number")>>, <<Hex("number"), Hex("index")>>,
                              <<Hex("hash"), Hex("index"), Length("hash", 32)>>}
    BY DEF BlockChecks
  <2> QED
    BY <2>1, <2>2, Zenon
<1>16. \A n \in DOMAIN FilterChecks : Few(FilterChecks[n])
  <2>1. FilterChecks["eth_getLogs"] = FilterFields \o Hash("blockhash")
    BY DEF FilterChecks
  <2>2. \A n \in DOMAIN FilterChecks \ {"eth_getLogs"} :
          FilterChecks[n] \in {FilterFields, <<Hex("filterId")>>}
    BY DEF FilterChecks
  <2>3. Few(<<Hex("filterId")>>)
    BY <1>1, <1>2
  <2> QED BY <1>6, <1>7, <2>1, <2>2, <2>3, Zenon
<1>17. \A n \in DOMAIN WorkChecks : Few(WorkChecks[n])
  BY <1>1, <1>2, <1>5, <1>9 DEF WorkChecks
<1> QED
  BY <1>10, <1>11, <1>12, <1>13, <1>14, <1>15, <1>16, <1>17, ChecksOfTable DEF Few

LEMMA LeastOfFew ==
  ASSUME NEW F \in SUBSET (1 .. 7), F # {}
  PROVE  Min(F) \in F
<1>1. \E i \in F : \A j \in F : i <= j
  <2> SUFFICES ASSUME \A i \in F : \E j \in F : ~(i <= j) PROVE FALSE
    OBVIOUS
  <2>1. \A i \in F : i \in 1 .. 7 /\ \E j \in F : j < i
    OBVIOUS
  <2>2. 1 \notin F
    BY <2>1
  <2>3. 2 \notin F
    BY <2>1, <2>2
  <2>4. 3 \notin F
    BY <2>1, <2>2, <2>3
  <2>5. 4 \notin F
    BY <2>1, <2>2, <2>3, <2>4
  <2>6. 5 \notin F
    BY <2>1, <2>2, <2>3, <2>4, <2>5
  <2>7. 6 \notin F
    BY <2>1, <2>2, <2>3, <2>4, <2>5, <2>6
  <2>8. 7 \notin F
    BY <2>1, <2>2, <2>3, <2>4, <2>5, <2>6, <2>7
  <2>9. PICK x \in F : TRUE
    OBVIOUS
  <2>10. x \in 1 .. 7 => x = 1 \/ x = 2 \/ x = 3 \/ x = 4 \/ x = 5 \/ x = 6 \/ x = 7
    OBVIOUS
  <2>11. x \in 1 .. 7
    BY <2>1
  <2> QED BY <2>2, <2>3, <2>4, <2>5, <2>6, <2>7, <2>8, <2>9, <2>10, <2>11, Zenon
<1> QED BY <1>1 DEF Min

LEMMA CodeTells ==
  ASSUME NEW m \in Methods, NEW args
  PROVE  Code(m, args) = 0 <=>
           \A i \in DOMAIN Checks[m] : Checks[m][i].arg \in DOMAIN args =>
              \A s \in args[Checks[m][i].arg] : Passes(Checks[m][i], s)
<1> DEFINE failed == {i \in DOMAIN Checks[m] : Checks[m][i].arg \in DOMAIN args
                         /\ \E s \in args[Checks[m][i].arg] : ~Passes(Checks[m][i], s)}
<1>1. Code(m, args) = IF failed = {} THEN 0 ELSE Checks[m][Min(failed)].code
  BY DEF Code
<1>2. failed # {} => Min(failed) \in failed
  BY LeastOfFew, ChecksAreFew
<1>3. Code(m, args) = 0 <=> failed = {}
  BY <1>1, <1>2, ChecksAreFew
<1> QED BY <1>3

----------------------------------------------------------------------------
(* What a call asks RPC for is made of texts, under names its checks look at. *)

WellFormed(r) ==
    /\ r.via \in Vias /\ r.method \in Methods
    /\ DOMAIN r.args \subseteq Names(r.method)
    /\ \A n \in DOMAIN r.args : r.args[n] \subseteq Text

LEMMA CallsAreWellFormed ==
  ASSUME NEW t \in Threads, NEW c \in CallsOf[t]
  PROVE  WellFormed([via |-> c.via, method |-> c.method, args |-> PassedOn(WithBlock(c))])
<1> DEFINE d == WithBlock(c)
<1>1. WellFormed(c) /\ DefaultBlock \in Text
  BY CallsAssumption DEF Calls, WellFormed
<1>2. /\ d.via = c.via /\ d.method = c.method
      /\ DOMAIN d.args \subseteq Names(c.method)
      /\ \A n \in DOMAIN d.args : d.args[n] \subseteq Text
  BY <1>1 DEF WithBlock, ++, WellFormed
<1> HIDE DEF d
<1>3. \A s \in Text : Prefix(s) \in Text /\ Utf8ToHex(s) \in Text
  BY DEF Prefix, Utf8ToHex, Text
<1>4. DOMAIN PassedOn(d) = DOMAIN d.args
  BY DEF PassedOn
<1>5. ASSUME NEW n \in DOMAIN d.args PROVE PassedOn(d)[n] \subseteq Text
  BY <1>2, <1>3 DEF PassedOn
<1>6. DOMAIN PassedOn(d) \subseteq Names(c.method) /\ \A n \in DOMAIN PassedOn(d) : PassedOn(d)[n] \subseteq Text
  BY <1>2, <1>4, <1>5
<1> QED BY <1>1, <1>6 DEF WellFormed, d

----------------------------------------------------------------------------
(* What RPC builds. *)

LEMMA MethodNames == "empty" \notin Methods /\ "none" \notin Methods
<1> DEFINE Named(table) == "empty" \notin DOMAIN table /\ "none" \notin DOMAIN table
<1>1. Named(NoArguments) /\ Named(AccountChecks) /\ Named(CountChecks) /\ Named(SigningChecks)
  BY DEF NoArguments, AccountChecks, CountChecks, SigningChecks
<1>2. Named(CallChecks) /\ Named(BlockChecks) /\ Named(FilterChecks) /\ Named(WorkChecks)
  BY DEF CallChecks, BlockChecks, FilterChecks, WorkChecks
<1> QED BY <1>1, <1>2, ChecksOfTable

Alright(r) == \A n \in DOMAIN r.args : \A s \in r.args[n] : Documented(n, s)
SomeOdd(r) == \E n \in DOMAIN r.args : \E s \in r.args[n] : Odd(s)

\* RPC lets a request through when its arguments are what the documentation asks for, and not otherwise.
LEMMA LetThrough ==
  ASSUME NEW r, WellFormed(r), r.method # "eth_submitWork", ~SomeOdd(r)
  PROVE  Code(r.method, r.args) = 0 <=> Alright(r)
<1> DEFINE cs == Checks[r.method]
<1>1. /\ \A n \in DOMAIN r.args : \A s \in r.args[n] : s \in Text /\ ~Odd(s)
      /\ \A n \in DOMAIN r.args : \E i \in DOMAIN cs : cs[i].arg = n
      /\ r.method \in Methods
  BY DEF WellFormed, SomeOdd, Names
<1>2. AsDocumented(cs)
  BY <1>1, MethodsAsDocumented
<1>3. Code(r.method, r.args) = 0 <=>
        \A i \in DOMAIN cs : cs[i].arg \in DOMAIN r.args => \A s \in r.args[cs[i].arg] : Passes(cs[i], s)
  BY <1>1, CodeTells
<1> HIDE DEF cs
<1>4. Code(r.method, r.args) = 0 <=>
        \A n \in DOMAIN r.args : \A s \in r.args[n] : Lets(cs, n, s)
  BY <1>3 DEF Lets
<1>5. \A n \in DOMAIN r.args : \A s \in r.args[n] : Lets(cs, n, s) <=> Documented(n, s)
  BY <1>1, <1>2, ListLets
<1> QED BY <1>4, <1>5 DEF Alright

\* What the builder makes of a request when its own check decides.
Fits(b, r) ==
    /\ b.method # "none"
    /\ b # Empty <=> Code(r.method, r.args) = 0
    /\ b # Empty /\ r.method # "eth_sign" => \A n \in DOMAIN r.args : b.params[n] = r.args[n]

LEMMA BuiltFits ==
  ASSUME NEW r, WellFormed(r), NEW e, e.code = Code(r.method, r.args)
  PROVE  Fits(Built(r, e), r)
<1>1. r.method \in Methods
  BY DEF WellFormed
<1>2. \A n \in DOMAIN r.args : r.method # "eth_sign" => Params(r.method, r.args)[n] = r.args[n]
  BY DEF Params, ++
<1>3. CASE e.code = 0
  <2>1. Built(r, e).method = r.method /\ Built(r, e).params = Params(r.method, r.args)
    BY <1>3 DEF Built
  <2>2. Built(r, e) # Empty
    BY <1>1, <2>1, MethodNames DEF Empty
  <2> QED BY <1>1, <1>2, <1>3, <2>1, <2>2, MethodNames DEF Fits
<1>4. CASE e.code # 0
  <2>1. Built(r, e) = Empty /\ Empty.method = "empty"
    BY <1>4 DEF Built, Empty
  <2> QED BY <1>4, <2>1 DEF Fits
<1> QED BY <1>3, <1>4

----------------------------------------------------------------------------
(* A request built with an Error no other call was passed is what its own checks say. *)

Asked == \A t \in Threads : pc[t] = "started" => WellFormed(request[t])

FreshIsUnset ==
    \A t \in Threads : pc[t] = "started" /\ request[t].via = "rpc" /\ users[error[t]] = {<<t, "rpc">>} =>
        ~errors[error[t]].isSet

Unbuilt ==
    /\ DOMAIN body = Threads
    /\ \A t \in Threads : pc[t] \in {"idle", "started"} => body[t] = Nothing

BodyTells ==
    \A t \in Threads : body[t] # Nothing =>
        /\ WellFormed(request[t]) /\ (request[t].via = "rpc" => error[t] \in Errors)
        /\ (request[t].via = "rpc" => users[error[t]] = {<<t, "rpc">>}) => Fits(body[t], request[t])

CInv == EInv /\ Asked /\ FreshIsUnset /\ Unbuilt /\ BodyTells

LEMMA CInvTells == CInv => CheckedAsDocumented
<1> SUFFICES ASSUME CInv, NEW t \in Threads, body[t].method # "none",
                    request[t].via = "rpc" => users[error[t]] = {<<t, "rpc">>},
                    ~SomeOdd(request[t]), request[t].method # "eth_submitWork"
             PROVE  /\ body[t] # Empty <=> Alright(request[t])
                    /\ body[t] # Empty /\ request[t].method # "eth_sign" =>
                         \A n \in DOMAIN request[t].args : body[t].params[n] = request[t].args[n]
  BY DEF CheckedAsDocumented, SomeOdd, Odd, Alright
<1>1. body[t] # Nothing
  BY DEF Nothing
<1>2. WellFormed(request[t]) /\ Fits(body[t], request[t])
  BY <1>1 DEF CInv, BodyTells
<1> QED BY <1>2, LetThrough DEF Fits

LEMMA InitCInv == Init => CInv
<1> SUFFICES ASSUME Init PROVE CInv
  OBVIOUS
<1>1. DOMAIN body = Threads /\ \A t \in Threads : pc[t] = "idle" /\ body[t] = Nothing
  BY DEF Init
<1>2. Asked /\ FreshIsUnset /\ Unbuilt /\ BodyTells
  BY <1>1 DEF Asked, FreshIsUnset, Unbuilt, BodyTells
<1> QED BY <1>2, InitEInv DEF CInv

\* What a call that starts does, seen from each thread and each Error.
LEMMA StartDoes ==
  ASSUME ErrorTypes, NEW t \in Threads, Start(t)
  PROVE  \E c \in CallsOf[t] : \E e \in Errors \union {None} :
           /\ request'[t] = [via |-> c.via, method |-> c.method, args |-> PassedOn(WithBlock(c))]
           /\ error'[t] = e
           /\ c.via \in {"wallet", "rpc"} => e \in Errors
           /\ \A d \in Errors :
                users'[d] = IF d = e THEN users[d] \union {<<t, c.via>>} ELSE users[d]
           /\ \A u \in Threads \ {t} : request'[u] = request[u] /\ error'[u] = error[u] /\ pc'[u] = pc[u]
           /\ pc[t] = "idle" /\ pc'[t] = "started"
           /\ UNCHANGED <<body, errors>>
<1>1. PICK c \in CallsOf[t] : \E e \in IF c.via \in {"wallet", "rpc"} THEN Errors ELSE {None} :
        /\ request' = [request EXCEPT ![t] =
                [via |-> c.via, method |-> c.method, args |-> PassedOn(WithBlock(c))]]
        /\ error' = [error EXCEPT ![t] = e]
        /\ users' = [d \in Errors |-> IF d = e THEN users[d] \union {<<t, c.via>>} ELSE users[d]]
  BY DEF Start
<1>2. PICK e \in IF c.via \in {"wallet", "rpc"} THEN Errors ELSE {None} :
        /\ request' = [request EXCEPT ![t] =
                [via |-> c.via, method |-> c.method, args |-> PassedOn(WithBlock(c))]]
        /\ error' = [error EXCEPT ![t] = e]
        /\ users' = [d \in Errors |-> IF d = e THEN users[d] \union {<<t, c.via>>} ELSE users[d]]
  BY <1>1
<1>3. pc' = [pc EXCEPT ![t] = "started"] /\ pc[t] = "idle" /\ UNCHANGED <<body, errors>>
  BY DEF Start
<1> DEFINE asked == [via |-> c.via, method |-> c.method, args |-> PassedOn(WithBlock(c))]
<1>4. /\ request'[t] = asked /\ error'[t] = e /\ pc'[t] = "started"
      /\ \A u \in Threads \ {t} : request'[u] = request[u] /\ error'[u] = error[u] /\ pc'[u] = pc[u]
  <2> HIDE DEF asked
  <2>1. request' = [request EXCEPT ![t] = asked]
    BY <1>2 DEF asked
  <2> QED BY <1>2, <1>3, <2>1 DEF ErrorTypes
<1>5. \A d \in Errors : users'[d] = IF d = e THEN users[d] \union {<<t, c.via>>} ELSE users[d]
  BY <1>2
<1>6. e \in Errors \union {None} /\ (c.via \in {"wallet", "rpc"} => e \in Errors)
  OBVIOUS
<1> HIDE DEF asked
<1> QED BY <1>3, <1>4, <1>5, <1>6 DEF asked

LEMMA StartKeepsChecks ==
  ASSUME CInv, NEW t \in Threads, Start(t)
  PROVE  Asked' /\ FreshIsUnset' /\ Unbuilt' /\ BodyTells'
<1>1. PICK c \in CallsOf[t], e \in Errors \union {None} :
           /\ request'[t] = [via |-> c.via, method |-> c.method, args |-> PassedOn(WithBlock(c))]
           /\ error'[t] = e
           /\ c.via \in {"wallet", "rpc"} => e \in Errors
           /\ \A d \in Errors :
                users'[d] = IF d = e THEN users[d] \union {<<t, c.via>>} ELSE users[d]
           /\ \A u \in Threads \ {t} : request'[u] = request[u] /\ error'[u] = error[u] /\ pc'[u] = pc[u]
           /\ pc[t] = "idle" /\ pc'[t] = "started"
           /\ UNCHANGED <<body, errors>>
  BY StartDoes DEF CInv, EInv
<1>2. WellFormed(request'[t])
  BY <1>1, CallsAreWellFormed
<1>3. body[t] = Nothing
  BY <1>1 DEF CInv, Unbuilt
<1>4. Asked' /\ Unbuilt'
  <2>1. Asked'
    BY <1>1, <1>2 DEF CInv, Asked, WellFormed
  <2>2. Unbuilt'
    BY <1>1, <1>3 DEF CInv, Unbuilt, Nothing
  <2> QED BY <2>1, <2>2
\* An Error this call does not share has none but its own user.
<1>5. \A u \in Threads \ {t} : \A d \in Errors : users'[d] = {<<u, "rpc">>} => users[d] = users'[d]
  <2> SUFFICES ASSUME NEW u \in Threads \ {t}, NEW d \in Errors, users'[d] = {<<u, "rpc">>}
               PROVE  d # e
    BY <1>1
  <2>1. <<t, c.via>> # <<u, "rpc">>
    OBVIOUS
  <2> QED BY <1>1, <2>1
<1>6. \A d \in Errors \union {None} : d \notin Errors => d = None
  OBVIOUS
<1>7. FreshIsUnset'
  <2> SUFFICES ASSUME NEW u \in Threads, pc'[u] = "started", request'[u].via = "rpc",
                      users'[error'[u]] = {<<u, "rpc">>}
               PROVE  ~errors'[error'[u]].isSet
    BY DEF FreshIsUnset
  <2>1. CASE u = t
    <3>1. e \in Errors /\ c.via = "rpc" /\ c.via \in Vias
      BY <1>1, <2>1 DEF Vias
    <3>2. <<t, c.via>> \notin users[e]
      BY <1>1, <3>1 DEF CInv, EInv, Unstarted
    <3>3. users[e] = {}
      <4>1. users[e] \union {<<t, "rpc">>} = {<<t, "rpc">>} /\ <<t, "rpc">> \notin users[e]
        BY <1>1, <2>1, <3>1, <3>2
      <4> QED BY <4>1
    <3> QED BY <1>1, <2>1, <3>1, <3>3 DEF CInv, EInv, UnusedIsUnset
  <2>2. CASE u # t
    <3>1. pc[u] = "started" /\ request[u].via = "rpc" /\ error'[u] = error[u]
      BY <1>1, <2>2
    <3>2. error[u] \in Errors
      BY <3>1 DEF CInv, EInv, UsesItsError, Active
    <3>3. users[error[u]] = {<<u, "rpc">>}
      BY <1>5, <2>2, <3>1, <3>2
    <3> QED BY <1>1, <3>1, <3>3 DEF CInv, FreshIsUnset
  <2> QED BY <2>1, <2>2
<1>8. BodyTells'
  <2> SUFFICES ASSUME NEW u \in Threads, body'[u] # Nothing'
               PROVE  /\ WellFormed(request'[u])
                      /\ request'[u].via = "rpc" => error'[u] \in Errors
                      /\ (request'[u].via = "rpc" => users'[error'[u]] = {<<u, "rpc">>}) =>
                            Fits(body'[u], request'[u])
    BY DEF BodyTells, WellFormed, Fits, Empty
  <2>1. body[u] # Nothing /\ body'[u] = body[u] /\ u # t
    BY <1>1, <1>3 DEF Nothing
  <2>2. request'[u] = request[u] /\ error'[u] = error[u] /\ WellFormed(request[u])
    BY <1>1, <2>1 DEF CInv, BodyTells
  <2>3. request[u].via = "rpc" /\ users'[error[u]] = {<<u, "rpc">>} => users[error[u]] = {<<u, "rpc">>}
    BY <1>5, <2>1 DEF CInv, BodyTells
  <2> QED BY <2>1, <2>2, <2>3 DEF CInv, BodyTells
<1> QED BY <1>4, <1>7, <1>8

LEMMA BuildKeepsChecks ==
  ASSUME CInv, NEW t \in Threads, Build(t)
  PROVE  Asked' /\ FreshIsUnset' /\ Unbuilt' /\ BodyTells'
<1>1. /\ pc[t] = "started" /\ pc'[t] \in {"built", "request", "refused"}
      /\ \A u \in Threads \ {t} : pc'[u] = pc[u]
      /\ UNCHANGED <<request, error, users>>
  BY DEF Build, CInv, EInv, ErrorTypes
<1>2. body' = [body EXCEPT ![t] = Built(request[t], Told(t))]
  BY DEF Build
<1>3. Asked' /\ Unbuilt'
  <2>1. DOMAIN body' = Threads /\ \A u \in Threads \ {t} : body'[u] = body[u]
    BY <1>2 DEF CInv, Unbuilt
  <2> QED BY <1>1, <2>1 DEF CInv, Asked, Unbuilt, WellFormed, Nothing
<1>4. FreshIsUnset'
  <2> SUFFICES ASSUME NEW u \in Threads, pc'[u] = "started", request'[u].via = "rpc",
                      users'[error'[u]] = {<<u, "rpc">>}
               PROVE  ~errors'[error'[u]].isSet
    BY DEF FreshIsUnset
  <2>1. u # t /\ pc[u] = "started" /\ error[u] \in Errors
    BY <1>1 DEF CInv, EInv, UsesItsError, Active
  <2>2. error[u] # error[t] \/ request[t].via \notin {"wallet", "rpc"}
    <3>1. request[t].via \in {"wallet", "rpc"} => <<t, request[t].via>> \in users[error[t]]
      BY <1>1 DEF CInv, EInv, UsesItsError, Active
    <3>2. <<t, request[t].via>> # <<u, "rpc">>
      BY <2>1
    <3> QED BY <1>1, <3>1, <3>2
  <2>3. errors'[error[u]] = errors[error[u]]
    BY <2>1, <2>2 DEF Build, CInv, EInv, ErrorTypes
  <2> QED BY <1>1, <2>1, <2>3 DEF CInv, FreshIsUnset
<1>5. BodyTells'
  <2> SUFFICES ASSUME NEW u \in Threads, body'[u] # Nothing
               PROVE  /\ WellFormed(request[u])
                      /\ request[u].via = "rpc" => error[u] \in Errors
                      /\ (request[u].via = "rpc" => users[error[u]] = {<<u, "rpc">>}) =>
                            Fits(body'[u], request[u])
    BY <1>1 DEF BodyTells, WellFormed, Fits, Empty, Nothing
  <2>1. CASE u # t
    <3>1. body'[u] = body[u]
      BY <1>2, <2>1
    <3> QED BY <3>1 DEF CInv, BodyTells
  <2>2. CASE u = t
    <3>1. WellFormed(request[t])
      BY <1>1 DEF CInv, Asked
    <3>2. request[t].via = "rpc" => error[t] \in Errors
      BY <1>1 DEF CInv, EInv, UsesItsError, Active
    <3>3. ASSUME request[t].via = "rpc" => users[error[t]] = {<<t, "rpc">>}
          PROVE  Told(t).code = Code(request[t].method, request[t].args)
      <4>1. request[t].via = "rpc" => ~errors[error[t]].isSet
        BY <1>1, <3>3 DEF CInv, FreshIsUnset
      <4> QED BY <4>1 DEF Told, SetCode
    <3>4. body'[t] = Built(request[t], Told(t))
      BY <1>2 DEF CInv, Unbuilt
    <3> QED BY <2>2, <3>1, <3>2, <3>3, <3>4, BuiltFits
  <2> QED BY <2>1, <2>2
<1> QED BY <1>3, <1>4, <1>5

\* Within HTTPRequest, and where the provider is set, nothing these look at changes, but for what a
\* call that ends tells its own Error and forgets.
LEMMA RestKeepsChecks ==
  ASSUME CInv, NEW t \in Threads, Lock(t) \/ Copy(t) \/ Unlock(t) \/ Post(t)
  PROVE  Asked' /\ FreshIsUnset' /\ Unbuilt' /\ BodyTells'
<1>1. /\ pc[t] \in Active \ {"started"} /\ pc'[t] \in States \ {"idle", "started"}
      /\ \A u \in Threads \ {t} : pc'[u] = pc[u] /\ request'[u] = request[u]
      /\ UNCHANGED <<error, users>>
  <2>1. CASE Lock(t)
    BY <2>1 DEF Lock, CInv, EInv, ErrorTypes, Active, States, Running, Fields
  <2>2. CASE Copy(t)
    BY <2>2 DEF Copy, AfterCopy, CInv, EInv, ErrorTypes, Active, States, Running, Fields
  <2>3. CASE Unlock(t)
    BY <2>3 DEF Unlock, CInv, EInv, ErrorTypes, Active, States, Running, Fields
  <2>4. CASE Post(t)
    BY <2>4 DEF Post, Forget, Ending, CInv, EInv, ErrorTypes, Active, States, Running, Fields
  <2> QED BY <2>1, <2>2, <2>3, <2>4
<1>2. \/ UNCHANGED <<body, request>>
      \/ body' = [body EXCEPT ![t] = Nothing]
  BY DEF Lock, Copy, Unlock, Post, Forget
<1>3. /\ DOMAIN body' = Threads
      /\ \A u \in Threads : (body'[u] = body[u] /\ request'[u] = request[u]) \/ body'[u] = Nothing
  BY <1>1, <1>2 DEF CInv, Unbuilt
<1>4. ASSUME NEW e \in Errors, errors'[e] # errors[e]
      PROVE  <<t, "wallet">> \in users[e]
  <2>1. Post(t) /\ e = error[t] /\ request[t].via = "wallet"
    BY <1>4 DEF Lock, Copy, Unlock, Post, Reported, CInv, EInv, ErrorTypes
  <2> QED BY <1>1, <2>1 DEF CInv, EInv, UsesItsError
<1>5. Asked' /\ Unbuilt'
  BY <1>1, <1>3 DEF CInv, Asked, Unbuilt, WellFormed, Nothing
<1>6. FreshIsUnset'
  <2> SUFFICES ASSUME NEW u \in Threads, pc'[u] = "started", request'[u].via = "rpc",
                      users'[error'[u]] = {<<u, "rpc">>}
               PROVE  ~errors'[error'[u]].isSet
    BY DEF FreshIsUnset
  <2>1. u # t /\ pc[u] = "started" /\ request'[u] = request[u] /\ error'[u] = error[u]
    BY <1>1
  <2>2. error[u] \in Errors /\ users[error[u]] = {<<u, "rpc">>}
    BY <1>1, <2>1 DEF CInv, EInv, UsesItsError, Active
  <2>3. <<t, "wallet">> # <<u, "rpc">>
    OBVIOUS
  <2>4. errors'[error[u]] = errors[error[u]]
    BY <1>4, <2>2, <2>3
  <2> QED BY <2>1, <2>2, <2>4 DEF CInv, FreshIsUnset
<1>7. BodyTells'
  <2> SUFFICES ASSUME NEW u \in Threads, body'[u] # Nothing
               PROVE  /\ WellFormed(request'[u])
                      /\ request'[u].via = "rpc" => error'[u] \in Errors
                      /\ (request'[u].via = "rpc" => users'[error'[u]] = {<<u, "rpc">>}) =>
                            Fits(body'[u], request'[u])
    BY DEF BodyTells, WellFormed, Fits, Empty, Nothing
  <2>1. body'[u] = body[u] /\ request'[u] = request[u] /\ error'[u] = error[u] /\ users' = users
    BY <1>1, <1>3
  <2> QED BY <2>1 DEF CInv, BodyTells
<1> QED BY <1>5, <1>6, <1>7

LEMMA NextCInv == CInv /\ [Next]_vars => CInv'
<1> SUFFICES ASSUME CInv, [Next]_vars PROVE CInv'
  OBVIOUS
<1>1. EInv'
  BY NextEInv DEF CInv
<1>2. ASSUME BeginChange \/ Assign \/ UNCHANGED vars
      PROVE  Asked' /\ FreshIsUnset' /\ Unbuilt' /\ BodyTells'
  <2>1. UNCHANGED asking
    BY <1>2 DEF BeginChange, Assign, vars
  <2> QED
    BY <2>1 DEF asking, CInv, Asked, FreshIsUnset, Unbuilt, BodyTells, WellFormed, Fits, Empty, Nothing
<1>3. Asked' /\ FreshIsUnset' /\ Unbuilt' /\ BodyTells'
  BY <1>2, StartKeepsChecks, BuildKeepsChecks, RestKeepsChecks DEF Next
<1> QED BY <1>1, <1>3 DEF CInv

\* Whatever methods and arguments threads ask for, over an Error of their own or shared, RPC lets
\* exactly those through whose arguments are what RPC.h documents, and puts all of them into the request.
THEOREM ChecksAlways == Spec => []CheckedAsDocumented
<1> QED BY InitCInv, NextCInv, CInvTells, PTL DEF Spec
=============================================================================
