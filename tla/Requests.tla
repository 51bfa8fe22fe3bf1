------------------------------ MODULE Requests ------------------------------
(***************************************************************************)
(* Threads that post requests to one Provider while the application may    *)
(* replace it.  A method of Eth builds its request with an Error of its    *)
(* own, Wallet::sendTransaction tells the caller's, which may be another   *)
(* call's too, how it ended, Account posts what RPC gave it unseen (valid  *)
(* addresses only), and the application may call RPC itself.  HTTPRequest  *)
(* copies host, target and port under Provider::lock; setProvider assigns  *)
(* them without it.                                                        *)
(*                                                                         *)
(* The node is external: it answers with a result, an error, something     *)
(* that is no such JSON, or not at all.  Left out: an Error that is gone   *)
(* when sendTransaction's thread writes to it, Eth::defaultBlock assigned  *)
(* while requests run, and the name, currency and explorer URL.            *)
(***************************************************************************)
EXTENDS Rpc

CONSTANTS
    Threads,
    Providers,
    Errors,          \* the Errors callers own
    CallsOf,         \* what each thread may ask for
    DefaultBlock,    \* Eth::defaultBlock
    Mixed,           \* a field copied while it was assigned
    None

VARIABLES
    provider,        \* host, target and port: the Provider each came from
    change,          \* the Provider being set, and its fields not yet assigned
    lock,            \* Provider::lock: the thread that holds it
    errors,
    pc, request, error,
    body,            \* what RPC built
    goal,            \* the copies of host, target and port
    answer,          \* the node's answer
    under,           \* history: the Provider there was while the lock was held
    users            \* history: the calls an Error was passed to, and what they were

asking == <<pc, request, error, body, answer, users, errors>>
copying == <<lock, goal, under>>
setting == <<provider, change>>
vars == <<asking, copying, setting>>

Vias == {"eth", "wallet", "rpc", "account"}
Calls == UNION {CallsOf[t] : t \in Threads}
Fields == {"host", "target", "port"}
Nothing == [method |-> "none"]
Empty == [method |-> "empty"]

Names(method) == {Checks[method][i].arg : i \in DOMAIN Checks[method]}

ASSUME CallsAssumption ==
    /\ DefaultBlock \in Text
    /\ \A c \in Calls :
        /\ DOMAIN c = {"via", "method", "args"}
        /\ c.via \in Vias /\ c.method \in Methods
        /\ DOMAIN c.args \subseteq Names(c.method)
        /\ \A n \in DOMAIN c.args : c.args[n] \subseteq Text
ASSUME SentinelsAssumption ==
    None \notin Providers /\ Mixed \notin Providers
    /\ None \notin Threads /\ None \notin Errors

Init ==
    /\ provider \in [Fields -> Providers] /\ \A f, g \in Fields : provider[f] = provider[g]
    /\ change = [to |-> None, todo |-> <<>>]
    /\ lock = None
    /\ errors = [e \in Errors |-> [isSet |-> FALSE, code |-> 0]]
    /\ pc = [t \in Threads |-> "idle"]
    /\ request = [t \in Threads |-> Nothing]
    /\ error = [t \in Threads |-> None]
    /\ body = [t \in Threads |-> Nothing]
    /\ goal = [t \in Threads |-> [f \in Fields |-> None]]
    /\ answer = [t \in Threads |-> "none"]
    /\ under = [t \in Threads |-> None]
    /\ users = [e \in Errors |-> {}]

SetCode(e, code) == IF e.isSet THEN e ELSE [isSet |-> TRUE, code |-> code]

\* Eth puts "0x" before these, whether or not they begin with one: the test for it is true
\* of every text.
Prefixed(method) ==
    CASE method = "eth_getStorageAt" -> {"position"}
      [] method \in {"eth_getBlockByHash", "eth_getBlockByNumber",
                     "eth_getUncleByBlockHashAndIndex", "eth_getUncleByBlockNumberAndIndex",
                     "eth_getTransactionByBlockHashAndIndex",
                     "eth_getTransactionByBlockNumberAndIndex"} \union DOMAIN CountChecks
            -> {"hash", "number", "index"}
      [] OTHER -> {}

Prefix(s) == [s EXCEPT !.prefix = @ + 1]
Utf8ToHex(s) == [prefix |-> 1, digits |-> 2 * (2 * s.prefix + s.digits), kind |-> "hex"]

\* The arguments as the method of Eth or Wallet passes them on.
PassedOn(c) ==
    [n \in DOMAIN c.args |->
        CASE c.via = "eth" /\ n \in Prefixed(c.method) -> {Prefix(s) : s \in c.args[n]}
          [] c.via = "eth" /\ c.method = "eth_sign" /\ n = "data" ->
                {IF IsHex(s) THEN s ELSE Utf8ToHex(s) : s \in c.args[n]}
          [] c.via = "wallet" -> {IF s.prefix > 0 THEN s ELSE Prefix(s) : s \in c.args[n]}
          [] OTHER -> c.args[n]]

WithBlock(c) ==
    IF c.via = "eth" /\ "defaultBlock" \in Names(c.method)
    THEN [c EXCEPT !.args = @ ++ [defaultBlock |-> {DefaultBlock}]]
    ELSE c

Start(t) ==
    /\ pc[t] = "idle"
    /\ \E c \in CallsOf[t] : \E e \in IF c.via \in {"wallet", "rpc"} THEN Errors ELSE {None} :
        /\ request' = [request EXCEPT ![t] =
                [via |-> c.via, method |-> c.method, args |-> PassedOn(WithBlock(c))]]
        /\ error' = [error EXCEPT ![t] = e]
        /\ users' = [d \in Errors |-> IF d = e THEN users[d] \union {<<t, c.via>>} ELSE users[d]]
    /\ pc' = [pc EXCEPT ![t] = "started"]
    /\ UNCHANGED <<body, answer, errors, copying, setting>>

\* RPC's builder, with the Error that decides between the request and an empty object.
Built(c, e) ==
    IF e.code = 0 THEN [method |-> c.method, params |-> Params(c.method, c.args)] ELSE Empty

\* The Error the builder is passed, as it leaves it.
Told(t) ==
    SetCode(IF request[t].via = "rpc" THEN errors[error[t]] ELSE [isSet |-> FALSE, code |-> 0],
            Code(request[t].method, request[t].args))

Build(t) ==
    /\ pc[t] = "started"
    /\ body' = [body EXCEPT ![t] = Built(request[t], Told(t))]
    /\ errors' = CASE request[t].via = "rpc" -> [errors EXCEPT ![error[t]] = Told(t)]
                   [] request[t].via = "wallet" /\ Told(t).code # 0 ->
                        [errors EXCEPT ![error[t]] = SetCode(@, Told(t).code)]
                   [] OTHER -> errors
    /\ pc' = [pc EXCEPT ![t] =
                CASE request[t].via = "rpc" -> "built"
                  [] request[t].via = "account" \/ Told(t).code = 0 -> "request"
                  [] OTHER -> "refused"]
    /\ UNCHANGED <<request, error, answer, users, copying, setting>>

----------------------------------------------------------------------------
(* HTTPRequest.                                                            *)

Lock(t) ==
    /\ pc[t] = "request" /\ lock = None
    /\ lock' = t
    /\ under' = [under EXCEPT ![t] = IF change.todo = <<>> THEN provider.host ELSE None]
    /\ pc' = [pc EXCEPT ![t] = "host"]
    /\ UNCHANGED <<request, error, body, answer, users, errors, goal, setting>>

\* What a read of a field may give: setProvider may be writing to it.
Seen(f) ==
    IF change.todo # <<>> /\ Head(change.todo) = f
    THEN {provider[f], change.to, Mixed} ELSE {provider[f]}

AfterCopy == [host |-> "target", target |-> "port", port |-> "unlock"]

\* A defect: the lock is given back before the port is read.
CopyPortLate(t) ==
    /\ pc[t] \in Fields
    /\ \E v \in Seen(pc[t]) : goal' = [goal EXCEPT ![t][pc[t]] = v]
    /\ pc' = [pc EXCEPT ![t] = AfterCopy[pc[t]]]
    /\ lock' = IF pc[t] = "target" THEN None ELSE lock
    /\ UNCHANGED <<request, error, body, answer, users, errors, under, setting>>

Copy(t) ==
    /\ pc[t] \in Fields
    /\ \E v \in Seen(pc[t]) : goal' = [goal EXCEPT ![t][pc[t]] = v]
    /\ pc' = [pc EXCEPT ![t] = AfterCopy[pc[t]]]
    /\ UNCHANGED <<request, error, body, answer, users, errors, lock, under, setting>>

Unlock(t) ==
    /\ pc[t] = "unlock"
    /\ lock' = None
    /\ pc' = [pc EXCEPT ![t] = "post"]
    /\ UNCHANGED <<request, error, body, answer, users, errors, goal, under, setting>>

\* The locals of a call that ends.
Forget(t) ==
    /\ request' = [request EXCEPT ![t] = Nothing]
    /\ body' = [body EXCEPT ![t] = Nothing]
    /\ goal' = [goal EXCEPT ![t] = [f \in Fields |-> None]]
    /\ under' = [under EXCEPT ![t] = None]

\* A defect: success is noted before the answer is looked at.
ReportedHopefully(t, a) ==
    IF request[t].via = "wallet" /\ a # "unreachable"
    THEN [errors EXCEPT ![error[t]] = SetCode(@, 0)]
    ELSE errors

\* What sendTransaction makes of the answer; when it throws the caller's Error is left as
\* it was.
Reported(t, a) ==
    IF request[t].via = "wallet" /\ a \in {"result", "error"}
    THEN [errors EXCEPT ![error[t]] = SetCode(@, IF a = "error" THEN 13 ELSE 0)]
    ELSE errors

\* Without an answer HTTPRequest throws, and so does the parser; Account reads a result
\* even from an error.
Ending(t, a) ==
    IF a = "result" \/ (a = "error" /\ request[t].via # "account") THEN "returned" ELSE "threw"

Post(t) ==
    /\ pc[t] = "post"
    /\ \E a \in {"result", "error", "garbage", "unreachable"} :
        /\ answer' = [answer EXCEPT ![t] = a]
        /\ errors' = Reported(t, a)
        /\ pc' = [pc EXCEPT ![t] = Ending(t, a)]
    /\ Forget(t)
    /\ UNCHANGED <<error, users, lock, setting>>

----------------------------------------------------------------------------
(* setProvider, without the lock.                                          *)

BeginChange ==
    /\ change.todo = <<>>
    /\ \E p \in Providers : change' = [to |-> p, todo |-> <<"host", "target", "port">>]
    /\ under' = [t \in Threads |-> IF lock = t THEN None ELSE under[t]]
    /\ UNCHANGED <<asking, lock, goal, provider>>

Assign ==
    /\ change.todo # <<>>
    /\ provider' = [provider EXCEPT ![Head(change.todo)] = change.to]
    /\ change' = [change EXCEPT !.todo = Tail(@)]
    /\ UNCHANGED <<asking, copying>>

Next ==
    \/ \E t \in Threads :
        Start(t) \/ Build(t) \/ Lock(t) \/ Copy(t) \/ Unlock(t) \/ Post(t)
    \/ BeginChange
    \/ Assign

Spec == Init /\ [][Next]_vars

----------------------------------------------------------------------------
(* Correctness.                                                            *)

Running == Fields \union {"unlock"}
States == Running \union {"idle", "started", "built", "refused", "request", "post", "returned", "threw"}
Todos == {<<>>, <<"port">>, <<"target", "port">>, <<"host", "target", "port">>}

TypeOK ==
    /\ provider \in [Fields -> Providers]
    /\ change.todo \in Todos
    /\ change.todo # <<>> => change \in [to : Providers, todo : Todos]
    /\ pc \in [Threads -> States]
    /\ lock \in Threads \union {None}
    /\ \A t \in Threads : pc[t] \in Running <=> lock = t
    /\ goal \in [Threads -> [Fields -> Providers \union {None, Mixed}]]
    /\ under \in [Threads -> Providers \union {None}]

\* A request that found no change of provider under way while it held the lock goes to the
\* host, target and port of one Provider, the one there was then.
PostsToOneProvider ==
    \A t \in Threads : pc[t] = "post" /\ under[t] # None => goal[t] = [f \in Fields |-> under[t]]

\* An Error passed to one call only tells how it ended: sent (0), refused by the node (13)
\* or by a check; it is left unset when the call threw.
ErrorIsOutcome ==
    \A t \in Threads : \A e \in Errors :
        users[e] = {<<t, "wallet">>} =>
            CASE pc[t] = "returned" ->
                    errors[e] = [isSet |-> TRUE, code |-> IF answer[t] = "result" THEN 0 ELSE 13]
              [] pc[t] = "refused" -> errors[e].isSet /\ errors[e].code # 0
              [] OTHER -> ~errors[e].isSet

\* What the parameters are by RPC.h: 32 bytes, 8 bytes, addresses, a block or a tag, and
\* otherwise hexadecimal data.
Documented(name, s) ==
    CASE name \in {"hash", "blockhash", "powHash", "digest", "hashrate", "id"} ->
            s.prefix = 1 /\ s.digits = 64 /\ s.kind = "hex"
      [] name = "workNonce" -> s.prefix = 1 /\ s.digits = 16 /\ s.kind = "hex"
      [] name \in {"address", "from", "to"} -> s.prefix <= 1 /\ s.digits = 40 /\ s.kind = "hex"
      [] name \in {"defaultBlock", "fromBlock", "toBlock"} ->
            (s.prefix = 0 /\ s.kind = "tag") \/ (s.prefix = 1 /\ s.kind \in {"hex", "badsum"})
      [] OTHER -> s.prefix = 1 /\ s.kind \in {"hex", "badsum"}

\* RPC lets exactly the arguments through that its documentation asks for, and puts all of
\* them into the request, unless it is passed an Error of an earlier call.  Named
\* exceptions: an odd digit more than 32 bytes; eth_submitWork; eth_sign's address.
CheckedAsDocumented ==
    \A t \in Threads :
        LET r == request[t]
            wanted == \A n \in DOMAIN r.args : \A s \in r.args[n] : Documented(n, s)
            odd == \E n \in DOMAIN r.args : \E s \in r.args[n] : s.digits % 2 = 1 /\ s.digits > 1
        IN  /\ body[t].method # "none"
            /\ r.via = "rpc" => users[error[t]] = {<<t, "rpc">>}
            /\ ~odd /\ r.method # "eth_submitWork"
            => /\ body[t] # Empty <=> wanted
               /\ body[t] # Empty /\ r.method # "eth_sign" =>
                    \A n \in DOMAIN r.args : body[t].params[n] = r.args[n]

=============================================================================
