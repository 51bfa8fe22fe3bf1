----------------------------- MODULE MCRequests -----------------------------
(* Bounds for TLC.  One thread asks for every method once, with arguments that are right *)
(* and with each one wrong in each way that matters to a check; another one sends, so    *)
(* that two requests, a change of Provider and a shared Error meet.                      *)
EXTENDS Requests
CONSTANTS t1, t2

T(prefix, digits, kind) == [prefix |-> prefix, digits |-> digits, kind |-> kind]
H32 == T(1, 64, "hex")
Addr == T(1, 40, "hex")
One == T(1, 1, "hex")
Texts == {H32, Addr, One, Latest, T(0, 64, "hex"), T(1, 65, "hex"), T(1, 62, "hex"), T(2, 64, "hex"),
          T(0, 40, "hex"), T(1, 40, "badsum"), T(1, 16, "hex"), T(1, 40, "text"), T(0, 1, "hex"),
          T(1, 6, "tag")}

Right(n) ==
    CASE n \in {"hash", "blockhash", "powHash", "digest", "hashrate", "id"} -> H32
      [] n = "workNonce" -> T(1, 16, "hex")
      [] n \in {"address", "from", "to"} -> Addr
      [] n \in {"defaultBlock", "fromBlock", "toBlock"} -> Latest
      [] OTHER -> One

\* What a JSON argument may lack, and what may be an array.
Optional == {"to", "gas", "gasPrice", "value", "nonce", "fromBlock", "toBlock", "topics", "blockhash"}
RightArgs(m) == [n \in Names(m) |-> {Right(n)}]
Args(m) ==
    {RightArgs(m), [n \in Names(m) \ Optional |-> {Right(n)}]}
    \union {[RightArgs(m) EXCEPT ![n] = {s}] : n \in Names(m), s \in Texts}
    \union {[RightArgs(m) EXCEPT !["topics"] = {One, s}] : s \in IF "topics" \in Names(m) THEN Texts ELSE {}}

C(via, m, args) == [via |-> via, method |-> m, args |-> args]
Unprefixed(m) == [n \in Names(m) |-> {IF n \in Prefixed(m) THEN T(0, Right(n).digits, "hex") ELSE Right(n)}]
MCSends == {C("wallet", "eth_sendRawTransaction", [signedTxData |-> {s}]) : s \in {One, T(0, 1, "hex"), T(0, 1, "text")}}
MCCallsOf == [t \in {t1, t2} |->
    IF t = t2 THEN MCSends \union {C("rpc", "web3_sha3", [data |-> {s}]) : s \in {One, Latest}}
    ELSE MCSends
         \union UNION {{C("rpc", m, a) : a \in Args(m)} : m \in Methods}
         \union {C("eth", m, RightArgs(m)) : m \in {n \in Methods : Prefixed(n) # {}} \union {"eth_submitWork"}}
         \union {C("eth", m, Unprefixed(m)) : m \in {"eth_blockNumber", "eth_getStorageAt", "eth_call"}}
         \union {C("eth", "eth_getBalance", [address |-> {Addr}]),
                 C("eth", "eth_sign", [address |-> {Addr}, data |-> {T(1, 3, "text")}]),
                 C("account", "eth_getTransactionCount", RightArgs("eth_getTransactionCount")),
                 C("account", "eth_getBalance", RightArgs("eth_getBalance"))}]
=============================================================================
