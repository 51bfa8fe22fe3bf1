-------------------------------- MODULE Rpc ---------------------------------
(***************************************************************************)
(* The requests RPC builds: what each method checks of its arguments, in   *)
(* which order and with which code, and what it puts into "params".        *)
(*                                                                         *)
(* A text is its number of "0x" in front, the number of characters after   *)
(* them and what these are.  The arguments of a call map the name of each  *)
(* argument, or member of a JSON argument, that is present to the set of   *)
(* its texts: one, or the elements of an array.  A BigNumber overload      *)
(* passes a text without "0x".  Booleans are left out.                     *)
(***************************************************************************)
EXTENDS Naturals, Sequences, FiniteSetsExt

\* "hex": hexadecimal digits, 40 of them an address with a good checksum; "badsum": 40 that
\* fail it; "tag": latest, earliest or pending; "text": anything else.
Text ==
    {s \in [prefix : Nat, digits : Nat, kind : {"hex", "badsum", "tag", "text"}] :
        s.kind = "badsum" => s.digits = 40}

Latest == [prefix |-> 0, digits |-> 6, kind |-> "tag"]

IsHex(s) == s.prefix <= 1 /\ s.kind \in {"hex", "badsum"}
IsHexStrict(s) == s.prefix >= 1 /\ IsHex(s)
IsAddress(s) == s.prefix <= 1 /\ s.digits = 40 /\ s.kind = "hex"

CheckDefaultBlock(s) == (s.prefix = 0 /\ s.kind = "tag") \/ IsHexStrict(s)

\* A defect: the "0x" counts as a byte.
CheckWholeLength(s, size) == (s.digits + 2 * s.prefix) \div 2 = size

\* Only one "0x" is skipped, and an odd digit is dropped by the division.
CheckHexLength(s, size) ==
    (s.digits + IF s.prefix > 1 THEN 2 * (s.prefix - 1) ELSE 0) \div 2 = size

(* One check: the argument it looks at, the code it gives, the bytes it wants. *)
Hex(arg) == [arg |-> arg, code |-> 4, size |-> 0]
Address(arg) == [arg |-> arg, code |-> 5, size |-> 0]
Length(arg, size) == [arg |-> arg, code |-> 6, size |-> size]
Block(arg) == [arg |-> arg, code |-> 9, size |-> 0]

Passes(c, s) ==
    CASE c.code = 4 -> IsHexStrict(s)
      [] c.code = 5 -> IsAddress(s)
      [] c.code = 6 -> CheckHexLength(s, c.size)
      [] c.code = 9 -> CheckDefaultBlock(s)

Hash(arg) == <<Hex(arg), Length(arg, 32)>>

----------------------------------------------------------------------------
(* The checks of each method, in their order.                              *)

\* f, and g where f has nothing to say.
f ++ g == [x \in DOMAIN f \union DOMAIN g |-> IF x \in DOMAIN f THEN f[x] ELSE g[x]]

NoArguments ==
    [m \in {"web3_clientVersion", "net_version", "net_listening", "net_peerCount",
            "eth_protocolVersion", "eth_syncing", "eth_coinbase", "eth_mining",
            "eth_hashrate", "eth_gasPrice", "eth_accounts", "eth_blockNumber",
            "eth_getCompilers", "eth_newBlockFilter", "eth_newPendingTransactionFilter",
            "eth_getWork"} |-> <<>>]

AccountChecks ==
    [eth_getBalance |-> <<Address("address"), Block("defaultBlock")>>,
     eth_getStorageAt |-> <<Address("address"), Hex("position"), Block("defaultBlock")>>,
     eth_getTransactionCount |-> <<Address("address"), Block("defaultBlock")>>,
     eth_getCode |-> <<Address("address"), Block("defaultBlock")>>]

CountChecks ==
    [eth_getBlockTransactionCountByHash |-> Hash("hash"),
     eth_getBlockTransactionCountByNumber |-> <<Hex("number")>>,
     eth_getUncleCountByBlockHash |-> Hash("hash"),
     eth_getUncleCountByBlockNumber |-> <<Hex("number")>>]

TransactionFields ==
    <<Address("from"), Address("to"),
      Hex("data"), Hex("gas"), Hex("gasPrice"), Hex("value"), Hex("nonce")>>

SigningChecks ==
    [eth_sign |-> <<Address("address"), Hex("data")>>,
     eth_signTransaction |-> TransactionFields,
     eth_sendTransaction |-> TransactionFields,
     eth_sendRawTransaction |-> <<Hex("signedTxData")>>]

CallFields ==
    <<Address("from"), Address("to"), Hex("data"), Hex("gas"), Hex("gasPrice"), Hex("value")>>

CallChecks ==
    [eth_call |-> Append(CallFields, Block("defaultBlock")),
     eth_estimateGas |-> CallFields]

BlockChecks ==
    [eth_getBlockByHash |-> Hash("hash"),
     eth_getBlockByNumber |-> <<Hex("number")>>,
     eth_getTransactionByHash |-> Hash("hash"),
     eth_getTransactionByBlockHashAndIndex |-> <<Hex("hash"), Hex("index"), Length("hash", 32)>>,
     eth_getTransactionByBlockNumberAndIndex |-> <<Hex("number"), Hex("index")>>,
     eth_getTransactionReceipt |-> Hash("hash"),
     eth_getUncleByBlockHashAndIndex |-> <<Hex("hash"), Hex("index"), Length("hash", 32)>>,
     eth_getUncleByBlockNumberAndIndex |-> <<Hex("number"), Hex("index")>>]

FilterFields == <<Block("fromBlock"), Block("toBlock"), Address("address"), Hex("topics")>>

FilterChecks ==
    [eth_newFilter |-> FilterFields,
     eth_uninstallFilter |-> <<Hex("filterId")>>,
     eth_getFilterChanges |-> <<Hex("filterId")>>,
     eth_getFilterLogs |-> <<Hex("filterId")>>,
     eth_getLogs |-> FilterFields \o Hash("blockhash")]

\* eth_submitWork looks at its nonce for both lengths, and never at the digest's.
WorkChecks ==
    [eth_submitWork |-> <<Hex("workNonce"), Hex("powHash"), Hex("digest"),
                          Length("workNonce", 8), Length("powHash", 32), Length("workNonce", 32)>>,
     eth_submitHashrate |-> <<Hex("hashrate"), Hex("id"), Length("hashrate", 32), Length("id", 32)>>,
     web3_sha3 |-> <<Hex("data")>>]

Checks == NoArguments ++ AccountChecks ++ CountChecks ++ SigningChecks ++ CallChecks
          ++ BlockChecks ++ FilterChecks ++ WorkChecks
Methods == DOMAIN Checks

----------------------------------------------------------------------------

\* The code of the first check an argument that is there fails.
Code(method, args) ==
    LET cs == Checks[method]
        failed == {i \in DOMAIN cs : cs[i].arg \in DOMAIN args
                                     /\ \E s \in args[cs[i].arg] : ~Passes(cs[i], s)}
    IN  IF failed = {} THEN 0 ELSE cs[Min(failed)].code

\* "params": a filter gets its blocks; eth_sign leaves its address out.
Params(method, args) ==
    CASE method \in {"eth_newFilter", "eth_getLogs"} ->
            args ++ [fromBlock |-> {Latest}, toBlock |-> {Latest}]
      [] method = "eth_sign" -> [n \in DOMAIN args \ {"address"} |-> args[n]]
      [] OTHER -> args

=============================================================================
