---------------------------- MODULE MCContract ----------------------------
(* Bounds for TLC: every type with contents around a word's end, arrays that are empty, of one *)
(* and of three; what each check refuses; interfaces of each pair of types, and the ones with   *)
(* types that are packed as others, with two methods of one name and with no parameters.        *)
EXTENDS Contract

T(b) == [base |-> b, arr |-> FALSE]
A(b) == [base |-> b, arr |-> TRUE]
X(form, id, digits) == [json |-> "text", form |-> form, id |-> id, digits |-> digits]
Items(s) == [json |-> "array", items |-> s]

Short == X("plain", "a", 4)
Odd == X("plain", "b", 63)
Full == X("plain", "c", 64)
Over == X("plain", "d", 66)
Empty == X("empty", "e", 0)
Nothing == X("plain", "e", 0)
Bad == X("bad", "f", 5)

Values(t) ==
    CASE t = T("uint256") -> {Short, Empty, Bad, Number, Items(<<Short>>)}
      [] t = T("address") -> {Short, Bad}
      [] t = T("bool")    -> {Short, X("word", "a", 4), X("loose", "b", 4), Bad, Number}
      [] t = T("bytes")   -> {Short, Odd, Full, Over, Nothing, Bad}
      [] t = T("string")  -> {Full, Over, Nothing, Number}
      [] t = A("uint256") -> {Items(<<>>), Items(<<Short>>), Items(<<Short, Full, Short>>), Items(<<Short, Empty>>), Items(<<Number>>)}
      [] t = A("address") -> {Items(<<>>), Items(<<Short>>), Items(<<Short, Full, Short>>), Items(<<Full, Bad>>), Short}
      [] t = A("bool")    -> {Items(<<>>), Items(<<Short, Full, X("word", "b", 4)>>), Items(<<Bad, Number>>)}
      [] t = A("bytes")   -> {Items(<<>>), Items(<<Odd, Over, Nothing>>), Items(<<Full, Bad>>), Number}
      [] t = A("string")  -> {Items(<<>>), Items(<<Nothing, Over, Full>>), Items(<<Short, Number>>), Full}
      [] OTHER            -> {Short}

Arg(m, t, v) == [members |-> m, type |-> t, value |-> v]
MCArguments ==
    UNION {{Arg(2, t, v) : v \in Values(t)} : t \in Types}
        \union {Arg(1, Missing, Short), Arg(2, Uninitialised, Short), Arg(3, A("uint256"), Items(<<Short, Full, Short>>)),
                Arg(4, A("address"), Items(<<Short>>))}

Method(f, is) == [name |-> f, inputs |-> is]
Firsts == <<T("uint256"), T("address"), T("bool"), T("bytes"), T("string"),
           A("uint256"), A("address"), A("bool"), A("bytes"), A("string")>>
Seconds == <<T("address"), T("bytes"), A("bool"), A("string")>>
Pairs == [k \in 1 .. 40 |-> <<Firsts[1 + ((k - 1) \div 4)], Seconds[1 + ((k - 1) % 4)]>>]
MCInterfaces ==
    {[k \in DOMAIN Pairs |-> Method(ToString(k), Pairs[k])] \o <<Method("three", <<A("uint256"), T("bytes"), A("bytes")>>)>>,
     <<Method("f", <<[base |-> "uint8", arr |-> FALSE]>>), Method("g", <<[base |-> "bytes32", arr |-> TRUE]>>),
       Method("h", <<T("address")>>), Method("h", <<T("bool")>>), Method("k", <<>>)>>,
     <<Method("f", <<T("bool")>>), Method("k", <<Uninitialised>>),
       Method("l", <<Uninitialised, T("address")>>)>>}
MCErrors == {Unset, 0, 17}
=============================================================================
