------------------------------- MODULE MCRlp -------------------------------
(* Bounds for TLC: ten bytes, two that are themselves, strings and lists of less than two bytes *)
(* with their length in the first byte, longer ones with one byte of length up to nine and two   *)
(* above.                                                                                        *)
EXTENDS Rlp

MCBase == 10
MCDataImmLenStart == 2
MCListStart == 6
MCMaxLengthBytes == 2

\* Of each length that has a header of its own, and single bytes at the boundary.
MCStrings == {<<0>>, <<1, 2, 3, 4, 5, 6, 7, 8>>}
MCNumbers == {2}
MCListSizes == 0..2
MCMaxCalls == 5
MCMaxOpen == 2

Short == UNION {[1..n -> Bytes] : n \in 0..3}
\* Lists with strings, lists and what is neither in them.
Long == {<<8, n, a, b, c>> : n \in {1, 2, 3}, a, b, c \in {0, 2, 3, 4, 6, 7, 8}}
MCInputs ==
    {[bytes |-> d, flags |-> VeryStrict] : d \in Short \union Long}
    \union {[bytes |-> d, flags |-> f] : d \in [1..3 -> {0, 3, 6, 7, 8}] \union {<<3>>}, f \in {Strict, LaissezFaire}}
MCIndices == 0..3
=============================================================================
