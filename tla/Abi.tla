-------------------------------- MODULE Abi --------------------------------
(***************************************************************************)
(* Calls of a contract packed the way Solidity reads them: the tables a    *)
(* Contract parses from its interface, Solidity::packMulti, the older      *)
(* encoder Contract still offers beside it, and Utils::soliditySha3.  An   *)
(* encoder walks over the arguments once, keeping two strings, the heads   *)
(* and the tails, and a count of bytes that says where the next tail will  *)
(* begin; each argument is a step.                                         *)
(*                                                                         *)
(* A string of 64 digits is a word: a number, a value that fills it, or a  *)
(* part of the content of a bytes or a string.  A selector is what was     *)
(* hashed.  JSON that is neither a string nor an array is a number.        *)
(***************************************************************************)
EXTENDS Naturals, Sequences, SequencesExt

CONSTANTS
    Interfaces,      \* the JSON interfaces a Contract may be built from
    Arguments,       \* the [members, type, value] an encoder may meet
    Missing          \* an argument without a type or a value, a call without an array

Bases == {"uint256", "address", "bool", "bytes", "string"}
Types == [base : Bases, arr : BOOLEAN]
Uninitialised == [base |-> "int256", arr |-> FALSE]
\* What an interface may declare: also the widths of uint and bytes, and what Contract does not know.
Declared == Types \union [base : {"uint8", "bytes32"}, arr : BOOLEAN] \union {Uninitialised}

Forms == {"plain", "word", "loose", "empty", "bad"}
Text == [json : {"text"}, form : Forms, id : STRING, digits : Nat]
Number == [json |-> "number"]
Value == Text \union {Number} \union [json : {"array"}, items : Seq(Text \union {Number})]
Argument == [members : Nat, type : Types \union {Uninitialised, Missing}, value : Value]
Interface == Seq([name : STRING, inputs : Seq(Declared)])

\* Error::code by number; an Error that was not set reads as 0.
Unset == 1001
\* An exception leaves the call.
Throws == 1000
SetCode(e, c) == IF e = Unset THEN c ELSE e

ASSUME AbiAssumption ==
    /\ Interfaces \subseteq Interface /\ Arguments \subseteq Argument
    /\ Missing \notin Types \union {Uninitialised}
-----------------------------------------------------------------------------
(* What a Contract keeps of its interface. *)

\* Widths of uint and of bytes are packed as the type itself.
Known(d) == CASE d.base = "uint8"   -> [d EXCEPT !.base = "uint256"]
              [] d.base = "bytes32" -> [d EXCEPT !.base = "bytes"]
              [] OTHER              -> d

Declaring(i, f) == {k \in DOMAIN i : i[k].name = f}
\* A function without parameters puts nothing into _methods.
WithParams(i) == {i[k].name : k \in {l \in DOMAIN i : i[l].inputs # <<>>}}
\* Methods of one name share an entry of _methods, one behind the other.
ParamsOf(i, f) == FlattenSeq([k \in DOMAIN i |-> IF i[k].name = f THEN i[k].inputs ELSE <<>>])
\* For a type no branch takes, argType is what it happens to be, one of the enum or none of them.
Unknown(i) == UNION {{<<f, k>> : k \in {l \in DOMAIN ParamsOf(i, f) : ParamsOf(i, f)[l] = Uninitialised}} : f \in WithParams(i)}
Methods(i) ==
    {[f \in WithParams(i) |-> [k \in DOMAIN ParamsOf(i, f) |->
          IF ParamsOf(i, f)[k] = Uninitialised THEN garbage[<<f, k>>] ELSE Known(ParamsOf(i, f)[k])]]
     : garbage \in [Unknown(i) -> Types \union {Uninitialised}]}

\* The last character before the ")" goes, be it a comma or the "(".
Signature(f, ds) == [name |-> f, types |-> ds, open |-> ds # <<>>]
LastInputs(i, f) == i[Max(Declaring(i, f))].inputs
\* One entry of _functors for a name, the last method's.
Functors(i) == [f \in {i[k].name : k \in DOMAIN i} |-> Signature(f, LastInputs(i, f))]
-----------------------------------------------------------------------------
(* The layout of one argument: contents end in a word of their own. *)

Num(n) == <<"number", n>>
Val(x) == <<"value", x.id>>
Part(x, k) == <<"part", x.id, x.digits, k>>
WordsFor(n) == (n + 63) \div 64
\* packBytes and packString pad at least once; the older encoder does not.
Room(op, n) == IF op # "older" /\ n = 0 THEN 1 ELSE WordsFor(n)
Parts(op, x) == [k \in 1 .. Room(op, x.digits) |-> Part(x, k)]
Sized(op, x) == <<Num(x.digits \div 2)>> \o Parts(op, x)
\* "aaa" becomes "0aaa"; the digits of a string are even.
Completed(x) == IF x.digits % 2 = 0 THEN x ELSE [x EXCEPT !.digits = @ + 1]

\* for (item : value) takes a JSON string as its only item.
ItemsOf(v) == IF v.json = "array" THEN v.items ELSE <<v>>

\* packMulti: the words of the data before an item are counted.
Paddings(items) ==
    LET sum[k \in 0 .. Len(items)] ==
            IF k = 0 THEN 0 ELSE sum[k - 1] + Room("packMulti", Completed(items[k]).digits)
    IN  sum
\* The older one: the offset moves by the length, then up to a multiple of 32.
RoundedOffsets(items) ==
    LET off[k \in 0 .. Len(items)] ==
            IF k = 0 THEN 32 * Len(items)
            ELSE 32 * ((off[k - 1] + 32 + (Completed(items[k]).digits \div 2) + 31) \div 32)
    IN  off
\* A defect: the lengths before an item are not counted.
ItemOffsetWithoutLengths(op, items, k) ==
    IF op = "older" THEN RoundedOffsets(items)[k - 1]
    ELSE 32 * Len(items) + 32 * Paddings(items)[k - 1]
ItemOffset(op, items, k) ==
    IF op = "older" THEN RoundedOffsets(items)[k - 1]
    ELSE 32 * Len(items) + 32 * (k - 1) + 32 * Paddings(items)[k - 1]

Contents(t) == t.base \in {"bytes", "string"}
Dynamic(t) == t.arr \/ Contents(t)
PackedItems(op, items) ==
    <<Num(Len(items))>> \o [k \in DOMAIN items |-> Num(ItemOffset(op, items, k))]
        \o FlattenSeq([k \in DOMAIN items |-> Sized(op, Completed(items[k]))])
PackedValues(items) == <<Num(Len(items))>> \o [k \in DOMAIN items |-> Val(items[k])]

\* What follows the heads for an argument; the older encoder appends nothing for an empty array of contents.
Body(op, a) ==
    LET items == ItemsOf(a.value) IN
    IF ~ Dynamic(a.type) THEN <<>>
    ELSE IF ~ a.type.arr THEN Sized(op, IF op = "older" THEN Completed(a.value) ELSE a.value)
    ELSE IF ~ Contents(a.type) THEN PackedValues(items)
    ELSE IF op = "older" /\ items = <<>> THEN <<>> ELSE PackedItems(op, items)

\* A defect: the older encoder leaves out the word of an array's size.
AdvanceWithoutSize(op, a) ==
    CASE a.type.arr /\ ~ Contents(a.type) /\ op # "older" -> 64 * a.members
      [] a.type.arr /\ ~ Contents(a.type) /\ op = "older" -> 32 * Len(ItemsOf(a.value))
      [] OTHER                                            -> 32 * Len(Body(op, a))
\* How far the next tail's offset moves: packMulti takes 64 for each member of the JSON argument.
Advance(op, a) ==
    CASE a.type.arr /\ ~ Contents(a.type) /\ op # "older" -> 64 * a.members
      [] a.type.arr /\ ~ Contents(a.type) /\ op = "older" -> 32 + 32 * Len(ItemsOf(a.value))
      [] OTHER                                            -> 32 * Len(Body(op, a))
-----------------------------------------------------------------------------
(* The checks, in the order the encoders run into them. *)

CodeOf(t) ==
    (CASE t.base = "uint256" -> 25 [] t.base = "address" -> 26 [] t.base = "bool" -> 27
       [] t.base = "bytes" -> 28 [] t.base = "string" -> 29) - (IF t.arr THEN 5 ELSE 0)

Accepts(op, t, x) ==
    CASE t.base = "uint256" -> x.form \in {"plain", "empty"}
      [] t.base = "address" -> x.form = "plain"
      [] t.base = "bool"    -> x.form \in {"plain", IF op = "older" THEN "loose" ELSE "word"}
      [] t.base = "bytes"   -> x.form = "plain" \/ (op = "older" /\ (~ t.arr \/ x.digits = 0))
      [] OTHER              -> TRUE

Trouble(op, t, x) ==
    IF x = Number THEN Throws ELSE IF Accepts(op, t, x) THEN 0 ELSE CodeOf(t)
FirstTrouble(op, t, items) ==
    LET wrong == {k \in DOMAIN items : Trouble(op, t, items[k]) # 0}
    IN  IF wrong = {} THEN 0
        ELSE Trouble(op, t, items[CHOOSE k \in wrong : \A l \in wrong : k <= l])
\* The number of an empty string cannot be read.
Unreadable(t, items) == t.base = "uint256" /\ \E k \in DOMAIN items : items[k].form = "empty"

\* Solidity::checkType, then the conversion to a string or to a vector of them.
MultiCheck(a) ==
    LET items == ItemsOf(a.value) IN
    CASE a.type = Missing -> 32
      [] a.type \notin Types \union {Missing} -> 31
      [] OTHER ->
            IF ~ a.type.arr /\ a.value.json = "array" THEN Throws
            ELSE IF FirstTrouble("packMulti", a.type, items) # 0 THEN FirstTrouble("packMulti", a.type, items)
            ELSE IF (a.type.arr /\ a.value.json # "array") \/ Unreadable(a.type, items) THEN Throws ELSE 0

\* The older encoder asks a JSON string for its characters: every number and every boolean
\* of an array throws, or, not being a string either, is refused.
OlderCheck(a) ==
    LET items == ItemsOf(a.value) IN
    IF ~ a.type.arr
    THEN IF a.value.json # "text" THEN {Throws}
         ELSE IF Trouble("older", a.type, a.value) # 0 THEN {Trouble("older", a.type, a.value)}
         ELSE IF Unreadable(a.type, items) THEN {Throws} ELSE {0}
    ELSE IF items = <<>> THEN {0}
    ELSE CASE a.type.base = "uint256" -> IF items[1] = Number THEN {Throws, 20} ELSE {Throws}
           [] a.type.base = "bool"    -> {Throws}
           [] Contents(a.type) /\ Number \in {items[k] : k \in DOMAIN items} -> {Throws}
           [] OTHER                   -> {FirstTrouble("older", a.type, items)}
=============================================================================
