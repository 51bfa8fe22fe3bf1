------------------------------ MODULE Contract ------------------------------
(***************************************************************************)
(* A Contract: built from an interface, cloned, its public options         *)
(* assigned, and called through either encoder; and Utils::soliditySha3,   *)
(* which packs without a contract.  One call at a time, one step for each  *)
(* argument an encoder packs.                                              *)
(***************************************************************************)
EXTENDS Abi

CONSTANTS
    MaxParams,       \* bounds the arguments of soliditySha3
    Errors           \* what an Error passed to a call may hold

VARIABLES
    contract,        \* options.jsonInterface, _methods and _functors
    call,            \* the encoder's strings and offset, and its arguments
    answer           \* the last call, and what its caller sees

vars == <<contract, call, answer>>

ASSUME ContractAssumption ==
    /\ MaxParams \in Nat /\ Errors \subseteq Nat

NoCall == [op |-> "none"]
\* soliditySha3 is static: it is called where there is no contract.
NoContract == [options |-> <<>>, methods |-> <<>>, functors |-> <<>>, own |-> FALSE]
NoAnswer == [packed |-> "none"]
-----------------------------------------------------------------------------
\* The tables are of the interface passed, the options may hold another one; "own" (history): they do not.
Built(i, options) ==
    {[options |-> options, methods |-> m, functors |-> Functors(i), own |-> options = i] : m \in Methods(i)}

\* A function of _methods, as many arguments as it has parameters, in a JSON array.
Refusal(f, vs) ==
    IF f \notin DOMAIN contract.methods THEN 17
    ELSE IF vs = Missing THEN 19
    ELSE IF Len(vs) # Len(contract.methods[f]) THEN 18 ELSE 0
Mounted(ts, vs) == [k \in DOMAIN ts |-> [members |-> 2, type |-> ts[k], value |-> vs[k]]]
\* A type that is none of the enum gets no name: the values after it take the names before them.
Streamlined(f) ==
    FlattenSeq([k \in DOMAIN contract.methods[f] |->
                   IF contract.methods[f][k] = Uninitialised THEN <<>> ELSE <<contract.methods[f][k]>>])

Begun(op, f, selector, args, e) ==
    [op |-> op, fn |-> f, selector |-> selector, args |-> args, heads |-> <<>>, tails |-> <<>>,
     next |-> 32 * Len(args), error |-> e, fresh |-> e = Unset,
     starts |-> <<>>]    \* history: the words of the tails before each argument's

\* What the caller has: soliditySha3 looks at the Error to know whether there is something to hash.
Answered(c, packed, e) ==
    [call |-> c, packed |-> packed, error |-> e,
     returned |-> IF c.op = "sha3" THEN packed # "thrown" /\ e \in {0, Unset} ELSE packed = "yes"]

Checks(c, a) == IF c.op = "older" THEN OlderCheck(a) ELSE {MultiCheck(a)}
At(c) == c.args[Len(c.starts) + 1]
\* The older encoder writes nothing for a type that is none of the enum.
HeadOf(a, offset) ==
    IF a.type = Uninitialised THEN <<>> ELSE IF Dynamic(a.type) THEN <<Num(offset)>> ELSE <<Val(a.value)>>
Packed(c) ==
    LET a == At(c) IN
    [c EXCEPT !.heads = @ \o HeadOf(a, c.next),
              !.tails = @ \o Body(c.op, a),
              !.next = @ + Advance(c.op, a),
              !.starts = Append(@, Len(c.tails))]
-----------------------------------------------------------------------------
Init ==
    /\ contract = NoContract \/ \E i, options \in Interfaces : contract \in Built(i, options)
    /\ call = NoCall /\ answer = NoAnswer

Idle == call = NoCall /\ answer = NoAnswer

\* A defect: a clone keeps the tables of the original.
CloneCopies ==
    /\ Idle /\ contract # NoContract
    /\ contract' = [contract EXCEPT !.own = TRUE]
    /\ UNCHANGED <<call, answer>>
\* The constructor's argument is parsed, whatever the options say; clone() passes the options' one.
Clone ==
    /\ Idle /\ contract # NoContract
    /\ contract' \in Built(contract.options, contract.options)
    /\ UNCHANGED <<call, answer>>

\* options is a public member.
AssignOptions ==
    /\ Idle /\ contract # NoContract
    /\ \E i \in Interfaces : contract' = [contract EXCEPT !.options = i, !.own = @ /\ i = contract.options]
    /\ UNCHANGED <<call, answer>>

Functions == DOMAIN contract.functors
ValuesOf(t) == {a.value : a \in {b \in Arguments : b.type = t}}
\* What may be passed: values for the parameters of the function, none at all, or no array.
Passed(f) ==
    {<<>>, Missing} \union
    IF f \in DOMAIN contract.methods
    THEN LET ts == contract.methods[f]
         IN  {vs \in [DOMAIN ts -> UNION {ValuesOf(ts[k]) : k \in DOMAIN ts}] : \A k \in DOMAIN vs : vs[k] \in ValuesOf(ts[k])}
    ELSE {}

Refuse(op, f, e, code) ==
    /\ answer' = Answered(Begun(op, f, Missing, <<>>, e), "refused", SetCode(e, code))
    /\ UNCHANGED <<contract, call>>
Begin(c) == call' = c /\ UNCHANGED <<contract, answer>>

\* operator()(arguments, function): the signature packMulti hashes is of the types as packed,
\* and one of no types at all is no signature.
CallMulti ==
    /\ Idle
    /\ \E f \in Functions, e \in Errors : \E vs \in Passed(f) :
           IF Refusal(f, vs) # 0 THEN Refuse("packMulti", f, e, Refusal(f, vs))
           ELSE IF Streamlined(f) = <<>> THEN Refuse("packMulti", f, e, 30)
           ELSE Begin(Begun("packMulti", f, Signature(f, Streamlined(f)), Mounted(Streamlined(f), vs), e))

\* operator()(function, arguments): the selector is the one of the constructor.
CallOlder ==
    /\ Idle
    /\ \E f \in Functions, e \in Errors : \E vs \in Passed(f) :
           IF Refusal(f, vs) # 0 THEN Refuse("older", f, e, Refusal(f, vs))
           ELSE Begin(Begun("older", f, contract.functors[f], Mounted(contract.methods[f], vs), e))

\* A single argument that is no array is packed as an array of one would be.
SoliditySha3 ==
    /\ Idle /\ contract = NoContract
    /\ \E args \in BoundedSeq(Arguments, MaxParams), e \in Errors : Begin(Begun("sha3", "", Missing, args, e))

PackArgument ==
    /\ call # NoCall /\ Len(call.starts) < Len(call.args)
    /\ 0 \in Checks(call, At(call))
    /\ call' = Packed(call)
    /\ UNCHANGED <<contract, answer>>

\* A defect: the code of the argument's own Error is not passed on.
RefuseArgumentSilently ==
    /\ call # NoCall /\ Len(call.starts) < Len(call.args)
    /\ \E c \in Checks(call, At(call)) \ {0, Throws} :
           answer' = Answered(call, "refused", call.error)
    /\ call' = NoCall /\ UNCHANGED contract
RefuseArgument ==
    /\ call # NoCall /\ Len(call.starts) < Len(call.args)
    /\ \E c \in Checks(call, At(call)) \ {0, Throws} :
           answer' = Answered(call, "refused", SetCode(call.error, c))
    /\ call' = NoCall /\ UNCHANGED contract
ThrowAtArgument ==
    /\ call # NoCall /\ Len(call.starts) < Len(call.args)
    /\ Throws \in Checks(call, At(call))
    /\ answer' = Answered(call, "thrown", call.error)
    /\ call' = NoCall /\ UNCHANGED contract

\* Only packMulti says that it went well.
Finish ==
    /\ call # NoCall /\ Len(call.starts) = Len(call.args)
    /\ answer' = Answered(call, "yes", IF call.op = "older" THEN call.error ELSE SetCode(call.error, 0))
    /\ call' = NoCall /\ UNCHANGED contract

\* The caller has the answer: nothing of it stays in a Contract.
TakeAnswer ==
    /\ answer # NoAnswer
    /\ answer' = NoAnswer /\ UNCHANGED <<contract, call>>

Next ==
    \/ Clone
    \/ AssignOptions
    \/ CallMulti
    \/ CallOlder
    \/ SoliditySha3
    \/ PackArgument
    \/ RefuseArgument
    \/ ThrowAtArgument
    \/ Finish
    \/ TakeAnswer

Spec == Init /\ [][Next]_vars
-----------------------------------------------------------------------------
(* What a decoder of Solidity's finds. *)

Words(c) == c.heads \o c.tails
WordAt(ws, n) == IF n \in DOMAIN ws THEN ws[n] ELSE Missing
ContentAt(ws, n, x) ==
    /\ WordAt(ws, n) = Num(x.digits \div 2)
    /\ \A k \in 1 .. WordsFor(x.digits) : WordAt(ws, n + k) = Part(x, k)
\* An offset counts from "base", the word the offsets begin at.
PointsAtContent(ws, base, n, x) ==
    \E m \in 0 .. Len(ws) : ws[n] = Num(32 * m) /\ ContentAt(ws, base + m, x)
ArrayAt(ws, n, t, items) ==
    /\ WordAt(ws, n) = Num(Len(items))
    /\ n + Len(items) <= Len(ws)
    /\ \A k \in DOMAIN items :
           IF Contents(t) THEN PointsAtContent(ws, n + 1, n + k, Completed(items[k]))
           ELSE ws[n + k] = Val(items[k])
ArgumentAt(ws, n, a) ==
    IF a.type.arr THEN \E m \in 0 .. Len(ws) : ws[n] = Num(32 * m) /\ ArrayAt(ws, 1 + m, a.type, ItemsOf(a.value))
    ELSE IF Contents(a.type) THEN PointsAtContent(ws, 1, n, Completed(a.value))
    ELSE ws[n] = Val(a.value)

\* No argument of a type that is none of the enum.
Whole(c) == \A k \in DOMAIN c.args : c.args[k].type # Uninitialised

(* What the encoders do to some arguments, the exceptions the properties name. *)

\* packMulti lets as much room for an array as the JSON argument has members, two words each.
Misplaced(c, a) == c.op # "older" /\ a.type.arr /\ ~ Contents(a.type) /\ 2 * a.members # Len(ItemsOf(a.value)) + 1
\* packBytes does not complete an odd content; the older encoder leaves out an empty array
\* of contents, and takes bytes that are no hex and booleans that only begin like one.
Garbled(c, a) ==
    IF c.op = "older"
    THEN \/ a.type.arr /\ Contents(a.type) /\ ItemsOf(a.value) = <<>>
         \/ ~ a.type.arr /\ a.value.form \in {"bad", "loose"}
    ELSE ~ a.type.arr /\ a.value.digits % 2 = 1
-----------------------------------------------------------------------------
(* Type invariant: the tables hold types, an encoder's offset is a number and its heads are as many *)
(* as the arguments it packed.                                                                      *)
TypeOK ==
    /\ \A f \in DOMAIN contract.methods : contract.methods[f] \in Seq(Types \union {Uninitialised})
    /\ call # NoCall =>
           /\ call.op \in {"packMulti", "older", "sha3"}
           /\ call.args \in Seq(Argument)
           /\ call.next \in Nat /\ call.starts \in Seq(Nat)
           /\ Len(call.starts) <= Len(call.args)
           /\ Whole(call) => Len(call.heads) = Len(call.starts)

(* The offset an encoder writes for an argument is where the argument's tail begins, whatever    *)
(* was packed before it and whatever follows (array_start; nextOffset: unless an array before it *)
(* was given other room than it takes).                                                          *)
TailsAreFound ==
    \A c \in {call} \ {NoCall} : \A j \in DOMAIN c.heads :
        Whole(c) /\ Dynamic(c.args[j].type) /\ (\A k \in 1 .. j - 1 : ~ Misplaced(c, c.args[k]))
            => c.heads[j] = Num(32 * (Len(c.args) + c.starts[j]))

(* The same without the exception, for packMulti: it "correctly sets things like offsets and     *)
(* lengths with mixed data".                                                                      *)
OffsetsAreCorrect ==
    \A c \in {call} \ {NoCall} : \A j \in DOMAIN c.heads :
        c.op # "older" /\ Whole(c) /\ Dynamic(c.args[j].type) => c.heads[j] = Num(32 * (Len(c.args) + c.starts[j]))

(* A decoder that follows the offsets of an answered call, of either encoder, finds each argument *)
(* as it was passed: values, lengths, contents and the items of arrays.                           *)
AnswerDecodes ==
    answer # NoAnswer /\ answer.packed = "yes" =>
        LET c == answer.call IN
        Whole(c) /\ (\A k \in DOMAIN c.args : ~ Misplaced(c, c.args[k]) /\ ~ Garbled(c, c.args[k])) =>
            \A k \in DOMAIN c.args : ArgumentAt(Words(c), k, c.args[k])

(* A call goes to a function that options.jsonInterface declares, by the name it was called by     *)
(* and with the parameters it was packed for: through any number of clones and assignments of the *)
(* options, as long as the tables are of those options.  Exceptions: a name declared twice, and   *)
(* for packMulti a type that is packed as another.                                                *)
SelectorIsDeclared ==
    answer # NoAnswer /\ answer.packed = "yes" /\ answer.call.op # "sha3" /\ contract.own =>
        LET c == answer.call IN
        \A e \in {contract.options[k] : k \in DOMAIN contract.options} :
            e.name = c.fn /\ Cardinality(Declaring(contract.options, c.fn)) = 1
                /\ (c.op = "older" \/ \A k \in DOMAIN e.inputs : e.inputs[k] \in Types) =>
                /\ c.selector = [name |-> c.fn, types |-> e.inputs, open |-> TRUE]
                /\ Len(c.args) = Len(e.inputs)
                /\ \A k \in DOMAIN c.args : e.inputs[k] # Uninitialised => c.args[k].type = Known(e.inputs[k])

(* An Error that was passed unset tells how the call ended: refused with a code, packed with none, *)
(* unset after an exception; and soliditySha3 returns a hash exactly when there was something to   *)
(* hash.                                                                                           *)
ErrorTells ==
    answer # NoAnswer /\ answer.call.fresh =>
        /\ answer.packed = "refused" <=> answer.error \notin {0, Unset}
        /\ answer.packed = "yes" /\ answer.call.op # "older" => answer.error = 0
        /\ answer.packed = "thrown" => answer.error = Unset
        /\ answer.returned <=> answer.packed = "yes"
=============================================================================
