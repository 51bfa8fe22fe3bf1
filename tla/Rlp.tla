-------------------------------- MODULE Rlp --------------------------------
(***************************************************************************)
(* What an RLPStream wrote is read by an RLP object, or an object is made  *)
(* from bytes that came from elsewhere.  The two share nothing, so a       *)
(* stream is written while there is no object and the other way around.    *)
(***************************************************************************)
EXTENDS RlpStream, RlpReader

vars == <<streamVars, readerVars>>

Init == StreamInit /\ ReaderInit

\* RLP(s.out()), as the tries and the transactions do.
ReadMade ==
    /\ StreamEmpty /\ made # Nothing
    /\ Construct([bytes |-> made.bytes, flags |-> VeryStrict])
    /\ made' = Nothing /\ calls' = 0
    /\ UNCHANGED <<out, listStack, noting, opened>>

Read == StreamEmpty /\ made = Nothing /\ calls = 0 /\ ReaderNext /\ UNCHANGED streamVars
Written == rlp = Unread /\ StreamNext /\ UNCHANGED readerVars

Next == Written \/ ReadMade \/ Read

\* A call runs on to its end.
Spec == Init /\ [][Next]_vars /\ WF_vars(UNCHANGED streamVars /\ (Increment \/ LoopEnds))

-----------------------------------------------------------------------------
(* Reading everything there is in some bytes, and writing it again; bytes that are too few for  *)
(* what they begin with are read as nothing.                                                    *)

Whole(d) ==
    LET whole[b \in Seq(Bytes)] ==
            /\ b # <<>> /\ Opens(b, VeryStrict)
            /\ IsList(b) => LET p == Payload(b)
                            IN  HasItems(p) /\ \A i \in 0..(ItemCount(p) - 1) : whole[Item(p, i)]
    IN  whole[d]

Items(d) ==
    LET read[b \in Seq(Bytes)] ==
            IF ~HasSize(b) THEN ListItem(0, <<>>)
            ELSE IF IsList(b)
            THEN LET p == Payload(b)
                     n == ItemCount(p)
                 IN  ListItem(n, [k \in 1..n |-> read[Item(p, k - 1)]])
            ELSE StringItem(Payload(b))
    IN  read[d]

Rewritten(d) ==
    LET again[b \in Seq(Bytes)] ==
            IF ~HasSize(b) THEN <<>>
            ELSE IF IsList(b)
            THEN LET p == Payload(b)
                     c == FlattenSeq([k \in 1..ItemCount(p) |-> again[Item(p, k - 1)]])
                 IN  ListHeader(Len(c)) \o c
            ELSE StringBytes(Payload(b))
    IN  again[d]

\* What a stream holds once no list is open reads back, with VeryStrict, as what it was
\* given, item by item: the headers put in front of lists afterwards, at the place each list
\* began, hold at every boundary of their length, and each list has as many items as were
\* announced and as many more as a refused append left in it.
ReadsBack ==
    Finished =>
        /\ HasItems(out)
        /\ ItemCount(out) = Len(opened[1].items)
        /\ \A k \in 1..ItemCount(out) :
               /\ Whole(Item(out, k - 1))
               /\ Items(Item(out, k - 1)) = opened[1].items[k]

\* Bytes that VeryStrict takes, with every item in them, are the only ones that say what they
\* say: written again they are the same, also as the number they hold.  Hashes of nodes and
\* transactions rest on it.
StrictIsCanonical ==
    lastIndex = NoIndex /\ reading = "none" /\ rlp.flags = VeryStrict /\ Whole(rlp.bytes) =>
        /\ Rewritten(rlp.bytes) = rlp.bytes
        /\ HasInt(rlp.bytes, MaxLengthBytes) => IntBytes(ToInt(rlp.bytes)) = rlp.bytes

IndexFinds ==
    LET p == Payload(rlp.bytes)
        there == HasPayload(rlp.bytes) /\ HasItem(p, answer.index)
    IN  reading = "none" /\ answer # NoAnswer =>
            IF answer.ok THEN there /\ answer.item = Item(p, answer.index) ELSE there => threw
LoopFinds ==
    reading = "loop" /\ IsList(rlp.bytes) =>
        LET p == Payload(rlp.bytes) IN
        /\ \A k \in DOMAIN visited : HasItem(p, k - 1) /\ visited[k] = Item(p, k - 1)
        /\ SamePlace(iterator, EndIterator) => HasItems(p) /\ Len(visited) = ItemCount(p)

\* The items of an object are the same however they are reached.  What operator[] answers from
\* the item it kept is what a new object would answer, whatever was asked before; only after a
\* call that threw may it throw for an item that is there.  A loop has the same items in their
\* order, and all of them when it ends.
ReadersAgree == IndexFinds /\ LoopFinds

\* A loop over an object that is as long as it says ends.
LoopsEnd ==
    reading = "loop" /\ (IsList(rlp.bytes) => ActualSize(rlp.bytes) = Len(rlp.bytes)) ~> reading # "loop"
=============================================================================
