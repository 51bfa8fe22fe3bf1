----------------------------- MODULE RlpReader -----------------------------
(***************************************************************************)
(* An RLP object over bytes: operator[] with the item it keeps from the    *)
(* call before, and a loop over the items with the iterator.  Each turn of *)
(* the loop in operator[], and each operator++, is a step.                 *)
(***************************************************************************)
EXTENDS RlpFormat

CONSTANTS
    Inputs,         \* [bytes, flags] an object may be constructed from
    Indices         \* the arguments of operator[]

\* None is the index that stands for none.
ASSUME ReaderAssumption ==
    /\ Inputs \subseteq [bytes : Seq(Bytes), flags : SUBSET Flags]
    /\ Indices \subseteq 0..(MaxSize - 1)

VARIABLES
    rlp,            \* m_data and the flags it passed; Unread when there is no object
    lastIndex,      \* m_lastIndex, at first (size_t)-1
    lastEnd,        \* m_lastEnd
    lastItem,       \* m_lastItem
    reading,        \* "none", "index" within operator[], "loop" within a loop over the items
    index,          \* operator[]'s argument
    iterator,       \* where m_currentItem is in m_data and its size, and m_remaining
    \* history
    answer,         \* what the last operator[] returned: an item, or that it threw
    threw,          \* one before it threw
    visited         \* the items the loop has had

cache == <<lastIndex, lastEnd, lastItem>>
readerVars == <<rlp, cache, reading, index, iterator, answer, threw, visited>>

Unread == [bytes |-> <<>>, flags |-> Flags]
NoIndex == MaxSize
\* A reference to no bytes at all: it has no place in m_data.
Nowhere == [at |-> -1, size |-> 0, remaining |-> 0]
NoAnswer == [index |-> NoIndex, ok |-> TRUE, item |-> <<>>]

ReaderInit ==
    /\ rlp = Unread
    /\ lastIndex = NoIndex /\ lastEnd = 0 /\ lastItem = <<>>
    /\ reading = "none" /\ index = 0 /\ iterator = Nowhere
    /\ answer = NoAnswer /\ threw = FALSE /\ visited = <<>>

Constructed(input) ==
    /\ rlp' = input
    /\ lastIndex' = NoIndex /\ lastEnd' = 0 /\ lastItem' = <<>>
    /\ index' = 0 /\ answer' = NoAnswer /\ threw' = FALSE
    /\ UNCHANGED <<reading, iterator, visited>>

\* A constructor that does not throw.
Construct(input) ==
    /\ rlp = Unread
    /\ Opens(input.bytes, input.flags)
    /\ Constructed([input EXCEPT !.bytes = Opened(@, input.flags)])

Drop ==
    /\ reading = "none" /\ rlp # Unread
    /\ Constructed(Unread)
-----------------------------------------------------------------------------
(* operator[] *)

Returns(i, item) == answer' = [index |-> i, ok |-> TRUE, item |-> item]
Throws(i) == answer' = [index |-> i, ok |-> FALSE, item |-> <<>>]

Subscript(i) ==
    /\ reading = "none" /\ rlp # Unread
    /\ index' = i /\ threw' = (threw \/ ~answer.ok)
    /\ IF i >= lastIndex
       THEN reading' = "index" /\ UNCHANGED <<cache, answer>>
       ELSE LET p == Payload(rlp.bytes) IN
            IF HasPayload(rlp.bytes) /\ HasSize(p)
            THEN /\ lastEnd' = ActualSize(p) /\ lastItem' = Crop(p, 0, ActualSize(p)) /\ lastIndex' = 0
                 /\ reading' = "index"
                 /\ UNCHANGED answer
            ELSE Throws(i) /\ UNCHANGED <<cache, reading>>
    /\ UNCHANGED <<rlp, iterator, visited>>

\* A defect: the index is counted before the item is known to be there.
NextItemEarly ==
    /\ reading = "index" /\ lastIndex < index /\ lastItem # <<>>
    /\ lastIndex' = lastIndex + 1
    /\ LET rest == CropFrom(Payload(rlp.bytes), lastEnd) IN
       IF HasSize(rest)
       THEN /\ lastItem' = Crop(rest, 0, ActualSize(rest))
            /\ lastEnd' = lastEnd + ActualSize(rest)
            /\ UNCHANGED <<reading, answer>>
       ELSE /\ UNCHANGED <<lastItem, lastEnd>>
            /\ reading' = "none" /\ Throws(index)
    /\ UNCHANGED <<rlp, index, iterator, threw, visited>>

NextItem ==
    /\ reading = "index" /\ lastIndex < index /\ lastItem # <<>>
    /\ LET rest == CropFrom(Payload(rlp.bytes), lastEnd) IN
       IF HasSize(rest)
       THEN /\ lastItem' = Crop(rest, 0, ActualSize(rest))
            /\ lastEnd' = lastEnd + ActualSize(rest)
            /\ lastIndex' = lastIndex + 1
            /\ UNCHANGED <<reading, answer>>
       ELSE \* what it threw over stays for the item
            /\ lastItem' = rest
            /\ reading' = "none" /\ Throws(index)
            /\ UNCHANGED <<lastIndex, lastEnd>>
    /\ UNCHANGED <<rlp, index, iterator, threw, visited>>

ReturnItem ==
    /\ reading = "index" /\ ~(lastIndex < index /\ lastItem # <<>>)
    /\ reading' = "none"
    /\ UNCHANGED <<rlp, cache, index, iterator, threw, visited>>
    \* the constructor of what is returned
    /\ IF Opens(lastItem, {"ThrowOnFail", "FailIfTooSmall"}) THEN Returns(index, lastItem) ELSE Throws(index)
-----------------------------------------------------------------------------
(* for (auto const& i: rlp), which toVector, toSet and printing use. *)

EndIterator == [at |-> Len(rlp.bytes), size |-> 0, remaining |-> 0]
SamePlace(i, j) == i.at = j.at /\ i.size = j.size

Loop ==
    /\ reading = "none" /\ rlp # Unread
    /\ IF ~IsList(rlp.bytes)
       THEN iterator' = EndIterator /\ reading' = "loop"
       ELSE LET p == Payload(rlp.bytes)
                at == PayloadOffset(rlp.bytes)
            IN  IF HasPayload(rlp.bytes) /\ HasSize(p)
                THEN /\ iterator' = IF at + Length(rlp.bytes) > Len(rlp.bytes) THEN Nowhere
                                    ELSE [at |-> at, size |-> ActualSize(p), remaining |-> Len(p) - ActualSize(p)]
                     /\ reading' = "loop"
                ELSE UNCHANGED <<iterator, reading>>
    /\ visited' = <<>>
    /\ UNCHANGED <<rlp, cache, index, answer, threw>>

Moved(i, size) == [at |-> i.at + i.size, size |-> size, remaining |-> i.remaining - size]
\* A defect: the reference to no bytes is at the last item and not after it.
PastLastStays(i) == [i EXCEPT !.size = 0]
\* Past the last item is a reference to no bytes, after it.
PastLast(i) == IF i = Nowhere THEN Nowhere ELSE Moved(i, 0)

\* The body has the item, then operator++; an exception leaves the loop.
Increment ==
    /\ reading = "loop" /\ ~SamePlace(iterator, EndIterator)
    /\ LET rest == Crop(rlp.bytes, iterator.at + iterator.size, iterator.remaining) IN
       IF iterator.remaining = 0
       THEN iterator' = PastLast(iterator) /\ UNCHANGED reading
       ELSE IF HasSize(rest)
       THEN iterator' = Moved(iterator, ActualSize(rest)) /\ UNCHANGED reading
       ELSE iterator' = Nowhere /\ reading' = "none"
    /\ visited' = IF reading' = "none" THEN <<>>
                  ELSE IF iterator.size = 0 THEN visited
                  ELSE Append(visited, Crop(rlp.bytes, iterator.at, iterator.size))
    /\ UNCHANGED <<rlp, cache, index, answer, threw>>

LoopEnds ==
    /\ reading = "loop" /\ SamePlace(iterator, EndIterator)
    /\ reading' = "none" /\ iterator' = Nowhere /\ visited' = <<>>
    /\ UNCHANGED <<rlp, cache, index, answer, threw>>

ReaderNext ==
    \/ rlp = Unread /\ \E input \in Inputs : Construct(input)
    \/ Drop
    \/ \E i \in Indices : Subscript(i)
    \/ NextItem \/ ReturnItem
    \/ Loop \/ Increment \/ LoopEnds
=============================================================================
