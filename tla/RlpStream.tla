----------------------------- MODULE RlpStream -----------------------------
(***************************************************************************)
(* RLPStream: bytes go to the end of m_out at once, and the header of a    *)
(* list is put in front of its contents when the last of its items has     *)
(* come, which may complete the list around it too.  A call writes its     *)
(* bytes first; noteAppended then counts them, one list at a time.         *)
(*                                                                         *)
(* Items are what the caller appends: strings, and lists with the items    *)
(* they were announced to have.  opened keeps, for the stream itself and   *)
(* each list still open, what was announced and given; made is another     *)
(* stream's output, to be appended as it is.                               *)
(***************************************************************************)
EXTENDS RlpFormat

CONSTANTS
    Strings,        \* byte strings to append
    Numbers,        \* numbers to append
    ListSizes,      \* how many items appendList may announce
    MaxCalls,       \* bound on the calls that append
    MaxOpen         \* bound on the lists open at once

ASSUME StreamAssumption ==
    /\ Strings \subseteq Seq(Bytes)
    /\ Numbers \subseteq Nat /\ ListSizes \subseteq Nat
    /\ MaxCalls \in Nat /\ MaxOpen \in Nat

VARIABLES
    out,            \* m_out
    listStack,      \* m_listStack: the items a list still waits for, and where it begins
    noting,         \* noteAppended's _itemCount; 0 when no call is under way
    \* history
    opened,         \* [count, items] of the stream and of each list still open
    made,           \* [bytes, items] of an earlier stream
    calls           \* how many calls appended, of MaxCalls

streamVars == <<out, listStack, noting, opened, made, calls>>

StringItem(s) == [kind |-> "string", bytes |-> s]
ListItem(count, items) == [kind |-> "list", count |-> count, items |-> items]
Announced(count) == [count |-> count, items |-> <<>>]
Nothing == [bytes |-> <<>>, items |-> <<>>]

StreamEmpty == out = <<>> /\ listStack = <<>> /\ noting = 0 /\ opened = <<Announced(0)>>
StreamInit == StreamEmpty /\ made = Nothing /\ calls = 0

Top(s) == s[Len(s)]

\* A bound: with the headers to come, the bytes stay below what a reader takes for a length.
Room(size, lists) == Len(out) + size + (1 + MaxLengthBytes) * (Len(listStack) + lists) < MaxSize - Base
-----------------------------------------------------------------------------
(* append, appendRaw and appendList of bytes: bytes that hold some items. *)

Write(bytes, items) ==
    /\ noting = 0
    /\ calls < MaxCalls /\ calls' = calls + 1
    /\ Room(Len(bytes), 0)
    /\ out' = out \o bytes
    /\ noting' = Len(items)
    /\ opened' = [opened EXCEPT ![Len(opened)].items = @ \o items]
    /\ UNCHANGED <<listStack, made>>

Append_(s) == Write(StringBytes(s), <<StringItem(s)>>)
AppendCompact(s) == Write(StringBytes(Compact(s)), <<StringItem(Compact(s))>>)
AppendNumber(n) == Write(IntBytes(n), <<StringItem(BigEndian(n))>>)
AppendRaw == Write(made.bytes, made.items)
AppendListBytes ==
    Write(ListHeader(Len(made.bytes)) \o made.bytes, <<ListItem(Len(made.items), made.items)>>)

\* appendList(_items): a list of nothing is written at once.
AppendList(n) ==
    IF n = 0
    THEN Write(ListHeader(0), <<ListItem(0, <<>>)>>)
    ELSE /\ noting = 0 /\ Len(listStack) < MaxOpen
         /\ calls < MaxCalls /\ calls' = calls + 1
         /\ Room(0, 1)
         /\ listStack' = Append(listStack, [left |-> n, at |-> Len(out)])
         /\ opened' = Append(opened, Announced(n))
         /\ UNCHANGED <<out, noting, made>>
-----------------------------------------------------------------------------
(* noteAppended *)

\* The list waits for fewer: the call throws, and what it wrote stays in the list.
NoteRefused ==
    /\ noting > 0 /\ listStack # <<>>
    /\ Top(listStack).left < noting
    /\ noting' = 0
    /\ opened' = [opened EXCEPT ![Len(opened)].count = @ + noting]
    /\ UNCHANGED <<out, listStack, made, calls>>

NoteCounted ==
    /\ noting > 0 /\ listStack # <<>>
    /\ Top(listStack).left > noting
    /\ listStack' = [listStack EXCEPT ![Len(listStack)].left = @ - noting]
    /\ noting' = 0
    /\ UNCHANGED <<out, opened, made, calls>>

\* A defect: the list around a list that is complete counts the items of the inner one.
NoteCompletedKeeps ==
    /\ noting > 0 /\ listStack # <<>>
    /\ Top(listStack).left = noting
    /\ LET at == Top(listStack).at
           contents == CropFrom(out, at)
       IN  out' = Crop(out, 0, at) \o ListHeader(Len(contents)) \o contents
    /\ listStack' = Front(listStack)
    /\ opened' = LET outer == Front(opened)
                 IN  [outer EXCEPT ![Len(outer)].items = Append(@, ListItem(Top(opened).count, Top(opened).items))]
    /\ UNCHANGED <<noting, made, calls>>

\* The list is complete: its header goes in front, and the list around it has one more item.
NoteCompleted ==
    /\ noting > 0 /\ listStack # <<>>
    /\ Top(listStack).left = noting
    /\ LET at == Top(listStack).at
           contents == CropFrom(out, at)
       IN  out' = Crop(out, 0, at) \o ListHeader(Len(contents)) \o contents
    /\ listStack' = Front(listStack)
    /\ opened' = LET outer == Front(opened)
                 IN  [outer EXCEPT ![Len(outer)].items = Append(@, ListItem(Top(opened).count, Top(opened).items))]
    /\ noting' = 1
    /\ UNCHANGED <<made, calls>>

NoteEnds ==
    /\ noting > 0 /\ listStack = <<>>
    /\ noting' = 0
    /\ UNCHANGED <<out, listStack, opened, made, calls>>
-----------------------------------------------------------------------------
(* out(), invalidate(), swapOut(): they throw, and change nothing, while a list is open. *)

Finished == noting = 0 /\ listStack = <<>>

Emptied == out' = <<>> /\ listStack' = <<>> /\ noting' = 0 /\ opened' = <<Announced(0)>>

Clear ==
    /\ noting = 0
    /\ Emptied
    /\ UNCHANGED <<made, calls>>

\* The output is taken and another stream begun.
SwapOut ==
    /\ Finished
    /\ made' = [bytes |-> out, items |-> opened[1].items]
    /\ Emptied /\ UNCHANGED calls

StreamNext ==
    \/ \E s \in Strings : Append_(s) \/ AppendCompact(s)
    \/ \E n \in Numbers : AppendNumber(n)
    \/ \E n \in ListSizes : AppendList(n)
    \/ AppendRaw \/ AppendListBytes
    \/ NoteRefused \/ NoteCounted \/ NoteCompleted \/ NoteEnds
    \/ Clear \/ SwapOut
=============================================================================
