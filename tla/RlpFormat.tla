----------------------------- MODULE RlpFormat -----------------------------
(***************************************************************************)
(* The recursive-length-prefix format as RLP and RLPStream compute it.  A  *)
(* byte below DataImmLenStart is itself; another first byte tells a string *)
(* from a list and holds either the length of what follows or, near the    *)
(* end of its range, how many bytes of length come first.                  *)
(*                                                                         *)
(* The constants are those of the code (256, 0x80, 0xc0, 8), so that a     *)
(* small base meets every boundary with few bytes.  A bytesConstRef is a   *)
(* sequence; what throws has a predicate of its own, Has...                *)
(***************************************************************************)
EXTENDS Integers, Sequences, SequencesExt

CONSTANTS
    Base,               \* 0x100
    DataImmLenStart,    \* c_rlpDataImmLenStart
    ListStart,          \* c_rlpListStart
    MaxLengthBytes      \* c_rlpMaxLengthBytes, also the bytes of a size_t

Bytes == 0..(Base - 1)
DataImmLenCount == ListStart - DataImmLenStart - MaxLengthBytes
DataIndLenZero == DataImmLenStart + DataImmLenCount - 1
ListImmLenCount == Base - ListStart - MaxLengthBytes
ListIndLenZero == ListStart + ListImmLenCount - 1

Power == LET power[k \in Nat] == IF k = 0 THEN 1 ELSE power[k - 1] * Base IN power
\* The last size_t.
MaxSize == Power[MaxLengthBytes] - 1

ASSUME RlpAssumption ==
    /\ {Base, DataImmLenStart, ListStart, MaxLengthBytes} \subseteq Nat \ {0}
    /\ DataImmLenCount > 1 /\ ListImmLenCount > 1
    /\ MaxSize > Base
-----------------------------------------------------------------------------
(* Numbers as bytes, the highest first: toBigEndian and fromBigEndian. *)

BytesRequired(n) ==
    LET required[m \in Nat] == IF m = 0 THEN 0 ELSE 1 + required[m \div Base]
    IN  required[n]
BigEndian(n) ==
    LET bytes[m \in Nat] == IF m = 0 THEN <<>> ELSE Append(bytes[m \div Base], m % Base)
    IN  bytes[n]
NumberOf(s) ==
    LET number[k \in 0..Len(s)] == IF k = 0 THEN 0 ELSE number[k - 1] * Base + s[k]
    IN  number[Len(s)]

\* vector_ref::cropped: nothing where it would leave the bytes.
Crop(d, from, count) == IF from + count <= Len(d) THEN SubSeq(d, from + 1, from + count) ELSE <<>>
CropFrom(d, from) == SubSeq(d, from + 1, Len(d))
-----------------------------------------------------------------------------
(* What RLPStream writes in front of contents, and for a string and an integer. *)

Header(size, start, immLenCount) ==
    IF size < immLenCount
    THEN <<start + size>>
    ELSE <<start + immLenCount - 1 + BytesRequired(size)>> \o BigEndian(size)
DataHeader(size) == Header(size, DataImmLenStart, DataImmLenCount)
ListHeader(size) == Header(size, ListStart, ListImmLenCount)

StringBytes(s) == IF Len(s) = 1 /\ s[1] < DataImmLenStart THEN s ELSE DataHeader(Len(s)) \o s
\* _compact: the zeros in front go.
Compact(s) == IF \A k \in DOMAIN s : s[k] = 0 THEN <<>>
              ELSE CropFrom(s, CHOOSE n \in 0..Len(s) : s[n + 1] # 0 /\ \A k \in 1..n : s[k] = 0)
IntBytes(n) ==
    IF n = 0 THEN <<DataImmLenStart>>
    ELSE IF n < DataImmLenStart THEN <<n>>
    ELSE DataHeader(BytesRequired(n)) \o BigEndian(n)
-----------------------------------------------------------------------------
(* What RLP reads in the bytes in front. *)

IsNull(d) == d = <<>>
IsData(d) == d # <<>> /\ d[1] < ListStart
IsList(d) == d # <<>> /\ d[1] >= ListStart
IsSingleByte(d) == d # <<>> /\ d[1] < DataImmLenStart
LengthSize(d) ==
    IF IsData(d) /\ d[1] > DataIndLenZero THEN d[1] - DataIndLenZero
    ELSE IF IsList(d) /\ d[1] > ListIndLenZero THEN d[1] - ListIndLenZero ELSE 0
PayloadOffset(d) == IF IsSingleByte(d) THEN 0 ELSE 1 + LengthSize(d)

\* requireGood: a byte that is itself is not a string of one.
IsGood(d) == d # <<>> /\ (d[1] = DataImmLenStart + 1 => Len(d) > 1 /\ d[2] >= DataImmLenStart)

LengthRead(d) == NumberOf(SubSeq(d, 2, 1 + LengthSize(d)))
\* A defect: a length that needs no bytes of its own may have some.
HasLengthAnyway(d) ==
    \/ IsNull(d)
    \/ /\ IsGood(d)
       /\ LengthSize(d) > 0 => Len(d) > LengthSize(d) /\ d[2] # 0 /\ LengthRead(d) < MaxSize - Base
HasLength(d) ==
    \/ IsNull(d)
    \/ /\ IsGood(d)
       /\ LengthSize(d) > 0 =>
             /\ Len(d) > LengthSize(d)
             /\ d[2] # 0
             /\ LengthRead(d) >= IF IsList(d) THEN ListImmLenCount ELSE DataImmLenCount
             /\ LengthRead(d) < MaxSize - Base
Length(d) ==
    IF IsNull(d) THEN 0
    ELSE IF IsSingleByte(d) THEN 1
    ELSE IF LengthSize(d) > 0 THEN LengthRead(d)
    ELSE d[1] - IF IsList(d) THEN ListStart ELSE DataImmLenStart

\* The length alone is compared with the bytes there are, without what it is counted from.
HasPayload(d) == HasLength(d) /\ Length(d) <= Len(d)
Payload(d) == Crop(d, PayloadOffset(d), Length(d))

ActualSize(d) ==
    IF IsNull(d) THEN 0 ELSE IF IsSingleByte(d) THEN 1 ELSE PayloadOffset(d) + Length(d)
\* sizeAsEncoded(): ActualSize of what the bytes are long enough for.
HasSize(d) == HasLength(d) /\ ActualSize(d) <= Len(d)
-----------------------------------------------------------------------------
(* Constructors: a set of flags says what is refused, and whether by throwing. *)

Flags == {"AllowNonCanon", "ThrowOnFail", "FailIfTooBig", "FailIfTooSmall"}
Strict == {"ThrowOnFail", "FailIfTooBig"}
VeryStrict == {"ThrowOnFail", "FailIfTooBig", "FailIfTooSmall"}
LaissezFaire == {"AllowNonCanon"}

Fits(d, flags) ==
    /\ "FailIfTooBig" \in flags => ActualSize(d) >= Len(d)
    /\ "FailIfTooSmall" \in flags => ActualSize(d) <= Len(d)
\* actualSize() throws whatever the flags.
Opens(d, flags) ==
    /\ flags \cap {"FailIfTooBig", "FailIfTooSmall"} # {} => HasLength(d)
    /\ "ThrowOnFail" \in flags => Fits(d, flags)
Opened(d, flags) == IF Fits(d, flags) THEN d ELSE <<>>
-----------------------------------------------------------------------------
(* The items of a payload, one after the other, and conversions of one. *)

ItemStart(p) ==
    LET start[k \in Nat] ==
            IF k = 0 THEN 0
            ELSE LET at == start[k - 1]
                     rest == CropFrom(p, at)
                 IN  at + IF HasSize(rest) THEN ActualSize(rest) ELSE 0
    IN  start
HasItem(p, i) == \A k \in 0..i : HasSize(CropFrom(p, ItemStart(p)[k]))
Item(p, i) == Crop(p, ItemStart(p)[i], ItemStart(p)[i + 1] - ItemStart(p)[i])

\* items(), for bytes that are a payload: it throws when they do not end with an item.
Ends(p) == {n \in 0..Len(p) : ItemStart(p)[n] = Len(p)}
HasItems(p) == Ends(p) # {}
ItemCount(p) == IF HasItems(p) THEN Min(Ends(p)) ELSE 0

\* toInt<T>(), T of width bytes: it takes what isInt() does, no zero in front.
HasInt(d, width) ==
    /\ IsGood(d) /\ IsData(d) /\ HasPayload(d)
    /\ d[1] # DataImmLenStart => Len(d) > PayloadOffset(d) /\ d[PayloadOffset(d) + 1] # 0
    /\ Len(Payload(d)) <= width
ToInt(d) == NumberOf(Payload(d))
=============================================================================
