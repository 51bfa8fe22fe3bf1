------------------------------ MODULE TrieNode ------------------------------
(***************************************************************************)
(* The nodes of the Merkle Patricia trie, their sizes, and the reference   *)
(* construction of a trie from its contents: TrieCommon.h, TrieCommon.cpp  *)
(* and TrieHash.cpp.                                                       *)
(*                                                                         *)
(* A slot of a node holds nothing (Null), another node inline when its RLP *)
(* is shorter than a hash, or a hash; hashing is perfect, so a hash is the *)
(* node behind one level of wrapping.  Values are opaque, with the size    *)
(* that decides what is inline; no value is empty.                         *)
(***************************************************************************)
EXTENDS Integers, Sequences, FiniteSets, FiniteSetsExt

CONSTANTS
    Nibbles,      \* the nibbles keys are made of, a part of 0..15
    Values,       \* what may be stored
    NoValue,      \* the absence of a value
    SizeOf        \* [Values -> bytes]; a value of one byte is below 0x80

ASSUME NibblesAssumption == Nibbles \subseteq 0..15 /\ Nibbles # {}
ASSUME ValuesAssumption ==
    NoValue \notin Values /\ SizeOf \in [Values -> 1..255]

HashSize == 32
ValueSlot == 16        \* a branch's slot for the value that ends at it

\* RLP sizes, which a node carries: a string of one byte is itself, a payload
\* above 55 bytes has a second byte of length (none reaches 256).
StringSize(n) == IF n <= 1 THEN 1 ELSE IF n < 56 THEN n + 1 ELSE n + 2
ListSize(payload) == IF payload < 56 THEN payload + 1 ELSE payload + 2
ValueSize(v) == IF v = NoValue THEN 1 ELSE StringSize(SizeOf[v])
HexPrefixSize(k) == StringSize(Len(k) \div 2 + 1)
SlotSize(slot) == IF slot.kind = "hash" THEN 1 + HashSize ELSE slot.size
PairSize(k, leaf, item) ==
    ListSize(HexPrefixSize(k) + IF leaf THEN ValueSize(item) ELSE SlotSize(item))
BranchSize(child, v) ==
    ListSize((16 - Cardinality(Nibbles)) + ValueSize(v) +
             MapThenSumSet(LAMBDA i : SlotSize(child[i]), Nibbles))

Null == [kind |-> "null", size |-> 1]
Absent == [kind |-> "absent"]   \* what a lookup of an unknown hash reads
Pair(k, leaf, item) == [kind |-> "pair", key |-> k, leaf |-> leaf, item |-> item,
                        size |-> PairSize(k, leaf, item)]
Leaf(k, v) == Pair(k, TRUE, v)
Extension(k, slot) == Pair(k, FALSE, slot)
BranchNode(child, v) == [kind |-> "branch", child |-> child, value |-> v,
                         size |-> BranchSize(child, v)]
NoChild == [i \in Nibbles |-> Null]
HashOf(n) == [kind |-> "hash", node |-> n]

\* What a node becomes in its parent's slot (streamNode, hash256aux).
Fits(n) == n.size < HashSize
SlotFor(n) == IF Fits(n) THEN n ELSE HashOf(n)

-----------------------------------------------------------------------------
\* Nibble slices.
Mid(k, n) == SubSeq(k, n + 1, Len(k))
Shared(a, b) == Max({n \in 0..Min({Len(a), Len(b)}) : SubSeq(a, 1, n) = SubSeq(b, 1, n)})
Contains(a, b) == Shared(a, b) = Len(b)

IsEarlierThan(a, b) ==
    LET s == Shared(a, b)
    IN  IF s < Len(a) /\ s < Len(b) THEN a[s + 1] < b[s + 1] ELSE s < Len(b)

InUse(b) == {i \in Nibbles : b.child[i] # Null}
            \cup (IF b.value # NoValue THEN {ValueSlot} ELSE {})

UniqueInUse(b, except) ==
    LET used == InUse(b) \ {except}
    IN  IF Cardinality(used) = 1 THEN CHOOSE i \in used : TRUE ELSE 255

-----------------------------------------------------------------------------
\* hash256: the trie of the entries whose keys are ks, cut after pre nibbles,
\* built from nothing.
Hash256Nodes(entries) ==
    LET node[ks \in SUBSET DOMAIN entries, pre \in Nat] ==
        IF ks = {} THEN Null
        ELSE LET first == CHOOSE k \in ks : TRUE
                 sharedPre == Min({Shared(first, k) : k \in ks})
                 ended == {k \in ks : Len(k) = pre}
             IN  CASE ks = {first} -> Leaf(Mid(first, pre), entries[first])
                   [] ks # {first} /\ sharedPre > pre ->
                         Extension(SubSeq(first, pre + 1, sharedPre),
                                   SlotFor(node[ks, sharedPre]))
                   [] OTHER ->
                         BranchNode([i \in Nibbles |->
                                 SlotFor(node[{k \in ks \ ended : k[pre + 1] = i}, pre + 1])],
                                 IF ended = {} THEN NoValue
                                 ELSE entries[CHOOSE k \in ended : TRUE])
    IN  node

Hash256(entries) == Hash256Nodes(entries)[{k \in DOMAIN entries : entries[k] # NoValue}, 0]

=============================================================================
