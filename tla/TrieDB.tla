------------------------------- MODULE TrieDB -------------------------------
(***************************************************************************)
(* GenericTrieDB of include/web3cpp/devcore/TrieDB.h: a Merkle Patricia    *)
(* trie kept in a reference-counted node store, with its iterator.         *)
(* An operation that changes the store returns the store with its result,  *)
(* so that kills and insertions happen in the code's order.                *)
(***************************************************************************)
EXTENDS TrieNode, StateCacheDB

CONSTANTS
    Keys,          \* the keys used, sequences of nibbles of even length
    Longest,       \* the length of the longest key
    MaxUnpurged    \* bound: changes between two purges of the store

ASSUME KeysAssumption ==
    /\ Longest \in Nat
    /\ \A k \in Keys : k \in Seq(Nibbles) /\ Len(k) % 2 = 0 /\ Len(k) <= Longest
ASSUME MaxUnpurgedAssumption == MaxUnpurged \in Nat

VARIABLES
    main,          \* StateCacheDB::m_main
    root,          \* m_root: the node it is the hash of
    contents,      \* what has been inserted and not removed
    exact,         \* FALSE once a count may differ from the references
    unpurged,      \* changes since the last purge
    iter           \* an iterator, with what it has visited and its snapshot

vars == <<main, root, contents, exact, unpurged, iter>>

-----------------------------------------------------------------------------
\* deref, node: the node in a slot.
Deref(db, slot) ==
    IF slot.kind # "hash" THEN slot
    ELSE IF DbLookup(db, slot.node) THEN slot.node ELSE Absent

KillNode(db, n) == IF Fits(n) THEN db ELSE DbKill(db, n)

\* A result: the bytes made, none of them when nothing changed, or a throw.
Changed(b, db) == [out |-> "changed", b |-> b, db |-> db]
NoChange(db) == [out |-> "unchanged", b |-> Null, db |-> db]
Threw(db) == [out |-> "threw", b |-> Null, db |-> db]

\* A defect: a node of exactly 32 bytes is kept inline.
StreamNodeLonger(r) ==
    IF r.b.size <= HashSize THEN [out |-> r.out, slot |-> r.b, db |-> r.db]
    ELSE [out |-> r.out, slot |-> HashOf(r.b), db |-> DbInsert(r.db, r.b)]

StreamNode(r) ==
    IF Fits(r.b) THEN [out |-> r.out, slot |-> r.b, db |-> r.db]
    ELSE [out |-> r.out, slot |-> HashOf(r.b), db |-> DbInsert(r.db, r.b)]

\* The recursion of atAux, mergeAt and deleteAt: each call has the store, a
\* slot, and what of the key is ahead of it.
Call(db, slot, k) == [db |-> db, slot |-> slot, key |-> k]
NodeOf(c) == Deref(c.db, c.slot)

\* A call is followed by another one below an extension that begins what is
\* ahead, and below a branch while something is ahead.
Follows(n, k) ==
    \/ n.kind = "pair" /\ ~n.leaf /\ Contains(k, n.key)
    \/ n.kind = "branch" /\ k # <<>>
GoesOn(c) == Follows(NodeOf(c), c.key)
Below(n, k) == IF n.kind = "pair" THEN n.item ELSE n.child[Head(k)]
Ahead(n, k) == IF n.kind = "pair" THEN Mid(k, Len(n.key)) ELSE Tail(k)

\* On its way down mergeAt kills the nodes that are not inline.
NextCall(c, kills) ==
    LET n == NodeOf(c)
    IN  IF GoesOn(c)
        THEN Call(IF kills /\ c.slot.kind = "hash" THEN KillNode(c.db, n) ELSE c.db,
                  Below(n, c.key), Ahead(n, c.key))
        ELSE c

\* A call takes a nibble at least, so the call of index Len(k) is the last.
Calls(db, rt, k, kills) ==
    LET call[m \in Nat] == IF m = 0 THEN Call(db, HashOf(rt), k)
                           ELSE NextCall(call[m - 1], kills)
    IN  call

\* What is stored at a node with k ahead.
Found(n, k) ==
    CASE n.kind = "pair" /\ n.leaf /\ k = n.key -> n.item
      [] n.kind = "branch" /\ k = <<>> -> n.value
      [] OTHER -> NoValue

At(db, rt, k) ==
    LET last == Calls(db, rt, k, FALSE)[Len(k)] IN Found(NodeOf(last), last.key)

-----------------------------------------------------------------------------
\* Insertion.
Place(db, orig, k, v) ==
    Changed(CASE orig.kind = "null"   -> Leaf(k, v)
              [] orig.kind = "pair"   -> Leaf(orig.key, v)
              [] orig.kind = "branch" -> BranchNode(orig.child, v),
            KillNode(db, orig))

\* The pair split after s nibbles.
Cleve(db, orig, s) ==
    LET bottom == StreamNode(Changed(Pair(Mid(orig.key, s), orig.leaf, orig.item),
                                     KillNode(db, orig)))
    IN  Changed(Extension(SubSeq(orig.key, 1, s), bottom.slot), bottom.db)

\* A defect: the value of a leaf that ends here is forgotten.
BranchForgets(db, orig) ==
    LET killed == KillNode(db, orig)
        rest == StreamNode(Changed(Pair(Tail(orig.key), orig.leaf, orig.item), killed))
    IN  IF orig.key = <<>> THEN Changed(BranchNode(NoChild, NoValue), killed)
        ELSE Changed(BranchNode([NoChild EXCEPT ![Head(orig.key)] = rest.slot], NoValue), rest.db)

\* The pair made a branch on its first nibble.
Branch(db, orig) ==
    LET killed == KillNode(db, orig)
        rest == StreamNode(Changed(Pair(Tail(orig.key), orig.leaf, orig.item), killed))
    IN  IF orig.key = <<>> THEN Changed(BranchNode(NoChild, orig.item), killed)
        ELSE IF orig.leaf \/ Len(orig.key) > 1
        THEN Changed(BranchNode([NoChild EXCEPT ![Head(orig.key)] = rest.slot], NoValue), rest.db)
        ELSE Changed(BranchNode([NoChild EXCEPT ![Head(orig.key)] = orig.item], NoValue), killed)

\* mergeAt where nothing goes on.  On what cleve and branch return it calls
\* itself, inline: cleve's extension leads to the bottom pair, which shares
\* nothing more with the key; branch's branch has nothing where the key goes.
PutInBranch(r, k, v) ==
    LET sub == StreamNode(Place(r.db, Deref(r.db, r.b.child[Head(k)]), Tail(k), v))
    IN  IF k = <<>> THEN Place(r.db, r.b, k, v)
        ELSE Changed(BranchNode([r.b.child EXCEPT ![Head(k)] = sub.slot], r.b.value), sub.db)

PutBelow(r, k, v) ==
    LET sub == StreamNode(PutInBranch(Branch(r.db, Deref(r.db, r.b.item)), k, v))
    IN  Changed(Extension(r.b.key, sub.slot), sub.db)

Put(c, v) ==
    LET n == NodeOf(c)
        sh == Shared(c.key, n.key)
    IN  CASE n.kind # "pair" \/ (n.leaf /\ c.key = n.key) -> Place(c.db, n, c.key, v)
          [] n.kind = "pair" /\ ~(n.leaf /\ c.key = n.key) /\ sh > 0 ->
                PutBelow(Cleve(c.db, n, sh), Mid(c.key, sh), v)
          [] OTHER -> PutInBranch(Branch(c.db, n), c.key, v)

\* n with another slot where k goes on.
WithBelow(n, k, slot) ==
    IF n.kind = "pair" THEN Extension(n.key, slot)
    ELSE BranchNode([n.child EXCEPT ![Head(k)] = slot], n.value)

\* mergeAt, mergeAtAux: what each call returns, from the last to the first.
MergeAt(db, rt, k, v) ==
    LET call == Calls(db, rt, k, TRUE)
        back[m \in Nat] ==
            LET c == call[Len(k) - m]
                sub == StreamNode(back[m - 1])
            IN  IF m = 0 THEN Put(c, v)
                ELSE IF GoesOn(c) THEN Changed(WithBelow(NodeOf(c), c.key, sub.slot), sub.db)
                ELSE back[m - 1]
    IN  back[Len(k)]

-----------------------------------------------------------------------------
\* Removal.
IsTwoItemNode(db, slot) == Deref(db, slot).kind = "pair"

\* A defect: the child that was grafted into its parent keeps its reference.
GraftKeeps(db, orig) ==
    LET n == Deref(db, orig.item)
    IN  Changed(Pair(orig.key \o n.key, n.leaf, n.item), db)

Graft(db, orig) ==
    LET n == Deref(db, orig.item)
    IN  Changed(Pair(orig.key \o n.key, n.leaf, n.item),
                IF orig.item.kind = "hash" THEN DbKill(db, orig.item.node) ELSE db)

Merge(orig, i) == IF i = ValueSlot THEN Leaf(<<>>, orig.value)
                                   ELSE Extension(<<i>>, orig.child[i])

\* The end of deleteAt: a branch with one thing left in it becomes a pair.  To
\* see whether that thing is a pair the code reads it as a hash, which throws
\* on a value longer than a hash; the kills before it stand.
Rejig(db, b, used) ==
    CASE used = 255 -> Changed(b, db)
      [] used = ValueSlot ->
            IF SizeOf[b.value] > HashSize THEN Threw(db) ELSE Changed(Merge(b, used), db)
      [] OTHER ->
            IF IsTwoItemNode(db, b.child[used]) THEN Graft(db, Merge(b, used))
                                                ELSE Changed(Merge(b, used), db)

\* What is left of an extension, and of a branch, whose child was changed to r;
\* the node itself is killed only after its child.
Shrink(n, k, r) ==
    LET killed == KillNode(r.db, n)
        left == WithBelow(n, k, r.slot)
    IN  CASE r.out # "changed" -> r
          [] r.out = "changed" /\ n.kind = "branch" -> Rejig(killed, left, UniqueInUse(left, 255))
          [] OTHER -> IF IsTwoItemNode(killed, r.slot) THEN Graft(killed, left)
                                                       ELSE Changed(left, killed)

\* deleteAtAux: what becomes of a child in its parent.
StreamChanged(r) ==
    IF r.out = "changed" THEN StreamNode(r) ELSE [out |-> r.out, slot |-> Null, db |-> r.db]

\* deleteAt where nothing goes on.  Past a leaf the code goes on into the leaf's
\* value, which it cannot read.
Take(c) ==
    LET n == NodeOf(c)
    IN  CASE n.kind = "branch" ->
                Rejig(KillNode(c.db, n), BranchNode(n.child, NoValue), UniqueInUse(n, ValueSlot))
          [] n.kind = "pair" /\ Contains(c.key, n.key) ->
                IF c.key = n.key THEN Changed(Null, KillNode(c.db, n)) ELSE Threw(c.db)
          [] OTHER -> NoChange(c.db)

DeleteAt(db, rt, k) ==
    LET call == Calls(db, rt, k, FALSE)
        back[m \in Nat] ==
            LET c == call[Len(k) - m]
            IN  IF m = 0 THEN Take(c)
                ELSE IF GoesOn(c) THEN Shrink(NodeOf(c), c.key, StreamChanged(back[m - 1]))
                ELSE back[m - 1]
    IN  back[Len(k)]

-----------------------------------------------------------------------------
(* The iterator: a trail of nodes, each with the key that leads to it and a *)
(* position, 255 on entering, then the value's slot, the children in order, *)
(* and 17 when it is done.  The end is the empty trail.                     *)
Entering == 255
Done == 17

\* A defect: the value's slot, numbered past the children, is taken for the last.
IncrementValueLast(c) == IF c \in {15, ValueSlot} THEN Done ELSE c + 1

Increment(c) == IF c = ValueSlot THEN 0 ELSE IF c = 15 THEN Done ELSE c + 1

\* The first slot in use from position c on.
FirstInUse(b, c) ==
    LET ahead == {i \in InUse(b) \ {ValueSlot} : c = ValueSlot \/ i >= c}
    IN  IF c = ValueSlot /\ b.value # NoValue THEN ValueSlot
        ELSE IF ahead = {} THEN Done ELSE Min(ahead)

\* The loop of next(_key): the trail, what of the key is ahead, and whether the
\* loop goes on.
Going(trail, k) == [trail |-> trail, key |-> k, on |-> TRUE]
Stopped(trail) == [trail |-> trail, key |-> <<>>, on |-> FALSE]

\* A defect: the rest of the key is kept for a child that is not on its path.
ScanBranchKeeps(db, up, b, c, k) ==
    LET s == FirstInUse(b.node, c)
        at == [b EXCEPT !.child = s]
    IN  CASE s = Done -> Going(up, <<>>)
          [] s = ValueSlot -> Stopped(Append(up, at))
          [] OTHER ->
                Going(up \o <<at, [node |-> Deref(db, b.node.child[s]),
                                   key |-> Append(b.key, s), child |-> Entering]>>, k)

ScanBranch(db, up, b, c, k) ==
    LET s == FirstInUse(b.node, c)
        at == [b EXCEPT !.child = s]
    IN  CASE s = Done -> Going(up, <<>>)
          [] s = ValueSlot -> Stopped(Append(up, at))
          [] OTHER ->
                Going(up \o <<at, [node |-> Deref(db, b.node.child[s]),
                                   key |-> Append(b.key, s), child |-> Entering]>>,
                      IF s = c THEN k ELSE <<>>)

\* One turn, for the last node b of a trail, of which up is the rest.
Turn(db, trail, k) ==
    LET b == trail[Len(trail)]
        up == SubSeq(trail, 1, Len(trail) - 1)
        n == b.node
        below == b.key \o n.key
        rest == IF Contains(k, n.key) THEN Mid(k, Len(n.key)) ELSE <<>>
    IN  CASE b.child = Entering /\ n.kind = "absent" -> Stopped(trail)
          [] b.child = Entering /\ n.kind = "pair" ->
                IF ~Contains(k, n.key) /\ ~IsEarlierThan(k, n.key) THEN Going(up, <<>>)
                ELSE IF ~n.leaf
                THEN Going(Append(up, [node |-> Deref(db, n.item), key |-> below,
                                       child |-> Entering]), rest)
                ELSE IF rest # <<>> THEN Going(up, <<>>)
                ELSE Stopped(Append(up, [node |-> n, key |-> below, child |-> 0]))
          [] b.child = Entering /\ n.kind = "branch" ->
                IF k = <<>> THEN ScanBranch(db, up, b, ValueSlot, <<>>)
                            ELSE ScanBranch(db, up, b, Head(k), Tail(k))
          [] b.child # Entering /\ n.kind = "branch" ->
                ScanBranch(db, up, b, Increment(b.child), k)
          [] OTHER -> Going(up, <<>>)

\* A search goes down the trie, up from where the key leaves it, and down again.
MostTurns == 3 * (Longest + 2)

\* next(_key): on to the first entry at or after the trail's position with k
\* ahead of it.
NextKey(db, trail, k) ==
    LET turn[m \in Nat] ==
            IF m = 0 THEN Going(trail, k)
            ELSE LET t == turn[m - 1]
                 IN  IF t.on /\ t.trail # <<>> THEN Turn(db, t.trail, t.key) ELSE t
    IN  turn[MostTurns].trail

NextEntry(db, trail) == NextKey(db, trail, <<>>)

RootTrail(db, rt) == <<[node |-> Deref(db, HashOf(rt)), key |-> <<>>, child |-> Entering]>>

LowerBound(db, rt, k) == NextKey(db, RootTrail(db, rt), k)

\* at(): the entry an iterator stands on.
EntryKey(trail) == trail[Len(trail)].key
EntryValue(trail) == LET n == trail[Len(trail)].node
                     IN  IF n.kind = "pair" THEN n.item ELSE n.value

-----------------------------------------------------------------------------
Empty == [k \in Keys |-> NoValue]
NoIter == [open |-> FALSE, root |-> Null, from |-> Empty, trail |-> <<>>, seen |-> {}]

\* init(): the store holds the empty node, referenced once by the root.
Init ==
    /\ root = Null
    /\ main = DbInsert(<<>>, root)
    /\ contents = Empty
    /\ exact = TRUE
    /\ unpurged = 0
    /\ iter = NoIter

\* The root is always hashed, so a short one is killed here and not below.
Reroot(r) ==
    /\ main' = DbInsert(IF Fits(root) THEN DbKill(r.db, root) ELSE r.db, r.b)
    /\ root' = r.b

Insert(k, v) ==
    /\ unpurged < MaxUnpurged
    /\ Reroot(MergeAt(main, root, k, v))
    /\ contents' = [contents EXCEPT ![k] = v]
    /\ unpurged' = unpurged + 1
    /\ UNCHANGED <<exact, iter>>

Present(c) == {k \in Keys : c[k] # NoValue}

\* Where the search for k ends at a branch without a value, the code reads the
\* nibble after the end of k: undefined, and left out.  Keys of one length, the
\* keys of every trie but the generic one, never do that.
RemoveDefined(k) ==
    contents[k] # NoValue \/
    ~\E i, j \in {p \in Present(contents) : Len(p) > Len(k) /\ Contains(p, k)} :
        i[Len(k) + 1] # j[Len(k) + 1]

Remove(k) ==
    /\ unpurged < MaxUnpurged
    /\ RemoveDefined(k)
    /\ LET r == DeleteAt(main, root, k)
       IN  \/ /\ r.out = "changed"
              /\ Reroot(r)
              /\ contents' = [contents EXCEPT ![k] = NoValue]
              /\ unpurged' = unpurged + 1
              /\ UNCHANGED exact
           \/ /\ r.out = "unchanged"
              /\ UNCHANGED <<main, root, contents, exact, unpurged>>
           \/ /\ r.out = "threw"
              /\ main' = r.db
              /\ exact' = (exact /\ r.db = main)
              /\ unpurged' = IF r.db = main THEN unpurged ELSE unpurged + 1
              /\ UNCHANGED <<root, contents>>
    /\ UNCHANGED iter

\* StateCacheDB::purge, which the trie's owner may call while the counts are
\* those of the trie and no iterator is out.
Purge ==
    /\ exact
    /\ ~iter.open
    /\ unpurged > 0
    /\ main' = DbPurge(main)
    /\ unpurged' = 0
    /\ UNCHANGED <<root, contents, exact, iter>>

Begin ==
    /\ unpurged = 0
    /\ LET t == NextEntry(main, RootTrail(main, root))
       IN  iter' = [open |-> TRUE, root |-> root, from |-> contents, trail |-> t,
                    seen |-> IF t = <<>> THEN {} ELSE {EntryKey(t)}]
    /\ UNCHANGED <<main, root, contents, exact, unpurged>>

Advance ==
    /\ iter.open
    /\ iter.trail # <<>>
    /\ LET t == NextEntry(main, iter.trail)
       IN  iter' = [iter EXCEPT !.trail = t,
                    !.seen = IF t = <<>> THEN @ ELSE @ \cup {EntryKey(t)}]
    /\ UNCHANGED <<main, root, contents, exact, unpurged>>

Close ==
    /\ iter.open
    /\ iter' = NoIter
    /\ UNCHANGED <<main, root, contents, exact, unpurged>>

\* setRoot back to the root the iterator was begun at: no reference is taken.
SetRoot ==
    /\ iter.open
    /\ iter.root # root
    /\ root' = iter.root
    /\ contents' = iter.from
    /\ exact' = FALSE
    /\ UNCHANGED <<main, unpurged, iter>>

\* open and init on a new store, once the counts of the old one are lost.
Reopen ==
    /\ ~exact
    /\ ~iter.open
    /\ root' = Null
    /\ main' = DbInsert(<<>>, Null)
    /\ contents' = Empty
    /\ exact' = TRUE
    /\ unpurged' = 0
    /\ UNCHANGED iter

Next ==
    \/ \E k \in Keys, v \in Values : Insert(k, v)
    \/ \E k \in Keys : Remove(k)
    \/ Purge
    \/ Begin
    \/ Advance
    \/ Close
    \/ SetRoot
    \/ Reopen

Spec == Init /\ [][Next]_vars

-----------------------------------------------------------------------------
\* Where slots may be: a slot's place is the nibbles that lead to it.
Places == UNION {[1..n -> Nibbles] : n \in 0..Longest}
SlotAt(db, rt, p) ==
    LET last == Calls(db, rt, p, FALSE)[Len(p)]
    IN  IF last.key = <<>> THEN last.slot ELSE Null

\* How often n is referenced by hash, by the root and below it.
RefsTo(db, rt, n) == Cardinality({p \in Places : SlotAt(db, rt, p) = HashOf(n)})

\* What is reached by hash from the root.
Reached(db, rt) ==
    {SlotAt(db, rt, p).node : p \in {q \in Places : SlotAt(db, rt, q).kind = "hash"}}

\* descendEntry: what an extension leads to is a branch.
DescendEntry(db, slot) ==
    LET n == Deref(db, slot)
    IN  n.kind = "branch" \/ (n.kind = "pair" /\ (n.leaf \/ Deref(db, n.item).kind = "branch"))

\* check(true): every referenced node is reachable, and every node reached is
\* there and is one a node of its place may be.
Check ==
    /\ DbKeys(main) \subseteq Reached(main, root)
    /\ root = Null \/ \A p \in Places :
        SlotAt(main, root, p) # Null => DescendEntry(main, SlotAt(main, root, p))

\* The order of iteration: by nibbles, a key before those that extend it.
Precedes(a, b) ==
    LET s == Shared(a, b) IN Len(b) > s /\ (Len(a) = s \/ a[s + 1] < b[s + 1])
FirstOf(ks) == CHOOSE k \in ks : \A j \in ks : j = k \/ Precedes(k, j)

-----------------------------------------------------------------------------
(* Properties.                                                             *)

\* The parts have their types, and the store always has the root's node: no
\* use of the trie ends in RootNotFound or BadRoot.
TypeOK ==
    /\ \A n \in DOMAIN main : main[n] \in Nat /\ n.kind \in {"null", "pair", "branch"}
    /\ root \in DOMAIN main
    /\ contents \in [Keys -> Values \cup {NoValue}]
    /\ exact \in BOOLEAN
    /\ unpurged \in 0..MaxUnpurged

\* at() reads back what insert() and remove() left, whatever shape the trie
\* went through, even after a removal that threw or a return to an old root.
ReadsContents == \A k \in Keys : At(main, root, k) = contents[k]

\* As long as the counts are kept, each is the number of references that
\* exist, so a purge deletes exactly what is not used, and check(true) holds.
CountsAreExact ==
    exact =>
        /\ Reached(main, root) \subseteq DOMAIN main
        /\ \A n \in DOMAIN main : main[n] = RefsTo(main, root, n)
        /\ Check

\* The root depends on the contents alone, not on the order of the changes
\* that led there: it is hash256 of TrieHash.cpp, built from nothing.
RootIsHash256 == root = Hash256(contents)

\* Until a purge the root an iterator was begun at reads back the contents of
\* then, whatever is changed meanwhile: a kill only counts.
SnapshotIsRead == iter.open => \A k \in Keys : At(main, iter.root, k) = iter.from[k]

\* And the iterator walks those contents, each key once and in order.
IteratorKeepsSnapshot ==
    iter.open =>
        IF iter.trail = <<>> THEN iter.seen = Present(iter.from)
        ELSE LET k == EntryKey(iter.trail)
             IN  /\ EntryValue(iter.trail) = iter.from[k]
                 /\ iter.seen = {j \in Present(iter.from) : j = k \/ Precedes(j, k)}

\* lower_bound finds the first key at or after the one given, present or not.
LowerBoundIsFirst ==
    \A k \in Keys :
        LET t == LowerBound(main, root, k)
            ks == {j \in Present(contents) : j = k \/ Precedes(k, j)}
        IN  IF ks = {} THEN t = <<>>
            ELSE t # <<>> /\ EntryKey(t) = FirstOf(ks) /\ EntryValue(t) = contents[FirstOf(ks)]

=============================================================================
