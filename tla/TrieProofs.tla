----------------------------- MODULE TrieProofs -----------------------------
(***************************************************************************)
(* Theorems about TrieDB, for any keys, values and sizes: at() reads back  *)
(* what was inserted and not removed, so does the root an iterator was     *)
(* begun at, and the counts of the store are the references there are.     *)
(*                                                                         *)
(* Trie(n, l, D) says that n is the root of a well-formed trie for keys of *)
(* at most l nibbles whose hashed nodes are in D; Find(n, k) is what it    *)
(* holds under k; R(n, h) counts the references by hash to h below n, and  *)
(* S(n, h) those with n's own.  Merged and Deleted say what mergeAt and    *)
(* deleteAt make of a trie and of the counts.  They are proved for the     *)
(* last call of the recursion and then for each call before it.            *)
(***************************************************************************)
EXTENDS TrieDB, TLAPS, WellFoundedInduction, SequenceTheorems, FiniteSetTheorems

(* Induction over a set of numbers. *)
Smaller == {ss \in Nat \X Nat : ss[1] < ss[2]}

\* A set of numbers with a member has a least one.
LEMMA FirstNumber ==
    ASSUME NEW T \in SUBSET Nat, NEW n \in T
    PROVE  \E m \in T : \A k \in T : m <= k
<1>1. OpToRel(<, Nat) = Smaller
  BY DEF OpToRel, Smaller
<1>2. IsWellFoundedOn(Smaller, Nat)
  BY <1>1, NatLessThanWellFounded, Zenon
<1>3. PICK x \in T : \A y \in T : ~ (<<y, x>> \in Smaller)
  BY <1>2, WFMin, Zenon
<1>4. \A y \in T : ~ (y < x)
  BY <1>3 DEF Smaller
<1> QED
  BY <1>4

\* Induction over a set of numbers, which stands for the predicate.
LEMMA SetInduction ==
    ASSUME NEW S, 0 \in S, \A n \in Nat : n \in S => n + 1 \in S
    PROVE  Nat \subseteq S
<1> SUFFICES ASSUME NEW n \in Nat \ S PROVE FALSE
  OBVIOUS
<1>1. PICK m \in Nat \ S : \A k \in Nat \ S : m <= k
  BY FirstNumber
<1>2. m # 0 /\ m - 1 \in Nat /\ m = (m - 1) + 1
  BY <1>1
<1>3. m - 1 \in S
  BY <1>1, <1>2
<1> QED
  BY <1>1, <1>2, <1>3

\* Induction over what is below.
LEMMA LessInduction ==
    ASSUME NEW S, \A n \in Nat : 0 .. (n - 1) \subseteq S => n \in S
    PROVE  Nat \subseteq S
<1> SUFFICES ASSUME NEW n \in Nat \ S PROVE FALSE
  OBVIOUS
<1>1. PICK m \in Nat \ S : \A k \in Nat \ S : m <= k
  BY FirstNumber
<1>2. 0 .. (m - 1) \subseteq S
  BY <1>1
<1> QED
  BY <1>1, <1>2

-----------------------------------------------------------------------------
(* Keys. *)

\* What is not empty has a first element and a rest.
LEMMA HeadAndTail ==
    ASSUME NEW S, NEW k \in Seq(S), k # <<>>
    PROVE  /\ Head(k) \in S /\ Tail(k) \in Seq(S) /\ Len(Tail(k)) = Len(k) - 1
           /\ Len(k) \in Nat /\ Len(k) > 0 /\ Len(Tail(k)) \in Nat
           /\ k = <<Head(k)>> \o Tail(k)
<1>1. Head(k) \in S /\ Tail(k) \in Seq(S) /\ Len(Tail(k)) = Len(k) - 1 /\ Len(k) \in Nat /\ Len(k) > 0
  OBVIOUS
<1> QED
  BY <1>1, SMT

\* One element put in front.
LEMMA Prepended ==
    ASSUME NEW S, NEW i \in S, NEW q \in Seq(S)
    PROVE  /\ <<i>> \o q \in Seq(S) /\ <<i>> \o q # <<>>
           /\ Head(<<i>> \o q) = i /\ Tail(<<i>> \o q) = q /\ Len(<<i>> \o q) = 1 + Len(q)
<1>1. <<i>> \in Seq(S) /\ Len(<<i>>) = 1
  OBVIOUS
<1>2. <<i>> \o q \in Seq(S) /\ Len(<<i>> \o q) = 1 + Len(q) /\ Len(q) \in Nat
  BY <1>1
<1>3. Tail(<<i>> \o q) = q
  OBVIOUS
<1> QED
  BY <1>1, <1>2, <1>3

\* The parts of a concatenation.
LEMMA Concatenated ==
    ASSUME NEW S, NEW a \in Seq(S), NEW b \in Seq(S)
    PROVE  /\ a \o b \in Seq(S) /\ Len(a \o b) = Len(a) + Len(b)
           /\ Len(a) \in Nat /\ Len(b) \in Nat
           /\ SubSeq(a \o b, 1, Len(a)) = a
           /\ Mid(a \o b, Len(a)) = b
<1>1. a \o b \in Seq(S) /\ Len(a \o b) = Len(a) + Len(b) /\ Len(a) \in Nat /\ Len(b) \in Nat
  BY ConcatProperties, LenProperties
<1>2. SubSeq(a \o b, 1, Len(a)) = a
  BY SubSeqOfConcat1, SubSeqFull, <1>1
<1>3. Mid(a \o b, Len(a)) = b
  BY <1>1 DEF Mid
<1> QED
  BY <1>1, <1>2, <1>3

\* A sequence cut after n elements.
LEMMA CutOff ==
    ASSUME NEW S, NEW k \in Seq(S), NEW n \in 0 .. Len(k)
    PROVE  /\ Mid(k, n) \in Seq(S) /\ Len(Mid(k, n)) = Len(k) - n
           /\ SubSeq(k, 1, n) \in Seq(S) /\ Len(SubSeq(k, 1, n)) = n
           /\ Len(k) \in Nat /\ n \in Nat
           /\ k = SubSeq(k, 1, n) \o Mid(k, n)
           /\ \A i \in 1 .. Len(k) - n : Mid(k, n)[i] = k[n + i]
           /\ \A i \in 1 .. n : SubSeq(k, 1, n)[i] = k[i]
<1>1. Len(k) \in Nat /\ n \in Nat
  OBVIOUS
<1>2. Mid(k, n) \in Seq(S) /\ Len(Mid(k, n)) = Len(k) - n
  BY <1>1 DEF Mid
<1>3. SubSeq(k, 1, n) \in Seq(S) /\ Len(SubSeq(k, 1, n)) = n
  BY <1>1
<1>4. \A i \in 1 .. Len(k) - n : Mid(k, n)[i] = k[n + i]
  BY <1>1 DEF Mid
<1>5. \A i \in 1 .. n : SubSeq(k, 1, n)[i] = k[i]
  BY <1>1
<1>6. k = SubSeq(k, 1, n) \o Mid(k, n)
  <2>1. SubSeq(k, 1, n) \o SubSeq(k, n + 1, Len(k)) = SubSeq(k, 1, Len(k))
    <3>1. 1 \in 1 .. Len(k) + 1 /\ n \in (1 - 1) .. Len(k) /\ Len(k) \in n .. Len(k)
      BY <1>1
    <3> QED
      BY <3>1, ConcatAdjacentSubSeq
  <2> QED
    BY <2>1, SubSeqFull, Zenon DEF Mid
<1> QED
  BY <1>1, <1>2, <1>3, <1>4, <1>5, <1>6

\* What follows the same beginning is the same.
LEMMA SameAhead ==
    ASSUME NEW S, NEW a \in Seq(S), NEW p \in Seq(S), NEW q \in Seq(S), a \o p = a \o q
    PROVE  p = q
BY Concatenated

\* The largest of some numbers.
LEMMA Largest ==
    ASSUME NEW b \in Nat, NEW T \in SUBSET (0 .. b), T # {}
    PROVE  Max(T) \in T /\ \A x \in T : x <= Max(T)
<1>1. \E m \in T : \A x \in T : x <= m
  <2> DEFINE U == {b - x : x \in T}
  <2>1. U \in SUBSET Nat /\ U # {}
    <3>1. PICK x \in T : TRUE
      OBVIOUS
    <3>2. b - x \in U
      BY <3>1
    <3> QED
      BY <3>2
  <2>2. PICK m \in U : \A k \in U : m <= k
    <3> HIDE DEF U
    <3>1. PICK n \in U : TRUE
      BY <2>1
    <3> QED
      BY <2>1, <3>1, FirstNumber
  <2>3. PICK x \in T : m = b - x
    BY <2>2
  <2>4. \A y \in T : b - x <= b - y
    BY <2>2, <2>3
  <2>5. \A y \in T : y <= x
    BY <2>4
  <2> QED
    BY <2>5
<1>2. Max(T) = CHOOSE m \in T : \A x \in T : m >= x
  BY DEF Max
<1>3. \A m, x \in T : x <= m <=> m >= x
  OBVIOUS
<1> QED
  BY <1>1, <1>2, <1>3

\* sharedNibbles gives the longest common beginning.
LEMMA SharedIs ==
    ASSUME NEW S, NEW a \in Seq(S), NEW b \in Seq(S)
    PROVE  /\ Shared(a, b) \in 0 .. Len(a) /\ Shared(a, b) \in 0 .. Len(b)
           /\ SubSeq(a, 1, Shared(a, b)) = SubSeq(b, 1, Shared(a, b))
           /\ \A n \in 0 .. Len(a) : n <= Len(b) /\ SubSeq(a, 1, n) = SubSeq(b, 1, n)
                  => n <= Shared(a, b)
<1> DEFINE least == Min({Len(a), Len(b)})
           T == {n \in 0 .. least : SubSeq(a, 1, n) = SubSeq(b, 1, n)}
<1>1. Len(a) \in Nat /\ Len(b) \in Nat
  OBVIOUS
<1>2. least \in Nat /\ least <= Len(a) /\ least <= Len(b) /\ (least = Len(a) \/ least = Len(b))
  <2>1. least = CHOOSE m \in {Len(a), Len(b)} : \A x \in {Len(a), Len(b)} : m <= x
    BY DEF Min
  <2>2. \E m \in {Len(a), Len(b)} : \A x \in {Len(a), Len(b)} : m <= x
    <3>1. CASE Len(a) <= Len(b)
      BY <3>1, <1>1
    <3>2. CASE Len(b) <= Len(a)
      BY <3>2, <1>1
    <3> QED
      BY <3>1, <3>2, <1>1
  <2>3. least \in {Len(a), Len(b)} /\ \A x \in {Len(a), Len(b)} : least <= x
    BY <2>1, <2>2
  <2> QED
    BY <2>3, <1>1
<1>3. SubSeq(a, 1, 0) = SubSeq(b, 1, 0)
  BY SubSeqEmpty, <1>1
<1>4. 0 \in T
  BY <1>2, <1>3
<1>5. Shared(a, b) = Max(T)
  BY DEF Shared
<1> HIDE DEF least
<1>6. Max(T) \in T /\ \A x \in T : x <= Max(T)
  <2>1. T \in SUBSET (0 .. least) /\ T # {}
    BY <1>4
  <2> HIDE DEF T
  <2> QED
    BY <2>1, <1>2, Largest
<1>7. \A n \in 0 .. Len(a) : n <= Len(b) /\ SubSeq(a, 1, n) = SubSeq(b, 1, n) => n \in T
  BY <1>2, <1>1
<1>8. \A x \in T : x \in 0 .. least /\ SubSeq(a, 1, x) = SubSeq(b, 1, x)
  OBVIOUS
<1> HIDE DEF T
<1>9. /\ Shared(a, b) \in 0 .. least
      /\ SubSeq(a, 1, Shared(a, b)) = SubSeq(b, 1, Shared(a, b))
  BY <1>5, <1>6, <1>8, Zenon
<1>10. \A n \in 0 .. Len(a) : n <= Len(b) /\ SubSeq(a, 1, n) = SubSeq(b, 1, n)
                                   => n <= Shared(a, b)
  BY <1>5, <1>6, <1>7, Zenon
<1>11. Shared(a, b) \in 0 .. Len(a) /\ Shared(a, b) \in 0 .. Len(b)
  BY <1>1, <1>2, <1>9
<1> QED
  BY <1>9, <1>10, <1>11, Zenon

\* contains: the key begins with the other one.
LEMMA ContainsIs ==
    ASSUME NEW S, NEW a \in Seq(S), NEW b \in Seq(S)
    PROVE  /\ Contains(a, b) => /\ Len(b) \in 0 .. Len(a) /\ SubSeq(a, 1, Len(b)) = b
                                /\ Mid(a, Len(b)) \in Seq(S) /\ a = b \o Mid(a, Len(b))
                                /\ Len(Mid(a, Len(b))) = Len(a) - Len(b)
           /\ \A q \in Seq(S) : a = b \o q => Contains(a, b) /\ Mid(a, Len(b)) = q
<1>1. Shared(a, b) \in 0 .. Len(a) /\ Shared(a, b) \in 0 .. Len(b) /\ Len(a) \in Nat /\ Len(b) \in Nat
  BY SharedIs
<1>2. SubSeq(b, 1, Len(b)) = b
  BY SubSeqFull
<1>3. ASSUME Contains(a, b)
      PROVE  /\ Len(b) \in 0 .. Len(a) /\ SubSeq(a, 1, Len(b)) = b
             /\ Mid(a, Len(b)) \in Seq(S) /\ a = b \o Mid(a, Len(b))
             /\ Len(Mid(a, Len(b))) = Len(a) - Len(b)
  <2>1. Shared(a, b) = Len(b)
    BY <1>3 DEF Contains
  <2>2. Len(b) \in 0 .. Len(a) /\ SubSeq(a, 1, Len(b)) = b
    BY <2>1, <1>1, <1>2, SharedIs
  <2> QED
    BY <2>2, CutOff
<1>4. ASSUME NEW q \in Seq(S), a = b \o q PROVE Contains(a, b) /\ Mid(a, Len(b)) = q
  <2>1. SubSeq(a, 1, Len(b)) = b /\ Mid(a, Len(b)) = q /\ Len(a) = Len(b) + Len(q) /\ Len(q) \in Nat
    BY <1>4, Concatenated, Zenon
  <2>2. Len(b) <= Shared(a, b)
    <3>1. Len(b) \in 0 .. Len(a) /\ Len(b) <= Len(b)
      BY <2>1, <1>1
    <3> QED
      BY <2>1, <3>1, <1>2, SharedIs, Zenon
  <2> QED
    BY <2>1, <2>2, <1>1 DEF Contains
<1> QED
  BY <1>3, <1>4

\* The rest behind what a key begins with.
LEMMA ContainsCut ==
    ASSUME NEW T, NEW a \in Seq(T), NEW b \in Seq(T), Contains(a, b)
    PROVE  Mid(a, Len(b)) \in Seq(T) /\ a = b \o Mid(a, Len(b))
BY ContainsIs

\* A key begins with what was put in front of it.
LEMMA ContainsMade ==
    ASSUME NEW T, NEW b \in Seq(T), NEW q \in Seq(T)
    PROVE  Contains(b \o q, b) /\ Mid(b \o q, Len(b)) = q
<1>1. b \o q \in Seq(T)
  BY Concatenated
<1> QED
  BY <1>1, ContainsIs

\* Only the empty key has no length.
LEMMA EmptyIs ==
    ASSUME NEW T, NEW q \in Seq(T)
    PROVE  q = <<>> <=> Len(q) = 0
BY EmptySeq

-----------------------------------------------------------------------------
(* Nodes and tries. *)

IsNode(n) == n.kind \in {"null", "pair", "branch"}
Inner(slot) == IF slot.kind = "hash" THEN slot.node ELSE slot

\* An extension and a branch, by the nodes below them.
Ext(k, m) == Extension(k, SlotFor(m))
Bra(c, v) == BranchNode([i \in Nibbles |-> SlotFor(c[i])], v)

\* What the constructors of nodes and slots make.
LEMMA Fields ==
    /\ Null.kind = "null" /\ Absent.kind = "absent" /\ Fits(Null)
    /\ \A k, l, s : /\ Pair(k, l, s).kind = "pair" /\ Pair(k, l, s).key = k
                    /\ Pair(k, l, s).leaf = l /\ Pair(k, l, s).item = s
    /\ \A k, v : /\ Leaf(k, v).kind = "pair" /\ Leaf(k, v).key = k
                 /\ Leaf(k, v).leaf = TRUE /\ Leaf(k, v).item = v
    /\ \A k, s : /\ Extension(k, s).kind = "pair" /\ Extension(k, s).key = k
                 /\ Extension(k, s).leaf = FALSE /\ Extension(k, s).item = s
    /\ \A c, v : /\ BranchNode(c, v).kind = "branch" /\ BranchNode(c, v).child = c
                 /\ BranchNode(c, v).value = v
    /\ \A n : HashOf(n).kind = "hash" /\ HashOf(n).node = n
BY DEF Null, Absent, Pair, Leaf, Extension, BranchNode, HashOf, Fits, HashSize

\* A slot says which node is in it, inline or by hash.
LEMMA Slots ==
    /\ \A m : IsNode(m) => Inner(SlotFor(m)) = m
    /\ \A m : IsNode(m) /\ SlotFor(m) = Null => m = Null
    /\ SlotFor(Null) = Null
    /\ \A m, n : IsNode(m) /\ IsNode(n) /\ SlotFor(m) = SlotFor(n) => m = n
    /\ \A m : IsNode(m) => (SlotFor(m).kind = "hash" <=> ~Fits(m))
    /\ \A m : IsNode(m) /\ ~Fits(m) => SlotFor(m) = HashOf(m)
    /\ IsNode(Null) /\ ~IsNode(Absent)
    /\ \A k, l, s : IsNode(Pair(k, l, s))
    /\ \A k, v : IsNode(Leaf(k, v))
    /\ \A k, s : IsNode(Extension(k, s))
    /\ \A c, v : IsNode(BranchNode(c, v))
BY Fields DEF IsNode, Inner, SlotFor

Kept(m, D) == Fits(m) \/ m \in D
TwoInUse(b) == \E i, j \in InUse(b) : i # j

\* n is the root of a trie for keys of length l when X says so of what is below.
RootOfTrie(n, l, X, D) ==
    \/ n = Null
    \/ \E k \in Seq(Nibbles), v \in Values : Len(k) <= l /\ n = Leaf(k, v)
    \/ \E k \in Seq(Nibbles) : \E m :
          /\ k # <<>> /\ Len(k) <= l /\ <<m, l - Len(k)>> \in X
          /\ m.kind = "branch" /\ Kept(m, D) /\ n = Ext(k, m)
    \/ \E c, v :
          /\ l > 0 /\ v \in Values \cup {NoValue}
          /\ \A i \in Nibbles : <<c[i], l - 1>> \in X /\ Kept(c[i], D)
          /\ n = Bra(c, v) /\ TwoInUse(n)

\* A trie for keys of length l at most whose hashed nodes, but for the root, are in D.
Below0(X, D) == \A m, j : <<m, j>> \in X => j \in Nat /\ RootOfTrie(m, j, X, D)
Trie(n, l, D) == \E X : <<n, l>> \in X /\ Below0(X, D)

\* A trie is one of four things, and what is below it are tries for what is left of the
\* keys.
LEMMA TrieIs ==
    ASSUME NEW n, NEW l, NEW D, Trie(n, l, D)
    PROVE  /\ l \in Nat
           /\ \/ n = Null
              \/ \E k \in Seq(Nibbles), v \in Values : Len(k) <= l /\ n = Leaf(k, v)
              \/ \E k \in Seq(Nibbles) : \E m :
                    /\ k # <<>> /\ Len(k) <= l /\ Trie(m, l - Len(k), D)
                    /\ m.kind = "branch" /\ Kept(m, D) /\ n = Ext(k, m)
              \/ \E c, v :
                    /\ l > 0 /\ v \in Values \cup {NoValue}
                    /\ \A i \in Nibbles : Trie(c[i], l - 1, D) /\ Kept(c[i], D)
                    /\ n = Bra(c, v) /\ TwoInUse(n)
<1>1. PICK X : <<n, l>> \in X /\ Below0(X, D)
  BY Zenon DEF Trie
<1>2. l \in Nat /\ RootOfTrie(n, l, X, D)
  BY <1>1, Zenon DEF Below0
<1>3. \A m, j : <<m, j>> \in X => Trie(m, j, D)
  BY <1>1, Zenon DEF Trie
<1> QED
  BY <1>2, <1>3, Zenon DEF RootOfTrie

AsLeaf(n, l) == \E k \in Seq(Nibbles), v \in Values : Len(k) <= l /\ n = Leaf(k, v)
AsExt(n, l, D) ==
    \E k \in Seq(Nibbles) : \E m :
        /\ k # <<>> /\ Len(k) <= l /\ Trie(m, l - Len(k), D)
        /\ m.kind = "branch" /\ Kept(m, D) /\ n = Ext(k, m)
AsBra(n, l, D) ==
    \E c, v :
        /\ l > 0 /\ v \in Values \cup {NoValue}
        /\ \A i \in Nibbles : Trie(c[i], l - 1, D) /\ Kept(c[i], D)
        /\ n = Bra(c, v) /\ TwoInUse(n)

\* The four things by their names.
LEMMA TrieCases ==
    ASSUME NEW n, NEW l, NEW D, Trie(n, l, D)
    PROVE  l \in Nat /\ (n = Null \/ AsLeaf(n, l) \/ AsExt(n, l, D) \/ AsBra(n, l, D))
BY TrieIs, Zenon DEF AsLeaf, AsExt, AsBra

\* A trie is a node.
LEMMA TrieIsNode ==
    ASSUME NEW n, NEW l, NEW D, Trie(n, l, D)
    PROVE  IsNode(n)
<1>1. IsNode(Null) /\ (AsLeaf(n, l) => IsNode(n))
  BY Slots, Zenon DEF AsLeaf
<1>2. \A k, m : IsNode(Ext(k, m))
  BY Slots, Zenon DEF Ext
<1>3. \A c, v : IsNode(Bra(c, v))
  BY Slots, Zenon DEF Bra
<1>4. AsExt(n, l, D) => IsNode(n)
  BY <1>2, Zenon DEF AsExt
<1>5. AsBra(n, l, D) => IsNode(n)
  BY <1>3, Zenon DEF AsBra
<1> QED
  BY <1>1, <1>4, <1>5, TrieCases, Zenon

\* More below and more stored does no harm to the root of a trie.
LEMMA MoreRoot ==
    ASSUME NEW n, NEW l, NEW X, NEW Y, X \subseteq Y, NEW D, NEW E, D \subseteq E,
           RootOfTrie(n, l, X, D)
    PROVE  RootOfTrie(n, l, Y, E)
<1>1. \A m : Kept(m, D) => Kept(m, E)
  BY DEF Kept
<1>2. \A x : x \in X => x \in Y
  OBVIOUS
<1> QED
  BY <1>1, <1>2, Zenon DEF RootOfTrie

\* A trie stays one when more is stored.
LEMMA MoreKept ==
    ASSUME NEW n, NEW l, NEW D, NEW E, D \subseteq E, Trie(n, l, D)
    PROVE  Trie(n, l, E)
<1>1. PICK X : <<n, l>> \in X /\ Below0(X, D)
  BY Zenon DEF Trie
<1>2. X \subseteq X
  OBVIOUS
<1>3. Below0(X, E)
  BY <1>1, <1>2, MoreRoot, Zenon DEF Below0
<1> QED
  BY <1>1, <1>3, Zenon DEF Trie

\* Tries below a root make one with it.
LEMMA TrieMade ==
    ASSUME NEW n, NEW l \in Nat, NEW D, NEW C,
           \A m, j : <<m, j>> \in C => Trie(m, j, D),
           RootOfTrie(n, l, C, D)
    PROVE  Trie(n, l, D)
<1> DEFINE Of(x) == CHOOSE X : x \in X /\ Below0(X, D)
           P == {y \in C : \E m, j : y = <<m, j>>}
           U == {Of(x) : x \in P}
           Y == (UNION U) \cup C
<1>1. ASSUME NEW m, NEW j, <<m, j>> \in C PROVE <<m, j>> \in Of(<<m, j>>) /\ Below0(Of(<<m, j>>), D)
  <2>1. \E X : <<m, j>> \in X /\ Below0(X, D)
    BY <1>1, Zenon DEF Trie
  <2> QED
    BY <2>1, Zenon
<1> HIDE DEF Of
<1>a. \A x : x \in P => \E m, j : x = <<m, j>> /\ <<m, j>> \in C
  OBVIOUS
<1>b. \A m, j : <<m, j>> \in C => <<m, j>> \in P
  OBVIOUS
<1> HIDE DEF P
<1>d. \A x : x \in P => Of(x) \in U
  BY Zenon
<1>e. \A z : z \in U => \E x : x \in P /\ z = Of(x)
  BY Zenon
<1> HIDE DEF U
<1>f. C \subseteq Y /\ (\A z : z \in U => z \subseteq Y)
  OBVIOUS
<1>g. \A y : y \in Y => y \in C \/ \E z : z \in U /\ y \in z
  OBVIOUS
<1> HIDE DEF Y
<1>3. C \subseteq Y /\ (\A x : x \in P => Of(x) \subseteq Y)
  BY <1>d, <1>f, Zenon
<1>c. \A y : y \in Y => y \in C \/ \E x : x \in P /\ y \in Of(x)
  <2> SUFFICES ASSUME NEW y, y \in Y, y \notin C PROVE \E x : x \in P /\ y \in Of(x)
    BY Zenon
  <2>1. PICK z : z \in U /\ y \in z
    BY <1>g, Zenon
  <2>2. PICK x : x \in P /\ z = Of(x)
    BY <1>e, <2>1, Zenon
  <2> QED
    BY <2>1, <2>2, Zenon
<1>2. ASSUME NEW m, NEW j, <<m, j>> \in Y PROVE \E X : <<m, j>> \in X /\ Below0(X, D) /\ X \subseteq Y
  <2>2. CASE <<m, j>> \in C
    BY <1>b, <1>3, <2>2, <1>1, Zenon
  <2>3. ASSUME NEW x, x \in P, <<m, j>> \in Of(x)
        PROVE  \E X : <<m, j>> \in X /\ Below0(X, D) /\ X \subseteq Y
    <3>1. Below0(Of(x), D)
      BY <1>a, <1>1, <2>3, Zenon
    <3> QED
      BY <3>1, <1>3, <2>3, Zenon
  <2> QED
    BY <2>2, <2>3, <1>2, <1>c, Zenon
<1>4. \A X : Below0(X, D) => \A m, j : <<m, j>> \in X => j \in Nat /\ RootOfTrie(m, j, X, D)
  BY Zenon DEF Below0
<1>5. \A m, j : <<m, j>> \in Y => j \in Nat /\ RootOfTrie(m, j, Y, D)
  <2>1. ASSUME NEW m, NEW j, <<m, j>> \in Y PROVE j \in Nat /\ RootOfTrie(m, j, Y, D)
    <3>1. PICK X : <<m, j>> \in X /\ Below0(X, D) /\ X \subseteq Y
      BY <1>2, <2>1, Zenon
    <3>2. j \in Nat /\ RootOfTrie(m, j, X, D) /\ D \subseteq D
      BY <3>1, <1>4, Zenon
    <3> QED
      BY <3>1, <3>2, MoreRoot, Zenon
  <2> QED
    BY <2>1, Zenon
<1> DEFINE W == Y \cup {<<n, l>>}
<1>6. Y \subseteq W /\ C \subseteq W /\ D \subseteq D /\ <<n, l>> \in W
  BY <1>3
<1>7. \A m, j : <<m, j>> \in W => <<m, j>> \in Y \/ (m = n /\ j = l)
  OBVIOUS
<1> HIDE DEF W
<1>8. RootOfTrie(n, l, W, D)
  BY <1>6, MoreRoot, Zenon
<1>9. \A m, j : <<m, j>> \in Y => j \in Nat /\ RootOfTrie(m, j, W, D)
  BY <1>5, <1>6, MoreRoot, Zenon
<1>10. Below0(W, D)
  BY <1>7, <1>8, <1>9, Zenon DEF Below0
<1> QED
  BY <1>6, <1>10, Zenon DEF Trie

\* Nothing is a trie.
LEMMA NullTrie == ASSUME NEW l \in Nat, NEW D PROVE Trie(Null, l, D)
<1>1. RootOfTrie(Null, l, {}, D)
  BY Zenon DEF RootOfTrie
<1>2. \A m, j : <<m, j>> \in {} => Trie(m, j, D)
  OBVIOUS
<1> QED
  BY <1>1, <1>2, TrieMade, Zenon

\* A leaf is a trie.
LEMMA LeafTrie ==
    ASSUME NEW l \in Nat, NEW D, NEW k \in Seq(Nibbles), NEW v \in Values, Len(k) <= l
    PROVE  Trie(Leaf(k, v), l, D)
<1>1. RootOfTrie(Leaf(k, v), l, {}, D)
  BY Zenon DEF RootOfTrie
<1>2. \A m, j : <<m, j>> \in {} => Trie(m, j, D)
  OBVIOUS
<1> QED
  BY <1>1, <1>2, TrieMade, Zenon

\* An extension to a branch is a trie.
LEMMA ExtTrie ==
    ASSUME NEW l \in Nat, NEW D, NEW k \in Seq(Nibbles), NEW m, k # <<>>, Len(k) <= l,
           Trie(m, l - Len(k), D), m.kind = "branch", Kept(m, D)
    PROVE  Trie(Ext(k, m), l, D)
<1> DEFINE C == {<<m, l - Len(k)>>}
<1>1. \A a, j : <<a, j>> \in C => a = m /\ j = l - Len(k)
  OBVIOUS
<1>2. <<m, l - Len(k)>> \in C
  OBVIOUS
<1> HIDE DEF C
<1>3. RootOfTrie(Ext(k, m), l, C, D)
  BY <1>2, Zenon DEF RootOfTrie
<1>4. \A a, j : <<a, j>> \in C => Trie(a, j, D)
  BY <1>1, Zenon
<1> QED
  BY <1>3, <1>4, TrieMade, Zenon

\* A branch of tries with two things in use is a trie.
LEMMA BraTrie ==
    ASSUME NEW l \in Nat, NEW D, NEW c, NEW v \in Values \cup {NoValue}, l > 0,
           \A i \in Nibbles : Trie(c[i], l - 1, D) /\ Kept(c[i], D),
           TwoInUse(Bra(c, v))
    PROVE  Trie(Bra(c, v), l, D)
<1> DEFINE C == {<<c[i], l - 1>> : i \in Nibbles}
<1>1. \A a, j : <<a, j>> \in C => \E i \in Nibbles : a = c[i] /\ j = l - 1
  OBVIOUS
<1>2. \A i \in Nibbles : <<c[i], l - 1>> \in C
  OBVIOUS
<1> HIDE DEF C
<1>3. RootOfTrie(Bra(c, v), l, C, D)
  BY <1>2, Zenon DEF RootOfTrie
<1>4. \A a, j : <<a, j>> \in C => Trie(a, j, D)
  BY <1>1, Zenon
<1> QED
  BY <1>3, <1>4, TrieMade, Zenon

\* A trie for shorter keys is one for longer keys.
LEMMA LongerKeys ==
    ASSUME NEW D, NEW l \in Nat
    PROVE  \A n, j : Trie(n, j, D) /\ j <= l => Trie(n, l, D)
<1> DEFINE Holds == {a \in Nat : \A n, j : Trie(n, j, D) /\ j <= a => Trie(n, a, D)}
<1>1. ASSUME NEW a \in Nat, 0 .. (a - 1) \subseteq Holds PROVE a \in Holds
  <2> SUFFICES ASSUME NEW n, NEW j, Trie(n, j, D), j <= a PROVE Trie(n, a, D)
    OBVIOUS
  <2>0. j \in Nat
    BY TrieIs
  <2>1. ASSUME NEW m, NEW d \in Nat, d > 0, d <= j, Trie(m, j - d, D) PROVE Trie(m, a - d, D)
    <3>1. a - d \in 0 .. (a - 1) /\ j - d <= a - d
      BY <2>1, <2>0
    <3>2. a - d \in Holds
      BY <3>1, <1>1
    <3> QED
      BY <3>1, <3>2, <2>1
  <2>2. CASE n = Null
    BY <2>2, NullTrie
  <2>3. ASSUME NEW k \in Seq(Nibbles), NEW v \in Values, Len(k) <= j, n = Leaf(k, v)
        PROVE  Trie(n, a, D)
    <3>1. Len(k) <= a
      BY <2>0, <2>3
    <3> QED
      BY <2>3, <3>1, LeafTrie
  <2>4. ASSUME NEW k \in Seq(Nibbles), NEW m, k # <<>>, Len(k) <= j, Trie(m, j - Len(k), D),
               m.kind = "branch", Kept(m, D), n = Ext(k, m)
        PROVE  Trie(n, a, D)
    <3>1. Len(k) \in Nat /\ Len(k) > 0 /\ Len(k) <= a
      BY <2>0, <2>4
    <3>2. Trie(m, a - Len(k), D)
      BY <2>1, <2>4, <3>1
    <3> QED
      BY <2>4, <3>1, <3>2, ExtTrie
  <2>5. ASSUME NEW c, NEW v \in Values \cup {NoValue}, j > 0,
               \A i \in Nibbles : Trie(c[i], j - 1, D) /\ Kept(c[i], D),
               n = Bra(c, v), TwoInUse(n)
        PROVE  Trie(n, a, D)
    <3>1. a > 0 /\ 1 <= j
      BY <2>0, <2>5
    <3>2. \A i \in Nibbles : Trie(c[i], a - 1, D)
      BY <2>1, <2>5, <3>1
    <3> QED
      BY <2>5, <3>1, <3>2, BraTrie
  <2> QED
    BY <2>2, <2>3, <2>4, <2>5, TrieIs, Zenon
<1> HIDE DEF Holds
<1>2. Nat \subseteq Holds
  BY <1>1, LessInduction, Zenon
<1>3. l \in Holds
  BY <1>2
<1> QED
  BY <1>3 DEF Holds

-----------------------------------------------------------------------------
(* The search in a trie all of whose nodes are there. *)

StepTo(x) == IF Follows(x[1], x[2]) THEN <<Inner(Below(x[1], x[2])), Ahead(x[1], x[2])>> ELSE x
Steps(n, k) ==
    LET step[m \in Nat] == IF m = 0 THEN <<n, k>> ELSE StepTo(step[m - 1]) IN step

\* Where the search for k ends, and what it finds.
Reach(n, k) == Steps(n, k)[Len(k)]
Find(n, k) == Found(Reach(n, k)[1], Reach(n, k)[2])

\* The recursive function Steps exists: from the root on, one step after another.
LEMMA StepsAre ==
    ASSUME NEW n, NEW k
    PROVE  /\ Steps(n, k)[0] = <<n, k>>
           /\ \A m \in Nat : Steps(n, k)[m + 1] = StepTo(Steps(n, k)[m])
<1> DEFINE A == <<n, k>>
           G(m, u) == StepTo(u)
           Eq(f) == f = [m \in Nat |-> IF m = 0 THEN A ELSE G(m, f[m - 1])]
           Up(f, a) == f[0] = A /\ \A m \in 0 .. (a - 1) : f[m + 1] = G(m + 1, f[m])
           w == CHOOSE f : Eq(f)
           Of(a) == CHOOSE f : Up(f, a)
           all == [a \in Nat |-> Of(a)[a]]
<1>1. Steps(n, k) = w
  BY Zenon DEF Steps
<1> HIDE DEF A, G
<1>2. ASSUME NEW a \in Nat PROVE \E f : Up(f, a)
  <2> DEFINE Exists == {b \in Nat : \E f : Up(f, b)}
  <2>1. 0 \in Exists
    <3>1. Up([m \in Nat |-> A], 0)
      OBVIOUS
    <3> QED
      BY <3>1
  <2>2. ASSUME NEW b \in Nat, b \in Exists PROVE b + 1 \in Exists
    <3>1. PICK f : Up(f, b)
      BY <2>2
    <3> DEFINE h == [m \in Nat |-> IF m <= b THEN f[m] ELSE G(b + 1, f[b])]
    <3>2. h[0] = A
      BY <3>1
    <3>3. ASSUME NEW m \in 0 .. b PROVE h[m + 1] = G(m + 1, h[m])
      <4>1. h[m] = f[m] /\ m + 1 \in Nat
        OBVIOUS
      <4>2. CASE m = b
        <5>1. h[m + 1] = G(b + 1, f[b])
          BY <4>1, <4>2
        <5> QED
          BY <5>1, <4>1, <4>2
      <4>3. CASE m < b
        <5>1. h[m + 1] = f[m + 1] /\ m \in 0 .. (b - 1)
          BY <4>3
        <5> QED
          BY <5>1, <4>1, <3>1
      <4> QED
        BY <4>2, <4>3
    <3>4. 0 .. ((b + 1) - 1) = 0 .. b
      OBVIOUS
    <3> HIDE DEF h
    <3>5. Up(h, b + 1)
      BY <3>2, <3>3, <3>4
    <3> QED
      BY <3>5
  <2> HIDE DEF Exists
  <2>3. a \in Exists
    BY <2>1, <2>2, SetInduction
  <2> QED
    BY <2>3 DEF Exists
<1>3. ASSUME NEW a \in Nat PROVE Up(Of(a), a)
  <2> HIDE DEF Up
  <2> QED
    BY <1>2, Zenon
<1> HIDE DEF Of
<1>4. ASSUME NEW a \in Nat PROVE Of(a + 1)[a] = Of(a)[a]
  <2> DEFINE Same == {b \in Nat : b <= a => Of(a + 1)[b] = Of(a)[b]}
  <2>1. 0 \in Same
    BY <1>3
  <2>2. ASSUME NEW b \in Nat, b \in Same PROVE b + 1 \in Same
    <3> SUFFICES ASSUME b + 1 <= a PROVE Of(a + 1)[b + 1] = Of(a)[b + 1]
      OBVIOUS
    <3>1. b \in 0 .. (a - 1) /\ b \in 0 .. ((a + 1) - 1) /\ a + 1 \in Nat
      OBVIOUS
    <3>2. Of(a + 1)[b + 1] = G(b + 1, Of(a + 1)[b]) /\ Of(a)[b + 1] = G(b + 1, Of(a)[b])
      BY <1>3, <3>1, Zenon
    <3> QED
      BY <2>2, <3>2
  <2> HIDE DEF Same
  <2>3. a \in Same
    BY <2>1, <2>2, SetInduction
  <2> QED
    BY <2>3 DEF Same
<1>5. all[0] = A
  BY <1>3
<1>6. ASSUME NEW a \in Nat PROVE all[a + 1] = G(a + 1, all[a])
  <2>1. a + 1 \in Nat /\ a \in 0 .. ((a + 1) - 1)
    OBVIOUS
  <2>2. Of(a + 1)[a + 1] = G(a + 1, Of(a + 1)[a])
    BY <1>3, <2>1, Zenon
  <2> QED
    BY <1>4, <2>1, <2>2
<1>7. ASSUME NEW m \in Nat PROVE all[m] = IF m = 0 THEN A ELSE G(m, all[m - 1])
  <2>1. CASE m = 0
    BY <1>5, <2>1
  <2>2. CASE m # 0
    <3>1. m - 1 \in Nat /\ (m - 1) + 1 = m
      BY <2>2
    <3>2. all[(m - 1) + 1] = G((m - 1) + 1, all[m - 1])
      BY <1>6, <3>1, Zenon
    <3> HIDE DEF all
    <3> QED
      BY <2>2, <3>1, <3>2
  <2> QED
    BY <2>1, <2>2
<1>8. Eq(all)
  <2>1. all = [a \in Nat |-> all[a]]
    OBVIOUS
  <2> HIDE DEF all
  <2> QED
    BY <1>7, <2>1
<1>9. Eq(w)
  <2> HIDE DEF Eq, all
  <2> QED
    BY <1>8, Zenon
<1> HIDE DEF w
<1>10. w[0] = A /\ \A m \in Nat : w[m + 1] = G(m + 1, w[m])
  <2>1. \A m \in Nat : m + 1 \in Nat /\ m + 1 # 0 /\ (m + 1) - 1 = m
    OBVIOUS
  <2> QED
    BY <1>9, <2>1
<1> QED
  BY <1>1, <1>10 DEF A, G

\* Where a step goes on, for each kind of node.
LEMMA FollowsNot ==
    /\ \A k : ~Follows(Null, k)
    /\ \A k, j, v : ~Follows(Leaf(j, v), k)
    /\ \A j, s, k : Follows(Extension(j, s), k) <=> Contains(k, j)
    /\ \A c, v, k : Follows(BranchNode(c, v), k) <=> k # <<>>
BY Fields DEF Follows

\* Down an extension.
LEMMA ExtFollows ==
    ASSUME NEW j \in Seq(Nibbles), NEW m, IsNode(m), NEW q \in Seq(Nibbles)
    PROVE  /\ Follows(Ext(j, m), j \o q)
           /\ Below(Ext(j, m), j \o q) = SlotFor(m)
           /\ Inner(Below(Ext(j, m), j \o q)) = m
           /\ Ahead(Ext(j, m), j \o q) = q
<1>1. j \o q \in Seq(Nibbles)
  BY Concatenated
<1>2. Contains(j \o q, j) /\ Mid(j \o q, Len(j)) = q
  BY <1>1, ContainsIs
<1>3. Follows(Ext(j, m), j \o q)
  <2>1. \A s, k : Follows(Extension(j, s), k) <=> Contains(k, j)
    BY FollowsNot, Zenon
  <2>2. Follows(Extension(j, SlotFor(m)), j \o q)
    BY <1>2, <2>1, Zenon
  <2> QED
    BY <2>2, Zenon DEF Ext
<1>4. Below(Ext(j, m), j \o q) = SlotFor(m) /\ Ahead(Ext(j, m), j \o q) = Mid(j \o q, Len(j))
  BY Fields DEF Below, Ahead, Ext
<1>5. Inner(SlotFor(m)) = m
  BY Slots, Zenon
<1> QED
  BY <1>2, <1>3, <1>4, <1>5, Zenon

\* What goes on below an extension begins with its key.
LEMMA ExtStops ==
    ASSUME NEW j \in Seq(Nibbles), NEW m, NEW k \in Seq(Nibbles), Follows(Ext(j, m), k)
    PROVE  \E q \in Seq(Nibbles) : k = j \o q
<1>1. Contains(k, j)
  BY FollowsNot, Zenon DEF Ext
<1>2. Mid(k, Len(j)) \in Seq(Nibbles) /\ k = j \o Mid(k, Len(j))
  BY <1>1, ContainsIs
<1> QED
  BY <1>2, Zenon

\* Down a branch.
LEMMA FollowsBra ==
    ASSUME NEW c, NEW v, \A i \in Nibbles : IsNode(c[i]), NEW k \in Seq(Nibbles)
    PROVE  /\ Follows(Bra(c, v), k) <=> k # <<>>
           /\ k # <<>> => /\ Below(Bra(c, v), k) = SlotFor(c[Head(k)])
                          /\ Inner(Below(Bra(c, v), k)) = c[Head(k)]
                          /\ Ahead(Bra(c, v), k) = Tail(k)
<1>1. Follows(Bra(c, v), k) <=> k # <<>>
  BY FollowsNot, Zenon DEF Bra
<1>2. ASSUME k # <<>>
      PROVE  /\ Below(Bra(c, v), k) = SlotFor(c[Head(k)])
             /\ Inner(Below(Bra(c, v), k)) = c[Head(k)]
             /\ Ahead(Bra(c, v), k) = Tail(k)
  <2>1. Head(k) \in Nibbles
    BY <1>2, HeadAndTail
  <2>2. Below(Bra(c, v), k) = [i \in Nibbles |-> SlotFor(c[i])][Head(k)] /\ Ahead(Bra(c, v), k) = Tail(k)
    BY Fields DEF Below, Ahead, Bra
  <2>3. Below(Bra(c, v), k) = SlotFor(c[Head(k)])
    BY <2>1, <2>2
  <2>4. Inner(SlotFor(c[Head(k)])) = c[Head(k)]
    BY <2>1, Slots, Zenon
  <2> QED
    BY <2>2, <2>3, <2>4, Zenon
<1> QED
  BY <1>1, <1>2, Zenon

\* A step of a search ends at a trie for what is ahead.
LEMMA FollowDown ==
    ASSUME NEW D, NEW l, NEW n, Trie(n, l, D), NEW k \in Seq(Nibbles), Follows(n, k)
    PROVE  \E d \in 1 .. l :
              /\ Trie(Inner(Below(n, k)), l - d, D)
              /\ Kept(Inner(Below(n, k)), D)
              /\ Below(n, k) = SlotFor(Inner(Below(n, k)))
              /\ Ahead(n, k) \in Seq(Nibbles)
              /\ Len(Ahead(n, k)) = Len(k) - d
<1> DEFINE Goal == \E d \in 1 .. l :
                      /\ Trie(Inner(Below(n, k)), l - d, D)
                      /\ Kept(Inner(Below(n, k)), D)
                      /\ Below(n, k) = SlotFor(Inner(Below(n, k)))
                      /\ Ahead(n, k) \in Seq(Nibbles)
                      /\ Len(Ahead(n, k)) = Len(k) - d
<1>0. l \in Nat
  BY TrieIs
<1>1. n # Null /\ \A j, v : n # Leaf(j, v)
  BY FollowsNot, Zenon
<1>2. ASSUME NEW j \in Seq(Nibbles), NEW m, j # <<>>, Len(j) <= l, Trie(m, l - Len(j), D),
             m.kind = "branch", Kept(m, D), n = Ext(j, m)
      PROVE  Goal
  <2>1. IsNode(m)
    BY <1>2, TrieIsNode
  <2>2. PICK q \in Seq(Nibbles) : k = j \o q
    <3>1. Follows(Ext(j, m), k)
      BY <1>2, Zenon
    <3> QED
      BY <3>1, ExtStops, Zenon
  <2>3. Below(n, k) = SlotFor(m) /\ Inner(Below(n, k)) = m /\ Ahead(n, k) = q
    <3>1. /\ Below(Ext(j, m), k) = SlotFor(m) /\ Inner(Below(Ext(j, m), k)) = m
          /\ Ahead(Ext(j, m), k) = q
      BY <2>1, <2>2, ExtFollows, Zenon
    <3> QED
      BY <3>1, <1>2, Zenon
  <2>4. Len(j) \in 1 .. l
    BY <1>0, <1>2
  <2>5. Len(q) = Len(k) - Len(j)
    BY <2>2, Concatenated
  <2> QED
    BY <1>2, <2>2, <2>3, <2>4, <2>5, Zenon
<1>3. ASSUME NEW c, NEW v \in Values \cup {NoValue}, l > 0,
             \A i \in Nibbles : Trie(c[i], l - 1, D) /\ Kept(c[i], D),
             n = Bra(c, v), TwoInUse(n)
      PROVE  Goal
  <2>1. \A i \in Nibbles : IsNode(c[i])
    BY <1>3, TrieIsNode, Zenon
  <2>2. k # <<>>
    BY <2>1, <1>3, FollowsBra, Zenon
  <2>3. Below(n, k) = SlotFor(c[Head(k)]) /\ Inner(Below(n, k)) = c[Head(k)] /\ Ahead(n, k) = Tail(k)
    BY <2>1, <2>2, <1>3, FollowsBra, Zenon
  <2>4. Head(k) \in Nibbles /\ Tail(k) \in Seq(Nibbles) /\ Len(Tail(k)) = Len(k) - 1
    BY <2>2, HeadAndTail
  <2>5. 1 \in 1 .. l
    BY <1>0, <1>3
  <2>6. Trie(c[Head(k)], l - 1, D) /\ Kept(c[Head(k)], D)
    BY <1>3, <2>4, Zenon
  <2> QED
    BY <2>3, <2>4, <2>5, <2>6
<1>4. ~AsLeaf(n, l)
  BY <1>1, Zenon DEF AsLeaf
<1>5. Goal
  <2> HIDE DEF Goal
  <2>1. AsExt(n, l, D) \/ AsBra(n, l, D)
    BY <1>1, <1>4, TrieCases, Zenon
  <2>2. AsExt(n, l, D) => Goal
    BY <1>2, Zenon DEF AsExt
  <2>3. AsBra(n, l, D) => Goal
    BY <1>3, Zenon DEF AsBra
  <2> QED
    BY <2>1, <2>2, <2>3, Zenon
<1> QED
  BY <1>5

\* Where nothing goes on, nothing changes.
LEMMA StepsStay ==
    ASSUME NEW n, NEW k, ~Follows(n, k)
    PROVE  \A m \in Nat : Steps(n, k)[m] = <<n, k>>
<1> DEFINE Still == {a \in Nat : Steps(n, k)[a] = <<n, k>>}
<1>1. StepTo(<<n, k>>) = <<n, k>>
  BY DEF StepTo
<1>2. 0 \in Still
  BY StepsAre
<1>3. ASSUME NEW a \in Nat, a \in Still PROVE a + 1 \in Still
  <2>1. Steps(n, k)[a + 1] = StepTo(Steps(n, k)[a]) /\ Steps(n, k)[a] = <<n, k>>
    BY <1>3, StepsAre
  <2> QED
    BY <1>1, <2>1
<1> HIDE DEF Still
<1>4. Nat \subseteq Still
  BY <1>2, <1>3, SetInduction, Zenon
<1> QED
  BY <1>4 DEF Still

\* The steps after the first are those of the node it leads to.
LEMMA StepsShift ==
    ASSUME NEW n, NEW k, Follows(n, k)
    PROVE  \A m \in Nat : Steps(n, k)[m + 1] = Steps(Inner(Below(n, k)), Ahead(n, k))[m]
<1> DEFINE y == Inner(Below(n, k))
           q == Ahead(n, k)
           Same == {a \in Nat : Steps(n, k)[a + 1] = Steps(y, q)[a]}
<1>1. StepTo(<<n, k>>) = <<y, q>>
  BY DEF StepTo
<1> HIDE DEF y, q
<1>2. 0 \in Same
  <2>1. Steps(n, k)[0 + 1] = StepTo(Steps(n, k)[0]) /\ Steps(n, k)[0] = <<n, k>>
    BY StepsAre
  <2>2. Steps(y, q)[0] = <<y, q>>
    BY StepsAre
  <2> QED
    BY <1>1, <2>1, <2>2
<1>3. ASSUME NEW a \in Nat, a \in Same PROVE a + 1 \in Same
  <2>1. a + 1 \in Nat
    OBVIOUS
  <2>2. Steps(n, k)[(a + 1) + 1] = StepTo(Steps(n, k)[a + 1])
    BY <2>1, StepsAre, Zenon
  <2>3. Steps(y, q)[a + 1] = StepTo(Steps(y, q)[a])
    BY StepsAre, Zenon
  <2> QED
    BY <1>3, <2>2, <2>3
<1> HIDE DEF Same
<1>4. Nat \subseteq Same
  BY <1>2, <1>3, SetInduction, Zenon
<1> QED
  BY <1>4 DEF Same, y, q

\* Len(k) steps are enough.
LEMMA StepsEnd ==
    ASSUME NEW D, NEW l \in Nat
    PROVE  \A n, k, m : Trie(n, l, D) /\ k \in Seq(Nibbles) /\ m \in Nat /\ m >= Len(k)
              => Steps(n, k)[m] = Reach(n, k)
<1> DEFINE Ends(a) == \A n, k, m : Trie(n, a, D) /\ k \in Seq(Nibbles) /\ m \in Nat /\ m >= Len(k)
                         => Steps(n, k)[m] = Reach(n, k)
           Good == {a \in Nat : Ends(a)}
<1>1. ASSUME NEW a \in Nat, 0 .. (a - 1) \subseteq Good PROVE a \in Good
  <2> SUFFICES ASSUME NEW n, NEW k \in Seq(Nibbles), NEW m \in Nat, Trie(n, a, D), m >= Len(k)
               PROVE  Steps(n, k)[m] = Reach(n, k)
    OBVIOUS
  <2>0. Len(k) \in Nat
    OBVIOUS
  <2>1. CASE ~Follows(n, k)
    <3>1. Steps(n, k)[m] = <<n, k>> /\ Steps(n, k)[Len(k)] = <<n, k>>
      BY <2>0, <2>1, StepsStay, Zenon
    <3> QED
      BY <3>1, Zenon DEF Reach
  <2>2. CASE Follows(n, k)
    <3> DEFINE y == Inner(Below(n, k))
               q == Ahead(n, k)
    <3>1. PICK d \in 1 .. a : Trie(y, a - d, D) /\ q \in Seq(Nibbles) /\ Len(q) = Len(k) - d
      BY <2>2, FollowDown
    <3>2. /\ a - d \in 0 .. (a - 1) /\ Len(q) \in Nat
          /\ m - 1 \in Nat /\ m - 1 >= Len(q) /\ (m - 1) + 1 = m
          /\ Len(k) - 1 \in Nat /\ Len(k) - 1 >= Len(q) /\ (Len(k) - 1) + 1 = Len(k)
      BY <3>1, <2>0
    <3>3. Ends(a - d)
      BY <3>2, <1>1
    <3>4. /\ Steps(n, k)[(m - 1) + 1] = Steps(y, q)[m - 1]
          /\ Steps(n, k)[(Len(k) - 1) + 1] = Steps(y, q)[Len(k) - 1]
      BY <2>2, <3>2, StepsShift, Zenon
    <3>5. Steps(y, q)[m - 1] = Reach(y, q) /\ Steps(y, q)[Len(k) - 1] = Reach(y, q)
      <4> HIDE DEF y, q
      <4> QED
        BY <3>1, <3>2, <3>3, Zenon
    <3> QED
      BY <3>2, <3>4, <3>5, Zenon DEF Reach
  <2> QED
    BY <2>1, <2>2
<1> HIDE DEF Ends
<1>2. l \in Good
  <2> HIDE DEF Good
  <2> QED
    BY <1>1, LessInduction, Zenon
<1> QED
  BY <1>2 DEF Ends

\* What is reached, from what is reached below.
LEMMA ReachIs ==
    ASSUME NEW D, NEW l, NEW n, Trie(n, l, D), NEW k \in Seq(Nibbles)
    PROVE  /\ ~Follows(n, k) => Reach(n, k) = <<n, k>>
           /\ Follows(n, k) => Reach(n, k) = Reach(Inner(Below(n, k)), Ahead(n, k))
<1>0. l \in Nat /\ Len(k) \in Nat
  BY TrieIs
<1>1. ASSUME ~Follows(n, k) PROVE Reach(n, k) = <<n, k>>
  BY <1>0, <1>1, StepsStay, Zenon DEF Reach
<1>2. ASSUME Follows(n, k) PROVE Reach(n, k) = Reach(Inner(Below(n, k)), Ahead(n, k))
  <2> DEFINE y == Inner(Below(n, k))
             q == Ahead(n, k)
  <2>1. PICK d \in 1 .. l : Trie(y, l - d, D) /\ q \in Seq(Nibbles) /\ Len(q) = Len(k) - d
    BY <1>2, FollowDown
  <2>2. /\ l - d \in Nat /\ Len(q) \in Nat
        /\ Len(k) - 1 \in Nat /\ Len(k) - 1 >= Len(q) /\ (Len(k) - 1) + 1 = Len(k)
    BY <2>1, <1>0
  <2>3. Steps(n, k)[(Len(k) - 1) + 1] = Steps(y, q)[Len(k) - 1]
    BY <1>2, <2>2, StepsShift, Zenon
  <2>4. Steps(y, q)[Len(k) - 1] = Reach(y, q)
    <3> HIDE DEF y, q
    <3>1. \A a, j, m : Trie(a, l - d, D) /\ j \in Seq(Nibbles) /\ m \in Nat /\ m >= Len(j)
             => Steps(a, j)[m] = Reach(a, j)
      BY <2>2, StepsEnd, Zenon
    <3> QED
      BY <2>1, <2>2, <3>1, Zenon
  <2> QED
    BY <2>2, <2>3, <2>4, Zenon DEF Reach
<1> QED
  BY <1>1, <1>2

-----------------------------------------------------------------------------
(* Where a search ends, and what it finds, by the kind of the root. *)

\* What is reached where nothing goes on.
LEMMA ReachStays ==
    ASSUME NEW n, NEW k \in Seq(Nibbles), ~Follows(n, k)
    PROVE  Reach(n, k) = <<n, k>> /\ Find(n, k) = Found(n, k)
<1>1. Len(k) \in Nat
  OBVIOUS
<1>2. Reach(n, k) = <<n, k>>
  BY <1>1, StepsStay, Zenon DEF Reach
<1>3. <<n, k>>[1] = n /\ <<n, k>>[2] = k
  OBVIOUS
<1> QED
  BY <1>2, <1>3, Zenon DEF Find

\* The empty key reaches the node itself.
LEMMA ReachNothing == ASSUME NEW n PROVE Reach(n, <<>>) = <<n, <<>>>>
<1>1. Len(<<>>) = 0
  OBVIOUS
<1> QED
  BY <1>1, StepsAre, Zenon DEF Reach

\* What is reached through an extension.
LEMMA ReachExt ==
    ASSUME NEW j \in Seq(Nibbles), j # <<>>, NEW l, NEW D, NEW m, Trie(m, l, D)
    PROVE  /\ \A q \in Seq(Nibbles) : Reach(Ext(j, m), j \o q) = Reach(m, q)
           /\ \A k \in Seq(Nibbles) : ~Contains(k, j) => Reach(Ext(j, m), k) = <<Ext(j, m), k>>
<1>1. ASSUME NEW q \in Seq(Nibbles) PROVE Reach(Ext(j, m), j \o q) = Reach(m, q)
  <2>1. IsNode(m) /\ l \in Nat
    BY TrieIsNode, TrieIs, Zenon
  <2>2. /\ Follows(Ext(j, m), j \o q) /\ Inner(Below(Ext(j, m), j \o q)) = m
        /\ Ahead(Ext(j, m), j \o q) = q
    BY <2>1, ExtFollows, Zenon
  <2>3. \A a \in Nat : Steps(Ext(j, m), j \o q)[a + 1] = Steps(m, q)[a]
    <3>1. \A a \in Nat : Steps(Ext(j, m), j \o q)[a + 1]
             = Steps(Inner(Below(Ext(j, m), j \o q)), Ahead(Ext(j, m), j \o q))[a]
      BY <2>2, StepsShift, Zenon
    <3> QED
      BY <3>1, <2>2, Zenon
  <2>4. /\ Len(j \o q) = Len(j) + Len(q) /\ Len(j) \in Nat /\ Len(q) \in Nat /\ Len(j) > 0
    BY Concatenated, HeadAndTail
  <2>5. /\ Len(j \o q) - 1 \in Nat /\ Len(j \o q) - 1 >= Len(q)
        /\ (Len(j \o q) - 1) + 1 = Len(j \o q)
    BY <2>4
  <2>6. Steps(Ext(j, m), j \o q)[(Len(j \o q) - 1) + 1] = Steps(m, q)[Len(j \o q) - 1]
    BY <2>3, <2>5, Zenon
  <2>7. Steps(m, q)[Len(j \o q) - 1] = Reach(m, q)
    <3>1. \A n, k, a : Trie(n, l, D) /\ k \in Seq(Nibbles) /\ a \in Nat /\ a >= Len(k)
             => Steps(n, k)[a] = Reach(n, k)
      BY <2>1, StepsEnd, Zenon
    <3> QED
      BY <2>5, <3>1, Zenon
  <2> QED
    BY <2>5, <2>6, <2>7, Zenon DEF Reach
<1>2. ASSUME NEW k \in Seq(Nibbles), ~Contains(k, j) PROVE Reach(Ext(j, m), k) = <<Ext(j, m), k>>
  <2>1. \A s : ~Follows(Extension(j, s), k)
    BY <1>2, FollowsNot, Zenon
  <2>2. ~Follows(Ext(j, m), k)
    BY <2>1, Zenon DEF Ext
  <2> QED
    BY <2>2, ReachStays, Zenon
<1> QED
  BY <1>1, <1>2, Zenon

\* What is reached through a branch.
LEMMA ReachBra ==
    ASSUME NEW c, \A i \in Nibbles : IsNode(c[i]), NEW v, NEW k \in Seq(Nibbles), k # <<>>
    PROVE  Reach(Bra(c, v), k) = Reach(c[Head(k)], Tail(k))
<1>1. /\ Follows(Bra(c, v), k) /\ Inner(Below(Bra(c, v), k)) = c[Head(k)]
      /\ Ahead(Bra(c, v), k) = Tail(k)
  BY FollowsBra, Zenon
<1>2. \A a \in Nat : Steps(Bra(c, v), k)[a + 1] = Steps(c[Head(k)], Tail(k))[a]
  <2>1. \A a \in Nat : Steps(Bra(c, v), k)[a + 1]
             = Steps(Inner(Below(Bra(c, v), k)), Ahead(Bra(c, v), k))[a]
    BY <1>1, StepsShift, Zenon
  <2> QED
    BY <2>1, <1>1, Zenon
<1>3. /\ Len(k) - 1 \in Nat /\ (Len(k) - 1) + 1 = Len(k) /\ Len(Tail(k)) = Len(k) - 1
  BY HeadAndTail
<1>4. Steps(Bra(c, v), k)[(Len(k) - 1) + 1] = Steps(c[Head(k)], Tail(k))[Len(k) - 1]
  BY <1>2, <1>3, Zenon
<1> QED
  BY <1>3, <1>4, Zenon DEF Reach

\* Nothing is found in nothing.
LEMMA FindNull == ASSUME NEW k \in Seq(Nibbles) PROVE Find(Null, k) = NoValue
<1>1. Find(Null, k) = Found(Null, k)
  BY FollowsNot, ReachStays, Zenon
<1>2. Found(Null, k) = NoValue
  BY Fields DEF Found
<1> QED
  BY <1>1, <1>2

\* A leaf holds one value.
LEMMA FindLeaf ==
    ASSUME NEW k \in Seq(Nibbles), NEW j, NEW v
    PROVE  Find(Leaf(j, v), k) = IF k = j THEN v ELSE NoValue
<1>1. Find(Leaf(j, v), k) = Found(Leaf(j, v), k)
  BY FollowsNot, ReachStays, Zenon
<1>2. Found(Leaf(j, v), k) = IF k = j THEN v ELSE NoValue
  BY Fields DEF Found
<1> QED
  BY <1>1, <1>2

\* An extension holds what is below it, behind its key.
LEMMA FindExt ==
    ASSUME NEW j \in Seq(Nibbles), j # <<>>, NEW l, NEW D, NEW m, Trie(m, l, D)
    PROVE  /\ \A q \in Seq(Nibbles) : Find(Ext(j, m), j \o q) = Find(m, q)
           /\ \A k \in Seq(Nibbles) : ~Contains(k, j) => Find(Ext(j, m), k) = NoValue
<1>0. /\ \A q \in Seq(Nibbles) : Reach(Ext(j, m), j \o q) = Reach(m, q)
      /\ \A k \in Seq(Nibbles) : ~Contains(k, j) => Reach(Ext(j, m), k) = <<Ext(j, m), k>>
  BY ReachExt
<1>1. \A q \in Seq(Nibbles) : Find(Ext(j, m), j \o q) = Find(m, q)
  BY <1>0, Zenon DEF Find
<1>2. ASSUME NEW k \in Seq(Nibbles), ~Contains(k, j) PROVE Find(Ext(j, m), k) = NoValue
  <2>1. Reach(Ext(j, m), k) = <<Ext(j, m), k>>
    BY <1>2, <1>0, Zenon
  <2>2. Find(Ext(j, m), k) = Found(Ext(j, m), k)
    BY <2>1 DEF Find
  <2>3. Found(Ext(j, m), k) = NoValue
    BY Fields DEF Found, Ext
  <2> QED
    BY <2>2, <2>3
<1> QED
  BY <1>1, <1>2, Zenon

\* A branch holds its value and what is below its children.
LEMMA FindBra ==
    ASSUME NEW c, \A i \in Nibbles : IsNode(c[i]), NEW v
    PROVE  /\ Find(Bra(c, v), <<>>) = v
           /\ \A k \in Seq(Nibbles) : k # <<>> => Find(Bra(c, v), k) = Find(c[Head(k)], Tail(k))
<1>1. Find(Bra(c, v), <<>>) = v
  <2>1. Find(Bra(c, v), <<>>) = Found(Bra(c, v), <<>>)
    BY ReachNothing DEF Find
  <2>2. Found(Bra(c, v), <<>>) = v
    BY Fields DEF Found, Bra
  <2> QED
    BY <2>1, <2>2
<1>2. \A k \in Seq(Nibbles) : k # <<>> => Find(Bra(c, v), k) = Find(c[Head(k)], Tail(k))
  BY ReachBra, Zenon DEF Find
<1> QED
  BY <1>1, <1>2, Zenon

\* What is found behind the key of an extension.
LEMMA FindExtIn ==
    ASSUME NEW j \in Seq(Nibbles), j # <<>>, NEW l, NEW D, NEW m, Trie(m, l, D),
           NEW q \in Seq(Nibbles)
    PROVE  Find(Ext(j, m), j \o q) = Find(m, q)
BY FindExt

\* What is not behind it is not found.
LEMMA FindExtOut ==
    ASSUME NEW j \in Seq(Nibbles), j # <<>>, NEW l, NEW D, NEW m, Trie(m, l, D),
           NEW k \in Seq(Nibbles), ~Contains(k, j)
    PROVE  Find(Ext(j, m), k) = NoValue
BY FindExt

-----------------------------------------------------------------------------
(* The store: nodes and their counts. *)

Store(db) == /\ db = [n \in DOMAIN db |-> db[n]]
             /\ \A n \in DOMAIN db : db[n] \in Nat /\ IsNode(n)
Cnt(db, h) == IF h \in DOMAIN db THEN db[h] ELSE 0
One(n, h) == IF h = n THEN 1 ELSE 0
Self(n, h) == IF h = n /\ ~Fits(n) THEN 1 ELSE 0

\* No branch with a count has less than two things in it.
Clean(db) == \A n : n.kind = "branch" /\ Cnt(db, n) > 0 => TwoInUse(n)

\* Counts are numbers.
LEMMA CntNat ==
    ASSUME NEW db, Store(db), NEW h
    PROVE  Cnt(db, h) \in Nat
BY DEF Cnt, Store

\* One reference or none.
LEMMA OneNat ==
    ASSUME NEW n, NEW h
    PROVE  /\ One(n, h) \in Nat /\ Self(n, h) \in Nat
           /\ (Fits(n) => Self(n, h) = 0) /\ (~Fits(n) => Self(n, h) = One(n, h))
           /\ (Fits(h) => Self(n, h) = 0) /\ (h # n => One(n, h) = 0 /\ Self(n, h) = 0)
           /\ One(n, n) = 1
BY DEF One, Self

\* insert takes one reference, and stores the node.
LEMMA InsertIs ==
    ASSUME NEW db, Store(db), NEW n, IsNode(n)
    PROVE  /\ Store(DbInsert(db, n)) /\ DOMAIN DbInsert(db, n) = DOMAIN db \cup {n}
           /\ \A h : Cnt(DbInsert(db, n), h) = Cnt(db, h) + One(n, h)
<1>1. CASE n \in DOMAIN db
  <2>1. DbInsert(db, n) = [db EXCEPT ![n] = db[n] + 1]
    BY <1>1 DEF DbInsert
  <2>2. DOMAIN DbInsert(db, n) = DOMAIN db /\ DOMAIN db \cup {n} = DOMAIN db
    BY <1>1, <2>1
  <2>3. \A h \in DOMAIN db : DbInsert(db, n)[h] = IF h = n THEN db[n] + 1 ELSE db[h]
    BY <1>1, <2>1
  <2>4. DbInsert(db, n) = [h \in DOMAIN db |-> DbInsert(db, n)[h]]
    BY <2>1
  <2>5. \A h \in DOMAIN db : db[h] \in Nat /\ IsNode(h)
    BY DEF Store
  <2>6. \A h \in DOMAIN db : DbInsert(db, n)[h] \in Nat
    BY <2>3, <2>5
  <2>7. \A h : Cnt(DbInsert(db, n), h) = Cnt(db, h) + One(n, h)
    BY <1>1, <2>2, <2>3, <2>5 DEF Cnt, One
  <2> QED
    BY <2>2, <2>4, <2>5, <2>6, <2>7 DEF Store
<1>2. CASE n \notin DOMAIN db
  <2>1. DbInsert(db, n) = [h \in DOMAIN db \cup {n} |-> IF h = n THEN 1 ELSE db[h]]
    BY <1>2 DEF DbInsert
  <2>2. DOMAIN DbInsert(db, n) = DOMAIN db \cup {n}
    BY <2>1
  <2>3. \A h \in DOMAIN db \cup {n} : DbInsert(db, n)[h] = IF h = n THEN 1 ELSE db[h]
    BY <2>1
  <2>4. DbInsert(db, n) = [h \in DOMAIN db \cup {n} |-> DbInsert(db, n)[h]]
    BY <2>1
  <2>5. \A h \in DOMAIN db : db[h] \in Nat /\ IsNode(h)
    BY DEF Store
  <2>6. \A h \in DOMAIN db \cup {n} : DbInsert(db, n)[h] \in Nat /\ IsNode(h)
    BY <2>3, <2>5
  <2>7. \A h : Cnt(DbInsert(db, n), h) = Cnt(db, h) + One(n, h)
    BY <1>2, <2>2, <2>3, <2>5 DEF Cnt, One
  <2> QED
    BY <2>2, <2>4, <2>6, <2>7 DEF Store
<1> QED
  BY <1>1, <1>2

\* kill gives one back, if there is one.
LEMMA KillIs ==
    ASSUME NEW db, Store(db), NEW n
    PROVE  /\ Store(DbKill(db, n)) /\ DOMAIN DbKill(db, n) = DOMAIN db
           /\ \A h : Cnt(DbKill(db, n), h) <= Cnt(db, h)
           /\ Cnt(db, n) > 0 => \A h : Cnt(DbKill(db, n), h) + One(n, h) = Cnt(db, h)
<1>1. CASE n \in DOMAIN db /\ db[n] > 0
  <2>1. DbKill(db, n) = [db EXCEPT ![n] = db[n] - 1]
    BY <1>1 DEF DbKill
  <2>2. DOMAIN DbKill(db, n) = DOMAIN db
    BY <2>1
  <2>3. \A h \in DOMAIN db : DbKill(db, n)[h] = IF h = n THEN db[n] - 1 ELSE db[h]
    BY <1>1, <2>1
  <2>4. DbKill(db, n) = [h \in DOMAIN db |-> DbKill(db, n)[h]]
    BY <2>1
  <2>5. \A h \in DOMAIN db : db[h] \in Nat /\ IsNode(h)
    BY DEF Store
  <2>6. \A h \in DOMAIN db : DbKill(db, n)[h] \in Nat
    BY <1>1, <2>3, <2>5
  <2>7. \A h : Cnt(DbKill(db, n), h) <= Cnt(db, h) /\ Cnt(DbKill(db, n), h) + One(n, h) = Cnt(db, h)
    BY <1>1, <2>2, <2>3, <2>5 DEF Cnt, One
  <2> QED
    BY <2>2, <2>4, <2>5, <2>6, <2>7 DEF Store
<1>2. CASE ~(n \in DOMAIN db /\ db[n] > 0)
  <2>1. DbKill(db, n) = db
    BY <1>2 DEF DbKill
  <2>2. ~(Cnt(db, n) > 0)
    BY <1>2 DEF Cnt
  <2>3. \A h : Cnt(db, h) \in Nat
    BY CntNat
  <2> QED
    BY <2>1, <2>2, <2>3
<1> QED
  BY <1>1, <1>2

\* killNode gives back the reference of a node that is not inline.
LEMMA KillNodeIs ==
    ASSUME NEW db, Store(db), NEW n
    PROVE  /\ Store(KillNode(db, n)) /\ DOMAIN KillNode(db, n) = DOMAIN db
           /\ \A h : Cnt(KillNode(db, n), h) <= Cnt(db, h)
           /\ Cnt(db, n) >= Self(n, n)
              => \A h : Cnt(KillNode(db, n), h) + Self(n, h) = Cnt(db, h)
           /\ Clean(db) => Clean(KillNode(db, n))
<1>1. \A h : Cnt(db, h) \in Nat
  BY CntNat
<1>2. CASE Fits(n)
  <2>1. KillNode(db, n) = db /\ \A h : Self(n, h) = 0
    BY <1>2, OneNat DEF KillNode
  <2> QED
    BY <1>1, <2>1
<1>3. CASE ~Fits(n)
  <2>1. KillNode(db, n) = DbKill(db, n) /\ Self(n, n) = 1 /\ \A h : Self(n, h) = One(n, h)
    BY <1>3, OneNat DEF KillNode
  <2>2. Cnt(db, n) >= 1 => Cnt(db, n) > 0
    BY <1>1
  <2>3. \A h : Cnt(DbKill(db, n), h) <= Cnt(db, h)
    BY KillIs, Zenon
  <2>4. \A h : Cnt(DbKill(db, n), h) > 0 => Cnt(db, h) > 0
    <3>1. \A h : Cnt(DbKill(db, n), h) \in Nat
      BY KillIs, CntNat
    <3> QED
      BY <1>1, <2>3, <3>1
  <2>5. Clean(db) => Clean(DbKill(db, n))
    BY <2>4, Zenon DEF Clean
  <2>6. Store(DbKill(db, n)) /\ DOMAIN DbKill(db, n) = DOMAIN db
    BY KillIs
  <2>7. Cnt(db, n) > 0 => \A h : Cnt(DbKill(db, n), h) + One(n, h) = Cnt(db, h)
    BY KillIs
  <2> QED
    BY <2>1, <2>2, <2>3, <2>5, <2>6, <2>7, Zenon
<1> QED
  BY <1>2, <1>3

\* What StreamNode does with a result.
LEMMA StreamIs ==
    ASSUME NEW r, Store(r.db), IsNode(r.b)
    PROVE  /\ StreamNode(r).slot = SlotFor(r.b) /\ StreamNode(r).out = r.out
           /\ Store(StreamNode(r).db) /\ DOMAIN r.db \subseteq DOMAIN StreamNode(r).db
           /\ Kept(r.b, DOMAIN StreamNode(r).db)
           /\ \A h : Cnt(StreamNode(r).db, h) = Cnt(r.db, h) + Self(r.b, h)
           /\ Clean(r.db) /\ (r.b.kind = "branch" => TwoInUse(r.b)) => Clean(StreamNode(r).db)
<1>0. \A h : Cnt(r.db, h) \in Nat
  BY CntNat
<1>1. CASE Fits(r.b)
  <2>1. /\ StreamNode(r).slot = r.b /\ StreamNode(r).out = r.out /\ StreamNode(r).db = r.db
        /\ SlotFor(r.b) = r.b /\ Kept(r.b, DOMAIN r.db)
    BY <1>1 DEF StreamNode, SlotFor, Kept
  <2>2. \A h : Cnt(r.db, h) = Cnt(r.db, h) + Self(r.b, h)
    BY <1>0, <1>1, OneNat
  <2> QED
    BY <2>1, <2>2
<1>2. CASE ~Fits(r.b)
  <2>1. /\ StreamNode(r).slot = HashOf(r.b) /\ StreamNode(r).out = r.out
        /\ StreamNode(r).db = DbInsert(r.db, r.b) /\ SlotFor(r.b) = HashOf(r.b)
    BY <1>2 DEF StreamNode, SlotFor
  <2>2. /\ Store(DbInsert(r.db, r.b)) /\ DOMAIN DbInsert(r.db, r.b) = DOMAIN r.db \cup {r.b}
        /\ \A h : Cnt(DbInsert(r.db, r.b), h) = Cnt(r.db, h) + One(r.b, h)
    BY InsertIs
  <2>3. \A h : Self(r.b, h) = One(r.b, h)
    BY <1>2, OneNat
  <2>4. \A h : Cnt(DbInsert(r.db, r.b), h) = Cnt(r.db, h) + Self(r.b, h)
    BY <2>2, <2>3, Zenon
  <2>5. \A h : h # r.b => Cnt(DbInsert(r.db, r.b), h) = Cnt(r.db, h)
    <3>1. \A h : h # r.b => Self(r.b, h) = 0
      BY OneNat
    <3> QED
      BY <1>0, <2>4, <3>1
  <2>6. Clean(r.db) /\ (r.b.kind = "branch" => TwoInUse(r.b)) => Clean(DbInsert(r.db, r.b))
    BY <2>5 DEF Clean
  <2>7. Kept(r.b, DOMAIN r.db \cup {r.b}) /\ DOMAIN r.db \subseteq DOMAIN r.db \cup {r.b}
    BY DEF Kept
  <2> QED
    BY <2>1, <2>2, <2>4, <2>6, <2>7, Zenon
<1> QED
  BY <1>1, <1>2

-----------------------------------------------------------------------------
(* Where a node is met below another one, and how often it is referenced. *)

\* A bijection keeps finiteness and size.
LEMMA SameSize ==
    ASSUME NEW A, NEW T, IsFiniteSet(A), NEW f, f \in [A -> T],
           \A a, b \in A : f[a] = f[b] => a = b, \A t \in T : \E a \in A : f[a] = t
    PROVE  IsFiniteSet(T) /\ Cardinality(T) = Cardinality(A)
<1>1. f \in Injection(A, T)
  BY DEF Injection, IsInjective
<1>2. f \in Surjection(A, T)
  BY Zenon DEF Surjection
<1>3. ExistsBijection(A, T)
  BY <1>1, <1>2 DEF ExistsBijection, Bijection
<1> QED
  BY <1>3, FS_Bijection, Zenon

Spots(n, h) == {p \in Seq(Nibbles) : Reach(n, p) = <<h, <<>>>>}
Under(n, h) == Spots(n, h) \ {<<>>}

\* The references to h below n, and with the one to n itself.
R(n, h) == IF Fits(h) THEN 0 ELSE Cardinality(Under(n, h))
S(n, h) == R(n, h) + Self(n, h)

\* Where a node is in a trie, at its root or below it.
LEMMA SpotsIs ==
    ASSUME NEW n, NEW h
    PROVE  /\ \A p : p \in Spots(n, h) <=> p \in Seq(Nibbles) /\ Reach(n, p) = <<h, <<>>>>
           /\ \A p : p \in Under(n, h) <=> p \in Spots(n, h) /\ p # <<>>
           /\ <<>> \in Spots(n, h) <=> h = n
           /\ Spots(n, h) = Under(n, h) \cup (IF h = n THEN {<<>>} ELSE {})
           /\ Under(n, h) \subseteq Seq(Nibbles) /\ Spots(n, h) \subseteq Seq(Nibbles)
<1>1. \A p : p \in Spots(n, h) <=> p \in Seq(Nibbles) /\ Reach(n, p) = <<h, <<>>>>
  BY Zenon DEF Spots
<1>2. \A p : p \in Under(n, h) <=> p \in Spots(n, h) /\ p # <<>>
  BY Zenon DEF Under
<1>3. <<>> \in Spots(n, h) <=> h = n
  <2>1. Reach(n, <<>>) = <<n, <<>>>> /\ <<>> \in Seq(Nibbles)
    BY ReachNothing
  <2>2. <<n, <<>>>> = <<h, <<>>>> <=> h = n
    OBVIOUS
  <2> QED
    BY <2>1, <2>2 DEF Spots
<1>4. Spots(n, h) \subseteq Seq(Nibbles)
  BY <1>1
<1> QED
  BY <1>1, <1>2, <1>3, <1>4

\* A spot leads to the node.
LEMMA SpotIn ==
    ASSUME NEW n, NEW h, NEW p \in Spots(n, h)
    PROVE  p \in Seq(Nibbles) /\ Reach(n, p) = <<h, <<>>>>
BY DEF Spots

\* What leads to the node is a spot.
LEMMA SpotMade ==
    ASSUME NEW n, NEW h, NEW p \in Seq(Nibbles), Reach(n, p) = <<h, <<>>>>
    PROVE  p \in Spots(n, h) /\ (p # <<>> => p \in Under(n, h))
BY DEF Spots, Under

\* A spot below the root.
LEMMA UnderIn ==
    ASSUME NEW n, NEW h, NEW p \in Under(n, h)
    PROVE  p \in Seq(Nibbles) /\ Reach(n, p) = <<h, <<>>>> /\ p # <<>> /\ p \in Spots(n, h)
BY DEF Spots, Under

\* R and S count references by hash: below the root, and with the root as one.
LEMMA SpotsSize ==
    ASSUME NEW n, NEW h, IsFiniteSet(Spots(n, h))
    PROVE  /\ R(n, h) \in Nat /\ S(n, h) \in Nat /\ S(n, h) >= R(n, h)
           /\ S(n, h) = IF Fits(h) THEN 0 ELSE Cardinality(Spots(n, h))
<1>1. Under(n, h) \subseteq Spots(n, h)
  BY DEF Under
<1>2. IsFiniteSet(Under(n, h))
  BY <1>1, FS_Subset
<1>3. Cardinality(Under(n, h)) \in Nat
  BY <1>2, FS_CardinalityType
<1>4. R(n, h) \in Nat /\ Self(n, h) \in Nat
  BY <1>3, OneNat DEF R
<1>5. S(n, h) = IF Fits(h) THEN 0 ELSE Cardinality(Spots(n, h))
  <2>1. CASE Fits(h)
    BY <2>1, OneNat DEF S, R
  <2>2. CASE ~Fits(h) /\ h = n
    <3>1. Spots(n, h) = Under(n, h) \cup {<<>>} /\ <<>> \notin Under(n, h)
      BY <2>2, SpotsIs
    <3>2. Cardinality(Spots(n, h)) = Cardinality(Under(n, h)) + 1
      BY <1>2, <3>1, FS_AddElement
    <3> QED
      BY <2>2, <3>2 DEF S, R, Self
  <2>3. CASE ~Fits(h) /\ h # n
    <3>1. Spots(n, h) = Under(n, h)
      BY <2>3, SpotsIs
    <3> QED
      BY <2>3, <3>1, <1>3 DEF S, R, Self
  <2> QED
    BY <2>1, <2>2, <2>3
<1> QED
  BY <1>4, <1>5 DEF S

\* There is nothing below what goes nowhere.
LEMMA UnderStays ==
    ASSUME NEW n, \A k : ~Follows(n, k), NEW h
    PROVE  Under(n, h) = {} /\ IsFiniteSet(Spots(n, h)) /\ \A p \in Spots(n, h) : p = <<>>
<1>1. ASSUME NEW p, p \in Spots(n, h) PROVE p = <<>>
  <2>1. p \in Seq(Nibbles) /\ Reach(n, p) = <<h, <<>>>>
    BY <1>1, SpotIn
  <2>2. Reach(n, p) = <<n, p>>
    BY <2>1, ReachStays, Zenon
  <2> QED
    BY <2>1, <2>2
<1>2. Under(n, h) = {}
  BY <1>1, SpotsIs
<1>3. Spots(n, h) \in SUBSET {<<>>}
  BY <1>1
<1>4. IsFiniteSet({<<>>})
  BY FS_Singleton
<1>5. IsFiniteSet(Spots(n, h))
  BY <1>3, <1>4, FS_Subset, Zenon
<1> QED
  BY <1>1, <1>2, <1>5

\* The spots below an extension.
LEMMA UnderExt ==
    ASSUME NEW j \in Seq(Nibbles), j # <<>>, NEW l, NEW D, NEW m, Trie(m, l, D), NEW h
    PROVE  /\ \A q \in Spots(m, h) : j \o q \in Under(Ext(j, m), h)
           /\ \A p \in Under(Ext(j, m), h) : \E q \in Spots(m, h) : p = j \o q
<1>1. ASSUME NEW q \in Spots(m, h) PROVE j \o q \in Under(Ext(j, m), h)
  <2>1. q \in Seq(Nibbles) /\ Reach(m, q) = <<h, <<>>>>
    BY SpotsIs
  <2>2. Reach(Ext(j, m), j \o q) = Reach(m, q)
    BY <2>1, ReachExt
  <2>3. j \o q \in Seq(Nibbles) /\ Len(j \o q) = Len(j) + Len(q) /\ Len(j) > 0 /\ Len(q) \in Nat /\ Len(j) \in Nat
    BY <2>1, Concatenated, HeadAndTail
  <2>4. j \o q # <<>>
    BY <2>3
  <2> QED
    BY <2>1, <2>2, <2>3, <2>4, SpotsIs, Zenon
<1>2. ASSUME NEW p \in Under(Ext(j, m), h) PROVE \E q \in Spots(m, h) : p = j \o q
  <2>1. p \in Seq(Nibbles) /\ p # <<>> /\ Reach(Ext(j, m), p) = <<h, <<>>>>
    BY UnderIn
  <2>2. Contains(p, j)
    <3>1. ASSUME ~Contains(p, j) PROVE FALSE
      <4>1. Reach(Ext(j, m), p) = <<Ext(j, m), p>>
        BY <2>1, <3>1, ReachExt
      <4> QED
        BY <2>1, <4>1
    <3> QED
      BY <3>1
  <2>3. Mid(p, Len(j)) \in Seq(Nibbles) /\ p = j \o Mid(p, Len(j))
    BY <2>1, <2>2, ContainsIs
  <2>4. Reach(Ext(j, m), j \o Mid(p, Len(j))) = Reach(m, Mid(p, Len(j)))
    BY <2>3, ReachExt
  <2>5. Reach(m, Mid(p, Len(j))) = <<h, <<>>>>
    BY <2>1, <2>3, <2>4, Zenon
  <2>6. Mid(p, Len(j)) \in Spots(m, h)
    BY <2>3, <2>5, SpotsIs, Zenon
  <2> QED
    BY <2>3, <2>6, Zenon
<1> QED
  BY <1>1, <1>2, Zenon

\* There are as many as in what it leads to.
LEMMA UnderExtSize ==
    ASSUME NEW j \in Seq(Nibbles), j # <<>>, NEW l, NEW D, NEW m, Trie(m, l, D), NEW h,
           IsFiniteSet(Spots(m, h))
    PROVE  /\ IsFiniteSet(Under(Ext(j, m), h))
           /\ Cardinality(Under(Ext(j, m), h)) = Cardinality(Spots(m, h))
<1> DEFINE f == [q \in Spots(m, h) |-> j \o q]
<1>1. \A q \in Spots(m, h) : f[q] = j \o q
  OBVIOUS
<1>2. f \in [Spots(m, h) -> Under(Ext(j, m), h)]
  BY UnderExt
<1> HIDE DEF f
<1>3. \A a, b \in Spots(m, h) : f[a] = f[b] => a = b
  <2>1. ASSUME NEW a \in Spots(m, h), NEW b \in Spots(m, h), f[a] = f[b] PROVE a = b
    <3>1. a \in Seq(Nibbles) /\ b \in Seq(Nibbles) /\ j \o a = j \o b
      BY <1>1, <2>1, SpotsIs, Zenon
    <3> QED
      BY <3>1, SameAhead
  <2> QED
    BY <2>1, Zenon
<1>4. \A t \in Under(Ext(j, m), h) : \E a \in Spots(m, h) : f[a] = t
  <2>1. \A p \in Under(Ext(j, m), h) : \E q \in Spots(m, h) : p = j \o q
    BY UnderExt
  <2> QED
    BY <1>1, <2>1, Zenon
<1> QED
  BY <1>2, <1>3, <1>4, SameSize, Zenon

\* The spots below a branch.
LEMMA UnderBra ==
    ASSUME NEW c, \A i \in Nibbles : IsNode(c[i]), NEW v, NEW h
    PROVE  \A p : p \in Under(Bra(c, v), h)
              <=> p \in Seq(Nibbles) /\ p # <<>> /\ Tail(p) \in Spots(c[Head(p)], h)
<1> SUFFICES ASSUME NEW p \in Seq(Nibbles), p # <<>>
             PROVE  p \in Under(Bra(c, v), h) <=> Tail(p) \in Spots(c[Head(p)], h)
  BY SpotsIs, Zenon
<1>1. Reach(Bra(c, v), p) = Reach(c[Head(p)], Tail(p))
  BY ReachBra
<1>2. Tail(p) \in Seq(Nibbles)
  BY HeadAndTail
<1>3. p \in Under(Bra(c, v), h) <=> Reach(Bra(c, v), p) = <<h, <<>>>>
  BY DEF Spots, Under
<1>4. Tail(p) \in Spots(c[Head(p)], h) <=> Reach(c[Head(p)], Tail(p)) = <<h, <<>>>>
  BY <1>2 DEF Spots
<1> QED
  BY <1>1, <1>3, <1>4

\* The places below the child at i of a branch, and the others.
Beneath(c, i, h) == {p \in Seq(Nibbles) : p # <<>> /\ Head(p) = i /\ Tail(p) \in Spots(c[i], h)}
Others(c, i, h) ==
    {p \in Seq(Nibbles) : p # <<>> /\ Head(p) # i /\ Tail(p) \in Spots(c[Head(p)], h)}

\* There are as many below a child as in it.
LEMMA BeneathSize ==
    ASSUME NEW c, NEW i \in Nibbles, NEW h, IsFiniteSet(Spots(c[i], h))
    PROVE  IsFiniteSet(Beneath(c, i, h)) /\ Cardinality(Beneath(c, i, h)) = Cardinality(Spots(c[i], h))
<1> DEFINE f == [q \in Spots(c[i], h) |-> <<i>> \o q]
<1>1. \A q \in Spots(c[i], h) : f[q] = <<i>> \o q
  OBVIOUS
<1>2. \A q \in Spots(c[i], h) : <<i>> \o q \in Beneath(c, i, h) /\ Tail(<<i>> \o q) = q
  <2>1. ASSUME NEW q \in Spots(c[i], h)
        PROVE <<i>> \o q \in Beneath(c, i, h) /\ Tail(<<i>> \o q) = q
    <3>1. q \in Seq(Nibbles)
      BY SpotsIs
    <3>2. /\ <<i>> \o q \in Seq(Nibbles) /\ <<i>> \o q # <<>> /\ Head(<<i>> \o q) = i
          /\ Tail(<<i>> \o q) = q
      BY <3>1, Prepended
    <3>3. Tail(<<i>> \o q) \in Spots(c[i], h)
      BY <3>2, Zenon
    <3> QED
      BY <3>2, <3>3, Zenon DEF Beneath
  <2> QED
    BY <2>1, Zenon
<1>3. f \in [Spots(c[i], h) -> Beneath(c, i, h)]
  BY <1>2
<1> HIDE DEF f
<1>4. \A a, b \in Spots(c[i], h) : f[a] = f[b] => a = b
  BY <1>1, <1>2, Zenon
<1>5. \A t \in Beneath(c, i, h) : \E a \in Spots(c[i], h) : f[a] = t
  <2>1. ASSUME NEW t \in Beneath(c, i, h) PROVE \E a \in Spots(c[i], h) : f[a] = t
    <3>1. t \in Seq(Nibbles) /\ t # <<>> /\ Head(t) = i /\ Tail(t) \in Spots(c[i], h)
      BY Zenon DEF Beneath
    <3>2. t = <<Head(t)>> \o Tail(t)
      BY <3>1, HeadAndTail, Zenon
    <3> QED
      BY <1>1, <3>1, <3>2, Zenon
  <2> QED
    BY <2>1, Zenon
<1> QED
  BY <1>3, <1>4, <1>5, SameSize, Zenon

\* There are finitely many below a branch of finite tries.
LEMMA UnderBraFinite ==
    ASSUME NEW c, \A i \in Nibbles : IsNode(c[i]), NEW v, NEW h,
           \A i \in Nibbles : IsFiniteSet(Spots(c[i], h))
    PROVE  IsFiniteSet(Under(Bra(c, v), h))
<1> DEFINE Part(b) == {p \in Under(Bra(c, v), h) : Head(p) < b}
           Good == {b \in Nat : IsFiniteSet(Part(b))}
<1>0. \A p \in Under(Bra(c, v), h) : /\ Head(p) \in Nibbles /\ Head(p) \in 0 .. 15
                                     /\ p \in Beneath(c, Head(p), h)
  <2>1. ASSUME NEW p \in Under(Bra(c, v), h)
        PROVE  /\ Head(p) \in Nibbles /\ Head(p) \in 0 .. 15
               /\ p \in Beneath(c, Head(p), h)
    <3>1. p \in Seq(Nibbles) /\ p # <<>> /\ Tail(p) \in Spots(c[Head(p)], h)
      BY UnderBra, Zenon
    <3>2. Head(p) \in Nibbles
      BY <3>1, HeadAndTail
    <3>3. Head(p) \in 0 .. 15
      BY <3>2, NibblesAssumption
    <3> QED
      BY <3>1, <3>2, <3>3, Zenon DEF Beneath
  <2> QED
    BY <2>1, Zenon
<1>1. 0 \in Good
  <2>1. Part(0) = {}
    BY <1>0
  <2> QED
    BY <2>1, FS_EmptySet
<1>2. ASSUME NEW b \in Nat, b \in Good PROVE b + 1 \in Good
  <2>1. CASE b \in Nibbles
    <3>1. \A p \in Part(b + 1) : p \in Part(b) \/ p \in Beneath(c, b, h)
      <4>1. \A x \in 0 .. 15 : x < b + 1 => x < b \/ x = b
        OBVIOUS
      <4> QED
        BY <1>0, <4>1
    <3>2. Part(b + 1) \in SUBSET (Part(b) \cup Beneath(c, b, h))
      BY <3>1
    <3>3. IsFiniteSet(Part(b)) /\ IsFiniteSet(Beneath(c, b, h))
      BY <1>2, <2>1, BeneathSize
    <3> HIDE DEF Part
    <3>4. IsFiniteSet(Part(b) \cup Beneath(c, b, h))
      BY <3>3, FS_Union, Zenon
    <3> QED
      BY <3>2, <3>4, FS_Subset
  <2>2. CASE b \notin Nibbles
    <3>1. \A p \in Under(Bra(c, v), h) : Head(p) < b + 1 => Head(p) < b
      <4>1. \A x \in 0 .. 15 : x < b + 1 => x < b \/ x = b
        OBVIOUS
      <4> QED
        BY <1>0, <4>1, <2>2, Zenon
    <3>2. Part(b + 1) \in SUBSET Part(b)
      BY <3>1
    <3>3. IsFiniteSet(Part(b))
      BY <1>2
    <3> HIDE DEF Part
    <3> QED
      BY <3>2, <3>3, FS_Subset
  <2> QED
    BY <2>1, <2>2
<1>3. Part(16) = Under(Bra(c, v), h)
  BY <1>0
<1> HIDE DEF Good
<1>4. 16 \in Good
  BY <1>1, <1>2, SetInduction
<1> QED
  BY <1>3, <1>4 DEF Good

\* Any node is met a finite number of times, no deeper than the keys are long.
LEMMA SpotsOfTries ==
    ASSUME NEW D, NEW l \in Nat
    PROVE  \A n, h : Trie(n, l, D) => IsFiniteSet(Spots(n, h)) /\ \A p \in Spots(n, h) : Len(p) <= l
<1> DEFINE Holds(a) == \A n, h : Trie(n, a, D)
                         => IsFiniteSet(Spots(n, h)) /\ \A p \in Spots(n, h) : Len(p) <= a
           Good == {a \in Nat : Holds(a)}
<1>1. ASSUME NEW a \in Nat, 0 .. (a - 1) \subseteq Good PROVE a \in Good
  <2> SUFFICES ASSUME NEW n, NEW h, Trie(n, a, D)
               PROVE  IsFiniteSet(Spots(n, h)) /\ \A p \in Spots(n, h) : Len(p) <= a
    OBVIOUS
  <2> DEFINE Goal == IsFiniteSet(Spots(n, h)) /\ \A p \in Spots(n, h) : Len(p) <= a
  <2> SUFFICES Goal
    OBVIOUS
  <2>a. ASSUME NEW d \in 1 .. a, NEW m, Trie(m, a - d, D)
        PROVE  IsFiniteSet(Spots(m, h)) /\ \A p \in Spots(m, h) : Len(p) <= a - d
    <3>1. a - d \in 0 .. (a - 1)
      OBVIOUS
    <3>2. Holds(a - d)
      BY <1>1, <3>1
    <3> HIDE DEF Goal
    <3> QED
      BY <2>a, <3>2, Zenon
  <2>b. ASSUME IsFiniteSet(Under(n, h)), \A p \in Under(n, h) : Len(p) <= a PROVE Goal
    <3>1. Spots(n, h) \in SUBSET (Under(n, h) \cup {<<>>})
      BY DEF Under
    <3>2. IsFiniteSet(Under(n, h) \cup {<<>>})
      BY <2>b, FS_AddElement, Zenon
    <3>3. IsFiniteSet(Spots(n, h))
      BY <3>1, <3>2, FS_Subset, Zenon
    <3>4. Len(<<>>) <= a
      OBVIOUS
    <3>5. \A p \in Spots(n, h) : p \in Under(n, h) \/ p = <<>>
      BY DEF Under
    <3> QED
      BY <2>b, <3>3, <3>4, <3>5, Zenon
  <2>c. ASSUME \A k : ~Follows(n, k) PROVE Goal
    <3>1. Under(n, h) = {} /\ IsFiniteSet(Spots(n, h))
      BY <2>c, UnderStays
    <3>2. IsFiniteSet(Under(n, h)) /\ \A p \in Under(n, h) : Len(p) <= a
      BY <3>1, FS_EmptySet
    <3> HIDE DEF Goal
    <3> QED
      BY <2>b, <3>2, Zenon
  <2>1. CASE n = Null
    <3> HIDE DEF Goal
    <3>1. \A k : ~Follows(n, k)
      BY <2>1, FollowsNot
    <3> QED
      BY <3>1, <2>c
  <2>2. CASE AsLeaf(n, a)
    <3>1. PICK j, v : n = Leaf(j, v)
      BY <2>2, Zenon DEF AsLeaf
    <3> HIDE DEF Goal
    <3>2. \A k : ~Follows(n, k)
      BY <3>1, FollowsNot
    <3> QED
      BY <3>2, <2>c
  <2>3. CASE AsExt(n, a, D)
    <3>ext. PICK j \in Seq(Nibbles) : \E m :
           j # <<>> /\ Len(j) <= a /\ Trie(m, a - Len(j), D) /\ n = Ext(j, m)
      BY <2>3, Zenon DEF AsExt
    <3>1. PICK m : j # <<>> /\ Len(j) <= a /\ Trie(m, a - Len(j), D) /\ n = Ext(j, m)
      BY <3>ext, Zenon
    <3>2. Len(j) \in 1 .. a
      BY <3>1
    <3>3. IsFiniteSet(Spots(m, h)) /\ \A p \in Spots(m, h) : Len(p) <= a - Len(j)
      BY <2>a, <3>1, <3>2, Zenon
    <3>4. IsFiniteSet(Under(Ext(j, m), h))
      BY <3>1, <3>3, UnderExtSize, Zenon
    <3>5. ASSUME NEW p \in Under(Ext(j, m), h) PROVE Len(p) <= a
      <4>1. PICK q \in Spots(m, h) : p = j \o q
        BY <3>1, UnderExt, Zenon
      <4>2. q \in Seq(Nibbles) /\ Len(q) <= a - Len(j)
        BY <3>3, SpotIn
      <4>3. Len(p) = Len(j) + Len(q) /\ Len(j) \in Nat /\ Len(q) \in Nat
        BY <4>1, <4>2, Concatenated
      <4> QED
        BY <4>2, <4>3
    <3>6. IsFiniteSet(Under(n, h)) /\ \A p \in Under(n, h) : Len(p) <= a
      BY <3>1, <3>4, <3>5
    <3> HIDE DEF Goal
    <3> QED
      BY <2>b, <3>6
  <2>4. CASE AsBra(n, a, D)
    <3>1. PICK c, v : a > 0 /\ (\A i \in Nibbles : Trie(c[i], a - 1, D)) /\ n = Bra(c, v)
      BY <2>4, Zenon DEF AsBra
    <3>2. 1 \in 1 .. a
      BY <3>1
    <3>3. \A i \in Nibbles : IsFiniteSet(Spots(c[i], h)) /\ \A p \in Spots(c[i], h) : Len(p) <= a - 1
      BY <2>a, <3>1, <3>2, Zenon
    <3>4. \A i \in Nibbles : IsNode(c[i])
      BY <3>1, TrieIsNode, Zenon
    <3>5. IsFiniteSet(Under(Bra(c, v), h))
      BY <3>3, <3>4, UnderBraFinite, Zenon
    <3>6. ASSUME NEW p \in Under(Bra(c, v), h) PROVE Len(p) <= a
      <4>1. p \in Seq(Nibbles) /\ p # <<>> /\ Tail(p) \in Spots(c[Head(p)], h)
        BY <3>4, UnderBra
      <4>2. Head(p) \in Nibbles /\ Len(Tail(p)) = Len(p) - 1 /\ Len(p) \in Nat
        BY <4>1, HeadAndTail
      <4>3. Len(Tail(p)) <= a - 1
        BY <3>3, <4>1, <4>2, Zenon
      <4> QED
        BY <4>2, <4>3
    <3>7. IsFiniteSet(Under(n, h)) /\ \A p \in Under(n, h) : Len(p) <= a
      BY <3>1, <3>5, <3>6
    <3> HIDE DEF Goal
    <3> QED
      BY <2>b, <3>7
  <2> HIDE DEF Goal
  <2>5. n = Null \/ AsLeaf(n, a) \/ AsExt(n, a, D) \/ AsBra(n, a, D)
    BY TrieCases
  <2> QED
    BY <2>1, <2>2, <2>3, <2>4, <2>5, Zenon
<1> HIDE DEF Holds
<1>2. l \in Good
  <2> HIDE DEF Good
  <2> QED
    BY <1>1, LessInduction, Zenon
<1> QED
  BY <1>2 DEF Holds

\* So its references are counted.
LEMMA SpotsFinite ==
    ASSUME NEW n, NEW l, NEW D, Trie(n, l, D), NEW h
    PROVE  /\ IsFiniteSet(Spots(n, h)) /\ R(n, h) \in Nat /\ S(n, h) \in Nat
           /\ S(n, h) = R(n, h) + Self(n, h)
           /\ S(n, h) = IF Fits(h) THEN 0 ELSE Cardinality(Spots(n, h))
<1>1. l \in Nat
  BY TrieIs
<1>2. \A x, y : Trie(x, l, D) => IsFiniteSet(Spots(x, y))
  BY <1>1, SpotsOfTries, Zenon
<1>3. IsFiniteSet(Spots(n, h))
  BY <1>2, Zenon
<1>4. S(n, h) = R(n, h) + Self(n, h)
  BY DEF S
<1> QED
  BY <1>3, <1>4, SpotsSize, Zenon

\* What is referenced below each kind of node.
LEMMA RStays ==
    ASSUME NEW n, \A k : ~Follows(n, k), NEW h
    PROVE  R(n, h) = 0
<1>1. Under(n, h) = {}
  BY UnderStays
<1> QED
  BY <1>1, FS_EmptySet DEF R

\* Nothing has no references.
LEMMA RNone == ASSUME NEW h PROVE R(Null, h) = 0 /\ S(Null, h) = 0
<1>1. R(Null, h) = 0
  BY RStays, FollowsNot, Zenon
<1>2. Self(Null, h) = 0
  BY OneNat, Fields
<1> QED
  BY <1>1, <1>2 DEF S

\* A leaf has none.
LEMMA RLeaf == ASSUME NEW j, NEW v, NEW h PROVE R(Leaf(j, v), h) = 0
BY RStays, FollowsNot, Zenon

\* An extension has those of what it leads to.
LEMMA RExt ==
    ASSUME NEW j \in Seq(Nibbles), j # <<>>, NEW l, NEW D, NEW m, Trie(m, l, D), NEW h
    PROVE  R(Ext(j, m), h) = S(m, h)
<1>1. IsFiniteSet(Spots(m, h)) /\ S(m, h) = IF Fits(h) THEN 0 ELSE Cardinality(Spots(m, h))
  BY SpotsFinite
<1>2. Cardinality(Under(Ext(j, m), h)) = Cardinality(Spots(m, h))
  BY <1>1, UnderExtSize
<1> QED
  BY <1>1, <1>2 DEF R

\* All the children are tries for keys of length l.
Tries(c, l, D) == \A i \in Nibbles : Trie(c[i], l, D)

\* The children of a branch are tries.
LEMMA TriesAre ==
    ASSUME NEW c, NEW l, NEW D, Tries(c, l, D)
    PROVE  \A i \in Nibbles : Trie(c[i], l, D) /\ IsNode(c[i])
BY TrieIsNode, Zenon DEF Tries

Rest(c, i, h) == IF Fits(h) THEN 0 ELSE Cardinality(Others(c, i, h))

\* A branch has those of one child, and those of the rest.
LEMMA RBra ==
    ASSUME NEW c, NEW l, NEW D, Tries(c, l, D), NEW v, NEW h, NEW i \in Nibbles
    PROVE  /\ R(Bra(c, v), h) = S(c[i], h) + Rest(c, i, h)
           /\ S(c[i], h) \in Nat /\ Rest(c, i, h) \in Nat /\ R(Bra(c, v), h) \in Nat
<1>0. \A x \in Nibbles : IsNode(c[x]) /\ Trie(c[x], l, D)
  BY TriesAre
<1>1. \A x \in Nibbles : IsFiniteSet(Spots(c[x], h))
  BY <1>0, SpotsFinite, Zenon
<1>2. S(c[i], h) = IF Fits(h) THEN 0 ELSE Cardinality(Spots(c[i], h))
  BY <1>0, SpotsFinite
<1>3. /\ IsFiniteSet(Beneath(c, i, h))
      /\ Cardinality(Beneath(c, i, h)) = Cardinality(Spots(c[i], h))
  BY <1>1, BeneathSize
<1>4. IsFiniteSet(Under(Bra(c, v), h))
  BY <1>0, <1>1, UnderBraFinite, Zenon
<1>5. \A p : p \in Under(Bra(c, v), h)
              <=> p \in Seq(Nibbles) /\ p # <<>> /\ Tail(p) \in Spots(c[Head(p)], h)
  BY <1>0, UnderBra
<1>6. /\ Under(Bra(c, v), h) = Beneath(c, i, h) \cup Others(c, i, h)
      /\ Beneath(c, i, h) \cap Others(c, i, h) = {}
  BY <1>5 DEF Beneath, Others
<1>7. Others(c, i, h) \in SUBSET Under(Bra(c, v), h)
  BY <1>6
<1>8. IsFiniteSet(Others(c, i, h))
  BY <1>4, <1>7, FS_Subset, Zenon
<1>9. Cardinality(Others(c, i, h)) \in Nat /\ Cardinality(Beneath(c, i, h)) \in Nat
  BY <1>3, <1>8, FS_CardinalityType
<1>10. Cardinality(Under(Bra(c, v), h)) = Cardinality(Beneath(c, i, h)) + Cardinality(Others(c, i, h))
  <2>1. Cardinality({}) = 0
    BY FS_EmptySet
  <2>2. Cardinality(Beneath(c, i, h) \cup Others(c, i, h)) =
          Cardinality(Beneath(c, i, h)) + Cardinality(Others(c, i, h))
            - Cardinality(Beneath(c, i, h) \cap Others(c, i, h))
    BY <1>3, <1>8, FS_Union
  <2> DEFINE x == Cardinality(Beneath(c, i, h))
             y == Cardinality(Others(c, i, h))
  <2>3. Cardinality(Under(Bra(c, v), h)) = x + y - 0 /\ x \in Nat /\ y \in Nat
    BY <1>6, <1>9, <2>1, <2>2, Zenon
  <2>4. Cardinality(Under(Bra(c, v), h)) = x + y
    <3> HIDE DEF x, y
    <3> QED
      BY <2>3
  <2> QED
    BY <2>4
<1> QED
  BY <1>2, <1>3, <1>9, <1>10 DEF R, Rest

\* Children that differ at i alone have the same references elsewhere.
LEMMA RestSame ==
    ASSUME NEW c, NEW e, NEW i, \A x \in Nibbles : x # i => c[x] = e[x], NEW h
    PROVE  Rest(c, i, h) = Rest(e, i, h)
<1>1. \A p : p \in Others(c, i, h) <=> p \in Others(e, i, h)
  <2>1. ASSUME NEW p \in Seq(Nibbles), p # <<>>, Head(p) # i
        PROVE  Spots(c[Head(p)], h) = Spots(e[Head(p)], h)
    <3>1. Head(p) \in Nibbles
      BY <2>1, HeadAndTail
    <3> QED
      BY <2>1, <3>1
  <2> QED
    BY <2>1 DEF Others
<1>2. Others(c, i, h) = Others(e, i, h)
  BY <1>1
<1> QED
  BY <1>2 DEF Rest

\* There is no rest when the others are empty.
LEMMA RestNone ==
    ASSUME NEW c, NEW i, \A x \in Nibbles : x # i => c[x] = Null, NEW h
    PROVE  Rest(c, i, h) = 0
<1>1. CASE Fits(h)
  BY <1>1 DEF Rest
<1>2. CASE ~Fits(h)
  <2>1. ASSUME NEW p \in Others(c, i, h) PROVE FALSE
    <3>1. p \in Seq(Nibbles) /\ p # <<>> /\ Head(p) # i /\ Tail(p) \in Spots(c[Head(p)], h)
      BY Zenon DEF Others
    <3>2. Head(p) \in Nibbles
      BY <3>1, HeadAndTail
    <3>3. Tail(p) \in Spots(Null, h)
      BY <3>1, <3>2
    <3>4. Tail(p) = <<>>
      BY <3>3, UnderStays, FollowsNot, Zenon
    <3>5. h = Null
      <4>1. <<>> \in Spots(Null, h)
        BY <3>3, <3>4
      <4>2. <<>> \in Spots(Null, h) => h = Null
        BY SpotsIs
      <4> QED
        BY <4>1, <4>2
    <3> QED
      BY <1>2, <3>5, Fields
  <2>2. Others(c, i, h) = {}
    BY <2>1
  <2> QED
    BY <1>2, <2>2, FS_EmptySet DEF Rest
<1> QED
  BY <1>1, <1>2

\* References are those of the child put at i in place of the one there.
LEMMA RSwap ==
    ASSUME NEW c, NEW l, NEW D, Tries(c, l, D),
           NEW e, Tries(e, l, D),
           NEW i \in Nibbles, \A x \in Nibbles : x # i => c[x] = e[x], NEW u, NEW v, NEW h
    PROVE  R(Bra(c, u), h) + S(e[i], h) = R(Bra(e, v), h) + S(c[i], h)
<1>1. /\ R(Bra(c, u), h) = S(c[i], h) + Rest(c, i, h)
      /\ S(c[i], h) \in Nat /\ Rest(c, i, h) \in Nat
  BY RBra
<1>2. R(Bra(e, v), h) = S(e[i], h) + Rest(e, i, h) /\ S(e[i], h) \in Nat
  BY RBra
<1>3. Rest(c, i, h) = Rest(e, i, h)
  BY RestSame
<1> QED
  BY <1>1, <1>2, <1>3

\* A branch of one child has the child's references.
LEMMA ROnly ==
    ASSUME NEW c, NEW l, NEW D, Tries(c, l, D),
           NEW i \in Nibbles, \A x \in Nibbles : x # i => c[x] = Null, NEW v, NEW h
    PROVE  R(Bra(c, v), h) = S(c[i], h)
<1>1. /\ R(Bra(c, v), h) = S(c[i], h) + Rest(c, i, h)
      /\ S(c[i], h) \in Nat /\ Rest(c, i, h) \in Nat
  BY RBra
<1>2. Rest(c, i, h) = 0
  BY RestNone
<1> QED
  BY <1>1, <1>2

\* A value in a branch references nothing.
LEMMA RValue ==
    ASSUME NEW c, NEW l, NEW D, Tries(c, l, D), NEW u, NEW v, NEW h
    PROVE  R(Bra(c, u), h) = R(Bra(c, v), h)
<1>0. PICK i : i \in Nibbles
  BY NibblesAssumption
<1>1. R(Bra(c, u), h) = S(c[i], h) + Rest(c, i, h) /\ R(Bra(c, v), h) = S(c[i], h) + Rest(c, i, h)
  BY <1>0, RBra
<1> QED
  BY <1>1

-----------------------------------------------------------------------------
(* Branches. *)

\* deref gives the node of a slot that is inline or stored.
LEMMA DerefIs ==
    ASSUME NEW db, NEW m, IsNode(m), Kept(m, DOMAIN db)
    PROVE  Deref(db, SlotFor(m)) = m
<1>1. CASE Fits(m)
  <2>1. SlotFor(m) = m /\ m.kind # "hash"
    BY <1>1 DEF SlotFor, IsNode
  <2> QED
    BY <2>1 DEF Deref
<1>2. CASE ~Fits(m)
  <2>1. SlotFor(m) = HashOf(m) /\ m \in DOMAIN db
    BY <1>2 DEF SlotFor, Kept
  <2>2. HashOf(m).kind = "hash" /\ HashOf(m).node = m
    BY Fields, Zenon
  <2> QED
    BY <2>1, <2>2 DEF Deref, DbLookup
<1> QED
  BY <1>1, <1>2

\* What is in use in a branch.
LEMMA InUseBra ==
    ASSUME NEW c, \A i \in Nibbles : IsNode(c[i]), NEW v
    PROVE  /\ \A i \in Nibbles : i \in InUse(Bra(c, v)) <=> c[i] # Null
           /\ ValueSlot \in InUse(Bra(c, v)) <=> v # NoValue
           /\ \A i \in InUse(Bra(c, v)) : i \in Nibbles \/ i = ValueSlot
           /\ ValueSlot \notin Nibbles
<1>1. Bra(c, v).child = [i \in Nibbles |-> SlotFor(c[i])] /\ Bra(c, v).value = v
  BY Fields DEF Bra
<1>2. \A i \in Nibbles : Bra(c, v).child[i] # Null <=> c[i] # Null
  <2>1. ASSUME NEW i \in Nibbles PROVE Bra(c, v).child[i] # Null <=> c[i] # Null
    <3>1. Bra(c, v).child[i] = SlotFor(c[i])
      BY <1>1
    <3>2. IsNode(c[i]) /\ SlotFor(Null) = Null
      BY Slots
    <3>3. SlotFor(c[i]) = Null => c[i] = Null
      BY <3>2, Slots, Zenon
    <3> QED
      BY <3>1, <3>2, <3>3
  <2> QED
    BY <2>1, Zenon
<1>3. ValueSlot \notin Nibbles
  BY NibblesAssumption DEF ValueSlot
<1>4. \A x : x \in InUse(Bra(c, v)) <=> (x \in Nibbles /\ c[x] # Null) \/ (x = ValueSlot /\ v # NoValue)
  BY <1>1, <1>2 DEF InUse
<1> QED
  BY <1>3, <1>4

\* The children c with m at i.
With(c, i, m) == [x \in Nibbles |-> IF x = i THEN m ELSE c[x]]
Alone(i, m) == [x \in Nibbles |-> IF x = i THEN m ELSE Null]

\* A branch with one child replaced.
LEMMA WithIs ==
    ASSUME NEW c, NEW i \in Nibbles, NEW m, NEW v
    PROVE  /\ With(c, i, m)[i] = m /\ \A x \in Nibbles : x # i => With(c, i, m)[x] = c[x]
           /\ BranchNode([Bra(c, v).child EXCEPT ![i] = SlotFor(m)], v) = Bra(With(c, i, m), v)
           /\ Bra(c, v).value = v /\ Bra(c, v).child = [x \in Nibbles |-> SlotFor(c[x])]
           /\ Bra(c, v).child[i] = SlotFor(c[i])
<1>1. Bra(c, v).child = [x \in Nibbles |-> SlotFor(c[x])] /\ Bra(c, v).value = v
  BY Fields DEF Bra
<1>2. [Bra(c, v).child EXCEPT ![i] = SlotFor(m)] = [x \in Nibbles |-> SlotFor(With(c, i, m)[x])]
  BY <1>1 DEF With
<1> QED
  BY <1>1, <1>2 DEF With, Bra

\* mergeAt makes it so.
LEMMA WithMade ==
    ASSUME NEW c, NEW i \in Nibbles, NEW m, NEW v
    PROVE  BranchNode([Bra(c, v).child EXCEPT ![i] = SlotFor(m)], v) = Bra(With(c, i, m), v)
<1>1. Bra(c, v).child = [x \in Nibbles |-> SlotFor(c[x])]
  BY Fields DEF Bra
<1>2. [Bra(c, v).child EXCEPT ![i] = SlotFor(m)] = [x \in Nibbles |-> SlotFor(With(c, i, m)[x])]
  BY <1>1 DEF With
<1> QED
  BY <1>2 DEF Bra

\* The slot of a child.
LEMMA BraChild ==
    ASSUME NEW c, NEW v, NEW i \in Nibbles
    PROVE  Bra(c, v).child[i] = SlotFor(c[i])
<1>1. Bra(c, v).child = [x \in Nibbles |-> SlotFor(c[x])]
  BY Fields DEF Bra
<1> QED
  BY <1>1

\* The value of a branch.
LEMMA BraValue == ASSUME NEW c, NEW v PROVE Bra(c, v).value = v
BY Fields DEF Bra

\* A branch of one child.
LEMMA AloneIs ==
    ASSUME NEW i \in Nibbles, NEW m, NEW v
    PROVE  /\ Alone(i, m)[i] = m /\ \A x \in Nibbles : x # i => Alone(i, m)[x] = Null
           /\ BranchNode([NoChild EXCEPT ![i] = SlotFor(m)], v) = Bra(Alone(i, m), v)
<1>1. [NoChild EXCEPT ![i] = SlotFor(m)] = [x \in Nibbles |-> SlotFor(Alone(i, m)[x])]
  BY Slots DEF NoChild, Alone
<1> QED
  BY <1>1 DEF Alone, Bra

\* What is found with another child at i.
LEMMA FindSwap ==
    ASSUME NEW c, \A x \in Nibbles : IsNode(c[x]), NEW e, \A x \in Nibbles : IsNode(e[x]),
           NEW i, \A x \in Nibbles : x # i => c[x] = e[x], NEW v, NEW k \in Seq(Nibbles)
    PROVE  Find(Bra(e, v), k) = IF k # <<>> /\ Head(k) = i THEN Find(e[i], Tail(k)) ELSE Find(Bra(c, v), k)
<1>1. CASE k = <<>>
  <2>1. Find(Bra(e, v), k) = v /\ Find(Bra(c, v), k) = v
    BY <1>1, FindBra
  <2> QED
    BY <1>1, <2>1
<1>2. CASE k # <<>>
  <2>1. Find(Bra(e, v), k) = Find(e[Head(k)], Tail(k)) /\ Find(Bra(c, v), k) = Find(c[Head(k)], Tail(k))
    BY <1>2, FindBra
  <2>2. Head(k) \in Nibbles
    BY <1>2, HeadAndTail
  <2>3. CASE Head(k) = i
    BY <1>2, <2>1, <2>3
  <2>4. CASE Head(k) # i
    BY <1>2, <2>1, <2>2, <2>4
  <2> QED
    BY <2>3, <2>4
<1> QED
  BY <1>1, <1>2

\* What replacing the value does to what is found.
LEMMA FindValue ==
    ASSUME NEW c, \A x \in Nibbles : IsNode(c[x]), NEW u, NEW v, NEW k \in Seq(Nibbles)
    PROVE  Find(Bra(c, v), k) = IF k = <<>> THEN v ELSE Find(Bra(c, u), k)
<1>1. CASE k = <<>>
  BY <1>1, FindBra
<1>2. CASE k # <<>>
  <2>1. Find(Bra(c, v), k) = Find(c[Head(k)], Tail(k)) /\ Find(Bra(c, u), k) = Find(c[Head(k)], Tail(k))
    BY <1>2, FindBra
  <2> QED
    BY <1>2, <2>1
<1> QED
  BY <1>1, <1>2

-----------------------------------------------------------------------------
(* What a change of a trie is. *)

\* There is a reference counted for each there is to n and below it.
Books(db, n) == Clean(db) /\ \A h : Cnt(db, h) >= S(n, h)

\* With the counts of n and below it gone and those below b come, the store is r.db.
Balanced(db, n, r) ==
    Books(db, n) => /\ Clean(r.db)
                    /\ \A h : Cnt(r.db, h) + S(n, h) = Cnt(db, h) + R(r.b, h)

\* n, a trie for keys of length l kept in db, has become r.b, kept in r.db.
Changes(db, n, l, r) ==
    /\ Store(r.db) /\ DOMAIN db \subseteq DOMAIN r.db
    /\ Trie(r.b, l, DOMAIN r.db)
    /\ Balanced(db, n, r)

Merged(db, n, l, k, v, r) ==
    /\ Changes(db, n, l, r)
    /\ r.b # Null /\ (n.kind = "branch" => r.b.kind = "branch")
    /\ \A j \in Seq(Nibbles) : Find(r.b, j) = IF j = k THEN v ELSE Find(n, j)

\* The parts of a result.
LEMMA ChangedIs ==
    ASSUME NEW b, NEW db
    PROVE  Changed(b, db).b = b /\ Changed(b, db).db = db /\ Changed(b, db).out = "changed"
BY DEF Changed

\* n is killed, and below b there is what there was below n.
LEMMA BalancedKill ==
    ASSUME NEW db, Store(db), NEW n, NEW l, NEW D, Trie(n, l, D), NEW b,
           \A h : R(b, h) = R(n, h)
    PROVE  Balanced(db, n, Changed(b, KillNode(db, n)))
<1> SUFFICES ASSUME Books(db, n)
             PROVE  /\ Clean(KillNode(db, n))
                    /\ \A h : Cnt(KillNode(db, n), h) + S(n, h) = Cnt(db, h) + R(b, h)
  BY ChangedIs, Zenon DEF Balanced
<1>1. Clean(db) /\ Cnt(db, n) >= S(n, n)
  BY Zenon DEF Books
<1>2. \A h : S(n, h) = R(n, h) + Self(n, h) /\ R(n, h) \in Nat
  BY SpotsFinite
<1>3. \A h : Self(n, h) \in Nat /\ Cnt(db, h) \in Nat
  BY OneNat, CntNat
<1>4. Cnt(db, n) >= Self(n, n)
  BY <1>1, <1>2, <1>3
<1>5. Clean(KillNode(db, n)) /\ \A h : Cnt(KillNode(db, n), h) + Self(n, h) = Cnt(db, h)
  BY <1>1, <1>4, KillNodeIs
<1>6. \A h : Cnt(KillNode(db, n), h) \in Nat
  BY KillNodeIs, CntNat
<1>7. ASSUME NEW h PROVE Cnt(KillNode(db, n), h) + S(n, h) = Cnt(db, h) + R(b, h)
  <2>1. /\ Cnt(KillNode(db, n), h) \in Nat /\ Self(n, h) \in Nat /\ R(n, h) \in Nat
        /\ S(n, h) = R(n, h) + Self(n, h) /\ R(b, h) = R(n, h)
        /\ Cnt(KillNode(db, n), h) + Self(n, h) = Cnt(db, h)
    BY <1>2, <1>3, <1>5, <1>6, Zenon
  <2> QED
    BY <2>1
<1> QED
  BY <1>5, <1>7, Zenon

-----------------------------------------------------------------------------
(* Insertion: place, branch, cleve. *)

\* place on nothing makes a leaf.
LEMMA PlaceOnNull ==
    ASSUME NEW db, NEW k, NEW v
    PROVE  Place(db, Null, k, v) = Changed(Leaf(k, v), KillNode(db, Null))
BY Fields DEF Place

\* place on a leaf replaces its value.
LEMMA PlaceOnLeaf ==
    ASSUME NEW db, NEW k, NEW v, NEW j, NEW u
    PROVE  Place(db, Leaf(j, u), k, v) = Changed(Leaf(j, v), KillNode(db, Leaf(j, u)))
BY Fields DEF Place

\* place on a branch replaces its value.
LEMMA PlaceOnBra ==
    ASSUME NEW db, NEW k, NEW v, NEW c, NEW u
    PROVE  Place(db, Bra(c, u), k, v) = Changed(Bra(c, v), KillNode(db, Bra(c, u)))
<1>1. Bra(c, u).kind = "branch" /\ BranchNode(Bra(c, u).child, v) = Bra(c, v)
  BY Fields DEF Bra
<1> QED
  BY <1>1 DEF Place

\* The kinds of nodes differ.
LEMMA NullNotOthers ==
    /\ \A j, v : Leaf(j, v) # Null
    /\ \A j, m : Ext(j, m) # Null
    /\ \A c, v : Bra(c, v) # Null
    /\ \A j, v : Leaf(j, v).kind = "pair" /\ Leaf(j, v).leaf
    /\ \A j, m : Ext(j, m).kind = "pair" /\ ~Ext(j, m).leaf
    /\ \A c, v : Bra(c, v).kind = "branch"
    /\ Null.kind = "null"
BY Fields DEF Ext, Bra

\* place merges an entry into nothing.
LEMMA PlaceNull ==
    ASSUME NEW db, Store(db), NEW l \in Nat, NEW k \in Seq(Nibbles), Len(k) <= l, NEW v \in Values
    PROVE  /\ Merged(db, Null, l, k, v, Place(db, Null, k, v))
           /\ Place(db, Null, k, v).b = Leaf(k, v) /\ Place(db, Null, k, v).db = db
<1> DEFINE r == Place(db, Null, k, v)
<1>1. r = Changed(Leaf(k, v), KillNode(db, Null))
  BY PlaceOnNull
<1>2. r.b = Leaf(k, v) /\ r.db = db
  BY <1>1, ChangedIs, Fields DEF KillNode
<1>3. Trie(Leaf(k, v), l, DOMAIN db)
  BY LeafTrie
<1>4. \A h : R(Leaf(k, v), h) = R(Null, h)
  BY RLeaf, RNone
<1>5. Balanced(db, Null, r)
  BY <1>1, <1>4, NullTrie, BalancedKill
<1>6. \A j \in Seq(Nibbles) : Find(Leaf(k, v), j) = IF j = k THEN v ELSE Find(Null, j)
  BY FindLeaf, FindNull
<1> HIDE DEF r
<1>7. Changes(db, Null, l, r)
  BY <1>2, <1>3, <1>5 DEF Changes
<1>8. Merged(db, Null, l, k, v, r)
  BY <1>2, <1>6, <1>7, NullNotOthers DEF Merged
<1> QED
  BY <1>2, <1>8 DEF r

\* place merges an entry into the leaf of its key.
LEMMA PlaceLeaf ==
    ASSUME NEW db, Store(db), NEW l \in Nat, NEW k \in Seq(Nibbles), Len(k) <= l,
           NEW u \in Values, NEW v \in Values
    PROVE  Merged(db, Leaf(k, u), l, k, v, Place(db, Leaf(k, u), k, v))
<1> DEFINE n == Leaf(k, u)
           r == Place(db, n, k, v)
<1>1. r = Changed(Leaf(k, v), KillNode(db, n))
  BY PlaceOnLeaf
<1>2. r.b = Leaf(k, v) /\ r.db = KillNode(db, n)
  BY <1>1, ChangedIs
<1>3. Trie(Leaf(k, v), l, DOMAIN db) /\ Trie(n, l, DOMAIN db)
  BY LeafTrie
<1>4. \A h : R(Leaf(k, v), h) = R(n, h)
  BY RLeaf
<1>6. \A j \in Seq(Nibbles) : Find(Leaf(k, v), j) = IF j = k THEN v ELSE Find(n, j)
  BY FindLeaf
<1>a. n.kind = "pair"
  BY NullNotOthers
<1> HIDE DEF n
<1>5. Balanced(db, n, r)
  BY <1>1, <1>3, <1>4, BalancedKill
<1> HIDE DEF r
<1>7. Store(KillNode(db, n)) /\ DOMAIN KillNode(db, n) = DOMAIN db
  BY KillNodeIs
<1>8. Changes(db, n, l, r)
  BY <1>2, <1>3, <1>5, <1>7 DEF Changes
<1>9. Merged(db, n, l, k, v, r)
  BY <1>2, <1>6, <1>8, <1>a, NullNotOthers DEF Merged
<1> QED
  BY <1>9 DEF n, r

\* place merges the entry that ends at a branch.
LEMMA PlaceBra ==
    ASSUME NEW db, Store(db), NEW l \in Nat, l > 0, NEW c,
           \A i \in Nibbles : Trie(c[i], l - 1, DOMAIN db) /\ Kept(c[i], DOMAIN db),
           NEW u \in Values \cup {NoValue}, TwoInUse(Bra(c, u)), NEW v \in Values
    PROVE  Merged(db, Bra(c, u), l, <<>>, v, Place(db, Bra(c, u), <<>>, v))
<1> DEFINE n == Bra(c, u)
           r == Place(db, n, <<>>, v)
<1>1. r = Changed(Bra(c, v), KillNode(db, n))
  BY PlaceOnBra
<1>2. r.b = Bra(c, v) /\ r.db = KillNode(db, n)
  BY <1>1, ChangedIs
<1>0. \A i \in Nibbles : IsNode(c[i])
  BY TrieIsNode, Zenon
<1>b. TwoInUse(Bra(c, v))
  <2>1. v # NoValue
    BY ValuesAssumption
  <2>2. \A i : i \in InUse(Bra(c, u)) => i \in InUse(Bra(c, v))
    BY <1>0, <2>1, InUseBra
  <2> QED
    BY <2>2, Zenon DEF TwoInUse
<1>c. Trie(n, l, DOMAIN db)
  BY BraTrie, Zenon
<1>3. Trie(Bra(c, v), l, DOMAIN db)
  BY <1>b, BraTrie
<1>4. \A h : R(Bra(c, v), h) = R(n, h)
  <2>1. Tries(c, l - 1, DOMAIN db)
    BY DEF Tries
  <2> QED
    BY <2>1, RValue
<1>6. \A j \in Seq(Nibbles) : Find(Bra(c, v), j) = IF j = <<>> THEN v ELSE Find(n, j)
  BY <1>0, FindValue
<1>a. n.kind = "branch"
  BY NullNotOthers
<1> HIDE DEF n
<1>5. Balanced(db, n, r)
  BY <1>1, <1>c, <1>4, BalancedKill
<1> HIDE DEF r
<1>7. Store(KillNode(db, n)) /\ DOMAIN KillNode(db, n) = DOMAIN db
  BY KillNodeIs
<1>8. Changes(db, n, l, r)
  BY <1>2, <1>3, <1>5, <1>7 DEF Changes
<1>9. Merged(db, n, l, <<>>, v, r)
  BY <1>2, <1>6, <1>8, <1>a, NullNotOthers DEF Merged
<1> QED
  BY <1>9 DEF n, r

\* An extension and a leaf from their first nibble on.
LEMMA Unrolled ==
    ASSUME NEW j \in Seq(Nibbles), j # <<>>, NEW q \in Seq(Nibbles)
    PROVE  j \o q = <<Head(j)>> \o (Tail(j) \o q)
<1>1. Head(j) \in Nibbles /\ Tail(j) \in Seq(Nibbles) /\ j = <<Head(j)>> \o Tail(j)
  BY HeadAndTail
<1>2. <<Head(j)>> \in Seq(Nibbles)
  BY <1>1
<1>3. (<<Head(j)>> \o Tail(j)) \o q = <<Head(j)>> \o (Tail(j) \o q)
  BY <1>1, <1>2, ConcatAssociative
<1> QED
  BY <1>1, <1>3, Zenon

\* Keys are equal when their first nibbles and their rests are.
LEMMA SameKey ==
    ASSUME NEW j \in Seq(Nibbles), j # <<>>, NEW k \in Seq(Nibbles)
    PROVE  k = j <=> k # <<>> /\ Head(k) = Head(j) /\ Tail(k) = Tail(j)
<1>1. j = <<Head(j)>> \o Tail(j)
  BY HeadAndTail
<1>2. k # <<>> => k = <<Head(k)>> \o Tail(k)
  BY HeadAndTail
<1> QED
  BY <1>1, <1>2, Zenon

\* A leaf holds what the leaf of the rest of its key does, one nibble up.
LEMMA FindLeafBelow ==
    ASSUME NEW j \in Seq(Nibbles), j # <<>>, NEW u, NEW k \in Seq(Nibbles)
    PROVE  Find(Leaf(j, u), k) =
              IF k # <<>> /\ Head(k) = Head(j) THEN Find(Leaf(Tail(j), u), Tail(k)) ELSE NoValue
<1>1. Find(Leaf(j, u), k) = IF k = j THEN u ELSE NoValue
  BY FindLeaf
<1>2. k # <<>> => Tail(k) \in Seq(Nibbles)
  BY HeadAndTail
<1>3. k # <<>> => Find(Leaf(Tail(j), u), Tail(k)) = IF Tail(k) = Tail(j) THEN u ELSE NoValue
  BY <1>2, FindLeaf
<1>4. k = j <=> k # <<>> /\ Head(k) = Head(j) /\ Tail(k) = Tail(j)
  BY SameKey
<1> QED
  BY <1>1, <1>3, <1>4

\* So does an extension.
LEMMA FindExtBelow ==
    ASSUME NEW j \in Seq(Nibbles), j # <<>>, Tail(j) # <<>>, NEW l, NEW D, NEW m, Trie(m, l, D),
           NEW k \in Seq(Nibbles)
    PROVE  Find(Ext(j, m), k) =
              IF k # <<>> /\ Head(k) = Head(j) THEN Find(Ext(Tail(j), m), Tail(k)) ELSE NoValue
<1> DEFINE t == Tail(j)
<1>0. t \in Seq(Nibbles) /\ Head(j) \in Nibbles
  BY HeadAndTail
<1>1. CASE Contains(k, j)
  <2> DEFINE q == Mid(k, Len(j))
  <2>1. q \in Seq(Nibbles) /\ k = j \o q
    BY <1>1, ContainsCut
  <2> HIDE DEF q, t
  <2>2. k = <<Head(j)>> \o (t \o q) /\ t \o q \in Seq(Nibbles)
    BY <1>0, <2>1, Unrolled, Concatenated DEF t
  <2>3. k # <<>> /\ Head(k) = Head(j) /\ Tail(k) = t \o q
    BY <1>0, <2>2, Prepended
  <2>4. Find(Ext(j, m), j \o q) = Find(m, q)
    BY <2>1, FindExtIn
  <2>6. t # <<>>
    BY DEF t
  <2>5. Find(Ext(t, m), t \o q) = Find(m, q)
    BY <1>0, <2>1, <2>6, FindExtIn
  <2> QED
    BY <2>1, <2>3, <2>4, <2>5 DEF t
<1>2. CASE ~Contains(k, j)
  <2> HIDE DEF t
  <2>1. Find(Ext(j, m), k) = NoValue
    BY <1>2, FindExtOut
  <2>2. ASSUME k # <<>>, Head(k) = Head(j) PROVE Find(Ext(t, m), Tail(k)) = NoValue
    <3>1. Tail(k) \in Seq(Nibbles) /\ k = <<Head(k)>> \o Tail(k)
      BY <2>2, HeadAndTail
    <3>2. ~Contains(Tail(k), t)
      <4> SUFFICES ASSUME Contains(Tail(k), t) PROVE FALSE
        BY Zenon
      <4> DEFINE q == Mid(Tail(k), Len(t))
      <4>1. q \in Seq(Nibbles) /\ Tail(k) = t \o q
        BY <1>0, <3>1, ContainsCut, Zenon
      <4> HIDE DEF q
      <4>2. k = <<Head(j)>> \o (t \o q)
        BY <3>1, <4>1, <2>2, Zenon
      <4>3. k = j \o q
        BY <4>1, <4>2, Unrolled DEF t
      <4>4. Contains(k, j)
        BY <4>1, <4>3, ContainsMade
      <4> QED
        BY <4>4, <1>2
    <3> QED
      <4>1. t # <<>>
        BY DEF t
      <4> QED
        BY <1>0, <3>1, <3>2, <4>1, FindExtOut, Zenon
  <2> QED
    BY <2>1, <2>2 DEF t
<1> QED
  BY <1>1, <1>2

\* And an extension of one nibble holds what it leads to.
LEMMA FindExtOne ==
    ASSUME NEW i \in Nibbles, NEW l, NEW D, NEW m, Trie(m, l, D), NEW k \in Seq(Nibbles)
    PROVE  Find(Ext(<<i>>, m), k) = IF k # <<>> /\ Head(k) = i THEN Find(m, Tail(k)) ELSE NoValue
<1>0. <<i>> \in Seq(Nibbles) /\ <<i>> # <<>>
  OBVIOUS
<1>a. \A q \in Seq(Nibbles) : Find(Ext(<<i>>, m), <<i>> \o q) = Find(m, q)
  <2> DEFINE j == <<i>>
  <2>1. j \in Seq(Nibbles) /\ j # <<>>
    BY <1>0
  <2> HIDE DEF j
  <2>2. \A q \in Seq(Nibbles) : Find(Ext(j, m), j \o q) = Find(m, q)
    BY <2>1, FindExt
  <2> QED
    BY <2>2 DEF j
<1>1. CASE k # <<>> /\ Head(k) = i
  <2>1. k = <<i>> \o Tail(k) /\ Tail(k) \in Seq(Nibbles)
    BY <1>1, HeadAndTail
  <2>2. Find(Ext(<<i>>, m), <<i>> \o Tail(k)) = Find(m, Tail(k))
    BY <1>a, <2>1
  <2> QED
    BY <1>1, <2>1, <2>2
<1>2. CASE ~(k # <<>> /\ Head(k) = i)
  <2>1. ~Contains(k, <<i>>)
    <3> SUFFICES ASSUME Contains(k, <<i>>) PROVE FALSE
      OBVIOUS
    <3>1. PICK q \in Seq(Nibbles) : k = <<i>> \o q
      BY <1>0, ContainsCut
    <3> QED
      BY <3>1, <1>2, Prepended
  <2>2. Find(Ext(<<i>>, m), k) = NoValue
    BY <1>0, <2>1, FindExtOut
  <2> QED
    BY <1>2, <2>2
<1> QED
  BY <1>1, <1>2

-----------------------------------------------------------------------------
\* What branch makes of a pair with j left of its key: a branch with one thing in it.
Split(db, n, l, j, c, w, r) ==
    /\ r.b = Bra(c, w) /\ w \in Values \cup {NoValue}
    /\ Store(r.db) /\ DOMAIN db \subseteq DOMAIN r.db
    /\ \A i \in Nibbles : Trie(c[i], l - 1, DOMAIN r.db) /\ Kept(c[i], DOMAIN r.db)
    /\ \A k \in Seq(Nibbles) : Find(r.b, k) = Find(n, k)
    /\ Balanced(db, n, r)
    /\ IF j = <<>> THEN w # NoValue /\ \A i \in Nibbles : c[i] = Null
       ELSE w = NoValue /\ c[Head(j)] # Null /\ \A i \in Nibbles : i # Head(j) => c[i] = Null

\* branch makes a leaf of no key a branch with its value.
LEMMA SplitEnds ==
    ASSUME NEW db, Store(db), NEW l \in Nat, l > 0, NEW u \in Values
    PROVE  \E c, w : Split(db, Leaf(<<>>, u), l, <<>>, c, w, Branch(db, Leaf(<<>>, u)))
<1> DEFINE n == Leaf(<<>>, u)
           c == [i \in Nibbles |-> Null]
           r == Branch(db, n)
<1>1. r = Changed(BranchNode(NoChild, u), KillNode(db, n))
  BY Fields DEF Branch
<1>2. BranchNode(NoChild, u) = Bra(c, u)
  <2>1. NoChild = [i \in Nibbles |-> SlotFor(c[i])]
    BY Slots DEF NoChild
  <2> QED
    BY <2>1, Zenon DEF Bra
<1>3. r.b = Bra(c, u) /\ r.db = KillNode(db, n)
  BY <1>1, <1>2, ChangedIs
<1>4. \A i \in Nibbles : c[i] = Null
  OBVIOUS
<1>5. l - 1 \in Nat /\ <<>> \in Seq(Nibbles) /\ Len(<<>>) <= l
  OBVIOUS
<1>6. Trie(n, l, DOMAIN db)
  BY <1>5, LeafTrie
<1>7. \A k \in Seq(Nibbles) : Find(n, k) = IF k = <<>> THEN u ELSE NoValue
  BY FindLeaf
<1>8. \A h : R(n, h) = 0
  BY RLeaf
<1> HIDE DEF n, c
<1>9. Store(KillNode(db, n)) /\ DOMAIN KillNode(db, n) = DOMAIN db
  BY KillNodeIs
<1>10. \A i \in Nibbles : Trie(c[i], l - 1, DOMAIN db) /\ Kept(c[i], DOMAIN db)
  BY <1>4, <1>5, NullTrie, Fields DEF Kept
<1>11. \A i \in Nibbles : IsNode(c[i])
  BY <1>4, Slots
<1>12. \A k \in Seq(Nibbles) : Find(Bra(c, u), k) = Find(n, k)
  <2>1. ASSUME NEW k \in Seq(Nibbles), k # <<>> PROVE Find(Bra(c, u), k) = NoValue
    <3>1. Find(Bra(c, u), k) = Find(c[Head(k)], Tail(k))
      BY <1>11, <2>1, FindBra
    <3>2. Head(k) \in Nibbles /\ Tail(k) \in Seq(Nibbles)
      BY <2>1, HeadAndTail
    <3> QED
      BY <1>4, <3>1, <3>2, FindNull
  <2>2. Find(Bra(c, u), <<>>) = u
    BY <1>11, FindBra
  <2> QED
    BY <1>7, <2>1, <2>2
<1>13. \A h : R(Bra(c, u), h) = R(n, h)
  <2>1. ASSUME NEW h PROVE R(Bra(c, u), h) = 0
    <3>1. PICK i : i \in Nibbles
      BY NibblesAssumption
    <3>3. Tries(c, l - 1, DOMAIN db)
      BY <1>10 DEF Tries
    <3>2. R(Bra(c, u), h) = S(c[i], h)
      BY <1>4, <3>3, <3>1, ROnly
    <3> QED
      BY <1>4, <3>1, <3>2, RNone
  <2> QED
    BY <1>8, <2>1
<1>14. Balanced(db, n, r)
  BY <1>1, <1>2, <1>6, <1>13, BalancedKill
<1>15. u # NoValue
  BY ValuesAssumption
<1> HIDE DEF r
<1>16. Split(db, n, l, <<>>, c, u, r)
  BY <1>3, <1>4, <1>9, <1>10, <1>12, <1>14, <1>15 DEF Split
<1> QED
  BY <1>16, Zenon DEF n, r

\* The pair's child, or what is left of the pair, goes where its first nibble says.
LEMMA SplitBelow ==
    ASSUME NEW db, NEW l \in Nat, NEW n, NEW j \in Seq(Nibbles), j # <<>>,
           NEW db2, Store(db2), DOMAIN db \subseteq DOMAIN db2,
           NEW y, y # Null, Trie(y, l - 1, DOMAIN db2), Kept(y, DOMAIN db2), l > 0,
           \A k \in Seq(Nibbles) : Find(n, k) =
               IF k # <<>> /\ Head(k) = Head(j) THEN Find(y, Tail(k)) ELSE NoValue,
           Books(db, n) => /\ Clean(db2)
                           /\ \A h : Cnt(db2, h) + S(n, h) = Cnt(db, h) + S(y, h),
           NEW r, r.b = Bra(Alone(Head(j), y), NoValue), r.db = db2
    PROVE  Split(db, n, l, j, Alone(Head(j), y), NoValue, r)
<1> DEFINE i == Head(j)
           c == Alone(i, y)
<1>1. i \in Nibbles
  BY HeadAndTail
<1>2. c[i] = y /\ \A x \in Nibbles : x # i => c[x] = Null
  BY <1>1, AloneIs
<1> HIDE DEF i, c
<1>3. ASSUME NEW x \in Nibbles PROVE Trie(c[x], l - 1, DOMAIN db2) /\ Kept(c[x], DOMAIN db2)
  <2>1. CASE x = i
    BY <1>2, <2>1
  <2>2. CASE x # i
    <3>1. l - 1 \in Nat
      OBVIOUS
    <3> QED
      BY <1>2, <2>2, <3>1, NullTrie, Fields DEF Kept
  <2> QED
    BY <2>1, <2>2
<1>4. \A x \in Nibbles : IsNode(c[x])
  BY <1>3, TrieIsNode, Zenon
<1>5. ASSUME NEW k \in Seq(Nibbles) PROVE Find(Bra(c, NoValue), k) = Find(n, k)
  <2>0. Find(n, k) = IF k # <<>> /\ Head(k) = i THEN Find(y, Tail(k)) ELSE NoValue
    BY DEF i
  <2>1. CASE k = <<>>
    BY <1>4, <2>0, <2>1, FindBra
  <2>2. CASE k # <<>>
    <3>1. Find(Bra(c, NoValue), k) = Find(c[Head(k)], Tail(k))
      BY <1>4, <2>2, FindBra
    <3>2. Head(k) \in Nibbles /\ Tail(k) \in Seq(Nibbles)
      BY <2>2, HeadAndTail
    <3>3. CASE Head(k) = i
      BY <1>2, <2>0, <2>2, <3>1, <3>3
    <3>4. CASE Head(k) # i
      BY <1>2, <2>0, <2>2, <3>1, <3>2, <3>4, FindNull
    <3> QED
      BY <3>3, <3>4
  <2> QED
    BY <2>1, <2>2
<1>6. \A h : R(Bra(c, NoValue), h) = S(y, h)
  <2>1. Tries(c, l - 1, DOMAIN db2)
    BY <1>3 DEF Tries
  <2>2. \A h : R(Bra(c, NoValue), h) = S(c[i], h)
    BY <1>1, <1>2, <2>1, ROnly
  <2> QED
    BY <1>2, <2>2
<1>7. r.b = Bra(c, NoValue)
  BY DEF c, i
<1>8. Balanced(db, n, r)
  BY <1>6, <1>7, Zenon DEF Balanced
<1>9. Split(db, n, l, j, c, NoValue, r)
  <2>1. IF j = <<>> THEN NoValue # NoValue /\ \A x \in Nibbles : c[x] = Null
        ELSE NoValue = NoValue /\ c[Head(j)] # Null /\ \A x \in Nibbles : x # Head(j) => c[x] = Null
    BY <1>2 DEF i
  <2>2. \A k \in Seq(Nibbles) : Find(r.b, k) = Find(n, k)
    BY <1>5, <1>7
  <2>3. \A x \in Nibbles : Trie(c[x], l - 1, DOMAIN r.db) /\ Kept(c[x], DOMAIN r.db)
    BY <1>3
  <2>4. NoValue \in Values \cup {NoValue}
    OBVIOUS
  <2>5. Store(r.db) /\ DOMAIN db \subseteq DOMAIN r.db
    OBVIOUS
  <2> QED
    BY <1>7, <1>8, <2>1, <2>2, <2>3, <2>4, <2>5, Zenon DEF Split
<1> QED
  BY <1>9 DEF c, i

\* A pair that is streamed once the node it replaces is killed.
LEMMA StreamRest ==
    ASSUME NEW db, Store(db), NEW l, NEW n, Trie(n, l, DOMAIN db), NEW a, NEW y,
           Trie(y, a, DOMAIN db), y.kind # "branch", \A h : R(y, h) = R(n, h),
           NEW t, t = StreamNode(Changed(y, KillNode(db, n)))
    PROVE  /\ t.slot = SlotFor(y) /\ Store(t.db) /\ DOMAIN db \subseteq DOMAIN t.db
           /\ Trie(y, a, DOMAIN t.db) /\ Kept(y, DOMAIN t.db)
           /\ Books(db, n) => /\ Clean(t.db)
                              /\ \A h : Cnt(t.db, h) + S(n, h) = Cnt(db, h) + S(y, h)
<1> DEFINE r == Changed(y, KillNode(db, n))
<1>1. r.b = y /\ r.db = KillNode(db, n)
  BY ChangedIs
<1>2. Balanced(db, n, r)
  BY BalancedKill
<1>0. t = StreamNode(r)
  OBVIOUS
<1> HIDE DEF r
<1>3. Store(r.db) /\ DOMAIN r.db = DOMAIN db
  BY <1>1, KillNodeIs
<1>4. IsNode(y)
  BY TrieIsNode
<1>5. /\ t.slot = SlotFor(y) /\ Store(t.db) /\ DOMAIN r.db \subseteq DOMAIN t.db
      /\ Kept(y, DOMAIN t.db)
      /\ \A h : Cnt(t.db, h) = Cnt(r.db, h) + Self(y, h)
      /\ Clean(r.db) => Clean(t.db)
  BY <1>0, <1>1, <1>3, <1>4, StreamIs
<1>6. Trie(y, a, DOMAIN t.db)
  BY <1>3, <1>5, MoreKept
<1>7. ASSUME Books(db, n), NEW h PROVE Cnt(t.db, h) + S(n, h) = Cnt(db, h) + S(y, h)
  <2>1. Cnt(r.db, h) + S(n, h) = Cnt(db, h) + R(y, h)
    BY <1>1, <1>2, <1>7 DEF Balanced
  <2>2. S(y, h) = R(y, h) + Self(y, h) /\ R(y, h) \in Nat /\ S(n, h) \in Nat
    BY SpotsFinite
  <2>3. Cnt(r.db, h) \in Nat /\ Cnt(db, h) \in Nat /\ Self(y, h) \in Nat
    BY <1>3, CntNat, OneNat
  <2>4. Cnt(t.db, h) = Cnt(r.db, h) + Self(y, h)
    BY <1>5
  <2> QED
    BY <2>1, <2>2, <2>3, <2>4
<1>8. Books(db, n) => Clean(t.db)
  BY <1>2, <1>5 DEF Balanced
<1> QED
  BY <1>3, <1>5, <1>6, <1>7, <1>8

\* branch splits a leaf.
LEMMA SplitLeaf ==
    ASSUME NEW db, Store(db), NEW l \in Nat, NEW j \in Seq(Nibbles), j # <<>>, Len(j) <= l,
           NEW u \in Values
    PROVE  \E c, w : Split(db, Leaf(j, u), l, j, c, w, Branch(db, Leaf(j, u)))
<1> DEFINE n == Leaf(j, u)
           y == Leaf(Tail(j), u)
           t == StreamNode(Changed(y, KillNode(db, n)))
           r == Branch(db, n)
<1>1. r = Changed(BranchNode([NoChild EXCEPT ![Head(j)] = t.slot], NoValue), t.db)
  <2>1. n.key = j /\ n.leaf = TRUE /\ n.item = u
    BY Fields
  <2>2. Pair(Tail(n.key), n.leaf, n.item) = y
    BY <2>1 DEF Leaf
  <2> HIDE DEF n, y
  <2> QED
    BY <2>1, <2>2 DEF Branch
<1>2. Head(j) \in Nibbles /\ Tail(j) \in Seq(Nibbles) /\ Len(Tail(j)) = Len(j) - 1 /\ Len(j) > 0 /\ Len(j) \in Nat
  BY HeadAndTail
<1>3. l > 0 /\ l - 1 \in Nat /\ Len(Tail(j)) <= l - 1
  BY <1>2
<1>4. Trie(n, l, DOMAIN db) /\ Trie(y, l - 1, DOMAIN db)
  BY <1>2, <1>3, LeafTrie
<1>5. y.kind # "branch" /\ y # Null
  BY NullNotOthers
<1>6. \A h : R(y, h) = R(n, h)
  BY RLeaf
<1>7. \A k \in Seq(Nibbles) : Find(n, k) =
               IF k # <<>> /\ Head(k) = Head(j) THEN Find(y, Tail(k)) ELSE NoValue
  BY FindLeafBelow
<1> HIDE DEF n, y
<1>8. /\ t.slot = SlotFor(y) /\ Store(t.db) /\ DOMAIN db \subseteq DOMAIN t.db
      /\ Trie(y, l - 1, DOMAIN t.db) /\ Kept(y, DOMAIN t.db)
      /\ Books(db, n) => /\ Clean(t.db)
                         /\ \A h : Cnt(t.db, h) + S(n, h) = Cnt(db, h) + S(y, h)
  BY <1>4, <1>5, <1>6, StreamRest
<1> HIDE DEF t
<1>9. BranchNode([NoChild EXCEPT ![Head(j)] = t.slot], NoValue) = Bra(Alone(Head(j), y), NoValue)
  BY <1>2, <1>8, AloneIs
<1>10. r.b = Bra(Alone(Head(j), y), NoValue) /\ r.db = t.db
  BY <1>1, <1>9, ChangedIs
<1> HIDE DEF r
<1>11. Split(db, n, l, j, Alone(Head(j), y), NoValue, r)
  BY <1>3, <1>5, <1>7, <1>8, <1>10, SplitBelow
<1> QED
  BY <1>11, Zenon DEF n, r

\* branch splits an extension.
LEMMA SplitExt ==
    ASSUME NEW db, Store(db), NEW l \in Nat, NEW j \in Seq(Nibbles), j # <<>>, Len(j) <= l,
           NEW m, Trie(m, l - Len(j), DOMAIN db), m.kind = "branch", Kept(m, DOMAIN db)
    PROVE  \E c, w : Split(db, Ext(j, m), l, j, c, w, Branch(db, Ext(j, m)))
<1> DEFINE n == Ext(j, m)
           y == Ext(Tail(j), m)
           t == StreamNode(Changed(y, KillNode(db, n)))
           r == Branch(db, n)
<1>1. n.key = j /\ n.leaf = FALSE /\ n.item = SlotFor(m)
  BY Fields DEF Ext
<1>2. Head(j) \in Nibbles /\ Tail(j) \in Seq(Nibbles) /\ Len(Tail(j)) = Len(j) - 1 /\ Len(j) > 0 /\ Len(j) \in Nat
  BY HeadAndTail
<1>3. l > 0 /\ l - 1 \in Nat /\ Len(Tail(j)) <= l - 1 /\ (l - 1) - Len(Tail(j)) = l - Len(j)
  BY <1>2
<1>4. Trie(n, l, DOMAIN db)
  BY ExtTrie
<1>5. IsNode(m)
  BY TrieIsNode
<1>6. CASE Len(j) > 1
  <2>1. r = Changed(BranchNode([NoChild EXCEPT ![Head(j)] = t.slot], NoValue), t.db)
    <3>1. Pair(Tail(n.key), n.leaf, n.item) = y
      BY <1>1 DEF Ext, Extension
    <3> HIDE DEF n, y
    <3> QED
      BY <1>1, <1>6, <3>1 DEF Branch
  <2>2. Tail(j) # <<>>
    <3>1. Len(Tail(j)) # 0
      BY <1>2, <1>6
    <3> QED
      BY <1>2, <3>1, EmptyIs
  <2>4. Trie(y, l - 1, DOMAIN db)
    <3>1. Trie(m, (l - 1) - Len(Tail(j)), DOMAIN db)
      BY <1>3
    <3> QED
      BY <1>2, <1>3, <2>2, <3>1, ExtTrie
  <2>5. y.kind # "branch" /\ y # Null
    BY NullNotOthers
  <2>6. \A h : R(y, h) = R(n, h)
    <3>1. \A h : R(n, h) = S(m, h)
      BY RExt
    <3>2. \A h : R(y, h) = S(m, h)
      <4> DEFINE q == Tail(j)
      <4>1. q \in Seq(Nibbles) /\ q # <<>>
        BY <1>2, <2>2
      <4> HIDE DEF q
      <4>2. \A h : R(Ext(q, m), h) = S(m, h)
        BY <4>1, RExt
      <4> QED
        BY <4>2 DEF q
    <3> QED
      BY <3>1, <3>2, Zenon
  <2>7. \A k \in Seq(Nibbles) : Find(n, k) =
                 IF k # <<>> /\ Head(k) = Head(j) THEN Find(y, Tail(k)) ELSE NoValue
    BY <2>2, FindExtBelow
  <2> HIDE DEF n, y
  <2>8. /\ t.slot = SlotFor(y) /\ Store(t.db) /\ DOMAIN db \subseteq DOMAIN t.db
        /\ Trie(y, l - 1, DOMAIN t.db) /\ Kept(y, DOMAIN t.db)
        /\ Books(db, n) => /\ Clean(t.db)
                           /\ \A h : Cnt(t.db, h) + S(n, h) = Cnt(db, h) + S(y, h)
    BY <1>4, <2>4, <2>5, <2>6, StreamRest
  <2> HIDE DEF t
  <2>9. BranchNode([NoChild EXCEPT ![Head(j)] = t.slot], NoValue) = Bra(Alone(Head(j), y), NoValue)
    BY <1>2, <2>8, AloneIs
  <2>10. r.b = Bra(Alone(Head(j), y), NoValue) /\ r.db = t.db
    BY <2>1, <2>9, ChangedIs
  <2> HIDE DEF r
  <2>11. Split(db, n, l, j, Alone(Head(j), y), NoValue, r)
    BY <1>3, <2>5, <2>7, <2>8, <2>10, SplitBelow
  <2> QED
    BY <2>11, Zenon DEF n, r
<1>7. CASE ~(Len(j) > 1)
  <2>1. r = Changed(BranchNode([NoChild EXCEPT ![Head(j)] = SlotFor(m)], NoValue), KillNode(db, n))
    <3> HIDE DEF n
    <3> QED
      BY <1>1, <1>7 DEF Branch
  <2>2. Len(j) = 1 /\ l - Len(j) = l - 1
    BY <1>2, <1>7
  <2>3. j = <<Head(j)>>
    <3>1. Tail(j) = <<>>
      <4>1. Len(Tail(j)) = 0
        BY <1>2, <2>2
      <4> QED
        BY <1>2, <4>1, EmptyIs
    <3>2. j = <<Head(j)>> \o <<>>
      BY <3>1, HeadAndTail, Zenon
    <3> QED
      BY <3>2, <1>2
  <2>4. m # Null
    BY Fields
  <2>5. Store(KillNode(db, n)) /\ DOMAIN KillNode(db, n) = DOMAIN db
    BY KillNodeIs
  <2>6. \A h : R(n, h) = S(m, h)
    BY RExt
  <2>7. \A k \in Seq(Nibbles) : Find(n, k) =
                 IF k # <<>> /\ Head(k) = Head(j) THEN Find(m, Tail(k)) ELSE NoValue
    <3> DEFINE i == Head(j)
    <3>1. n = Ext(<<i>>, m) /\ i \in Nibbles
      BY <1>2, <2>3, Zenon
    <3> HIDE DEF i
    <3>2. \A k \in Seq(Nibbles) : Find(Ext(<<i>>, m), k) =
                 IF k # <<>> /\ Head(k) = i THEN Find(m, Tail(k)) ELSE NoValue
      BY <3>1, FindExtOne
    <3> HIDE DEF n
    <3> QED
      BY <3>1, <3>2 DEF i
  <2> HIDE DEF n
  <2>8. Balanced(db, n, Changed(n, KillNode(db, n)))
    BY <1>4, BalancedKill
  <2>9. Books(db, n) => /\ Clean(KillNode(db, n))
                        /\ \A h : Cnt(KillNode(db, n), h) + S(n, h) = Cnt(db, h) + S(m, h)
    BY <2>6, <2>8, ChangedIs DEF Balanced
  <2>10. r.b = Bra(Alone(Head(j), m), NoValue) /\ r.db = KillNode(db, n)
    <3>1. BranchNode([NoChild EXCEPT ![Head(j)] = SlotFor(m)], NoValue) = Bra(Alone(Head(j), m), NoValue)
      BY <1>2, AloneIs
    <3> HIDE DEF r
    <3> QED
      BY <2>1, <3>1, ChangedIs
  <2> HIDE DEF r
  <2>11. Trie(m, l - 1, DOMAIN KillNode(db, n)) /\ Kept(m, DOMAIN KillNode(db, n))
    BY <2>2, <2>5
  <2>12. Split(db, n, l, j, Alone(Head(j), m), NoValue, r)
    BY <1>3, <2>4, <2>5, <2>7, <2>9, <2>10, <2>11, SplitBelow
  <2> QED
    BY <2>12, Zenon DEF n, r
<1> QED
  BY <1>6, <1>7

\* killNode does nothing to a node without a count.
LEMMA KillNothing ==
    ASSUME NEW db, NEW n, ~(Cnt(db, n) > 0)
    PROVE  KillNode(db, n) = db
BY DEF KillNode, DbKill, Cnt

\* Something put in a branch where there is nothing.
PutMakes(l, r, k, v, p) ==
    /\ Store(p.db) /\ DOMAIN r.db \subseteq DOMAIN p.db
    /\ Trie(p.b, l, DOMAIN p.db) /\ p.b.kind = "branch"
    /\ \A j \in Seq(Nibbles) : Find(p.b, j) = IF j = k THEN v ELSE Find(r.b, j)
    /\ Clean(r.db) => Clean(p.db) /\ \A h : Cnt(p.db, h) + R(r.b, h) = Cnt(r.db, h) + R(p.b, h)

\* A value put at the end of a branch of one child.
LEMMA PutValue ==
    ASSUME NEW l \in Nat, l > 0, NEW r, Store(r.db), NEW c,
           \A i \in Nibbles : Trie(c[i], l - 1, DOMAIN r.db) /\ Kept(c[i], DOMAIN r.db),
           NEW w, r.b = Bra(c, w), NEW v \in Values,
           NEW i \in Nibbles, c[i] # Null, ~TwoInUse(r.b)
    PROVE  PutMakes(l, r, <<>>, v, PutInBranch(r, <<>>, v))
<1> DEFINE p == PutInBranch(r, <<>>, v)
<1>0. \A x \in Nibbles : IsNode(c[x])
  BY TrieIsNode, Zenon
<1>1. p = Changed(Bra(c, v), KillNode(r.db, r.b))
  <2>1. p = Place(r.db, r.b, <<>>, v)
    BY DEF PutInBranch
  <2> QED
    BY <2>1, PlaceOnBra
<1>2. p.b = Bra(c, v) /\ p.db = KillNode(r.db, r.b)
  BY <1>1, ChangedIs
<1>3. Store(p.db) /\ DOMAIN p.db = DOMAIN r.db
  BY <1>2, KillNodeIs
<1>4. TwoInUse(Bra(c, v))
  <2>1. v # NoValue
    BY ValuesAssumption
  <2>2. i \in InUse(Bra(c, v)) /\ ValueSlot \in InUse(Bra(c, v)) /\ i # ValueSlot
    BY <1>0, <2>1, InUseBra
  <2> QED
    BY <2>2, Zenon DEF TwoInUse
<1>5. Trie(p.b, l, DOMAIN p.db)
  BY <1>2, <1>3, <1>4, BraTrie
<1>6. \A j \in Seq(Nibbles) : Find(p.b, j) = IF j = <<>> THEN v ELSE Find(r.b, j)
  BY <1>0, <1>2, FindValue
<1>7. r.b.kind = "branch" /\ p.b.kind = "branch"
  BY <1>2, NullNotOthers
<1>8. ASSUME Clean(r.db) PROVE p.db = r.db
  <2>1. ~(Cnt(r.db, r.b) > 0)
    BY <1>7, <1>8, Zenon DEF Clean
  <2> QED
    BY <1>2, <2>1, KillNothing
<1>9. \A h : R(p.b, h) = R(r.b, h)
  <2>1. Tries(c, l - 1, DOMAIN r.db)
    BY DEF Tries
  <2>2. \A h : R(Bra(c, v), h) = R(Bra(c, w), h)
    BY <2>1, RValue
  <2> QED
    BY <1>2, <2>2
<1> HIDE DEF p
<1>10. Clean(r.db) => Clean(p.db) /\ \A h : Cnt(p.db, h) + R(r.b, h) = Cnt(r.db, h) + R(p.b, h)
  BY <1>8, <1>9
<1>11. PutMakes(l, r, <<>>, v, p)
  BY <1>3, <1>5, <1>6, <1>7, <1>10 DEF PutMakes
<1> QED
  BY <1>11 DEF p

\* A leaf put where a branch has nothing.
LEMMA PutLeaf ==
    ASSUME NEW l \in Nat, l > 0, NEW r, Store(r.db), NEW c,
           \A i \in Nibbles : Trie(c[i], l - 1, DOMAIN r.db) /\ Kept(c[i], DOMAIN r.db),
           NEW w \in Values \cup {NoValue}, r.b = Bra(c, w), NEW v \in Values,
           NEW k \in Seq(Nibbles), k # <<>>, Len(k) <= l, c[Head(k)] = Null,
           w # NoValue \/ \E i \in Nibbles : c[i] # Null
    PROVE  PutMakes(l, r, k, v, PutInBranch(r, k, v))
<1> DEFINE p == PutInBranch(r, k, v)
           i == Head(k)
           y == Leaf(Tail(k), v)
           a == Changed(y, r.db)
           t == StreamNode(a)
           e == With(c, i, y)
<1>a. i \in Nibbles /\ Tail(k) \in Seq(Nibbles) /\ Len(Tail(k)) = Len(k) - 1 /\ Len(k) \in Nat
  BY HeadAndTail
<1>0. \A x \in Nibbles : IsNode(c[x])
  BY TrieIsNode, Zenon
<1>1. /\ BranchNode([r.b.child EXCEPT ![i] = SlotFor(y)], r.b.value) = Bra(e, w)
      /\ r.b.child[i] = SlotFor(c[i])
      /\ e[i] = y /\ \A x \in Nibbles : x # i => e[x] = c[x]
  <2> HIDE DEF y, i
  <2>1. BranchNode([Bra(c, w).child EXCEPT ![i] = SlotFor(y)], w) = Bra(With(c, i, y), w)
    BY <1>a, WithMade
  <2>4. Bra(c, w).child[i] = SlotFor(c[i]) /\ Bra(c, w).value = w
    BY <1>a, BraChild, BraValue, Zenon
  <2>2. With(c, i, y)[i] = y /\ \A x \in Nibbles : x # i => With(c, i, y)[x] = c[x]
    BY <1>a DEF With
  <2> HIDE DEF e
  <2>3. e = With(c, i, y)
    BY DEF e
  <2> QED
    BY <2>1, <2>2, <2>3, <2>4
<1>2. Deref(r.db, r.b.child[Head(k)]) = Null
  <2>1. IsNode(Null) /\ Kept(Null, DOMAIN r.db)
    BY Slots, Fields DEF Kept
  <2>2. r.b.child[Head(k)] = SlotFor(Null)
    BY <1>1
  <2> QED
    BY <2>1, <2>2, DerefIs
<1>3. Place(r.db, Null, Tail(k), v) = a
  <2>1. KillNode(r.db, Null) = r.db
    BY Fields DEF KillNode
  <2> QED
    BY <2>1, PlaceOnNull
<1>4. p = Changed(BranchNode([r.b.child EXCEPT ![i] = t.slot], r.b.value), t.db)
  BY <1>2, <1>3 DEF PutInBranch
<1>5. l - 1 \in Nat /\ Len(Tail(k)) <= l - 1
  BY <1>a
<1>6. Trie(y, l - 1, DOMAIN r.db)
  BY <1>a, <1>5, LeafTrie
<1>7. IsNode(y) /\ y.kind # "branch" /\ y # Null
  BY <1>6, TrieIsNode, NullNotOthers
<1>b. \A q \in Seq(Nibbles) : Find(y, q) = IF q = Tail(k) THEN v ELSE NoValue
  BY FindLeaf
<1>c. \A h : R(y, h) = 0
  BY RLeaf
<1> HIDE DEF e, y
<1>8. a.b = y /\ a.db = r.db
  BY ChangedIs
<1> HIDE DEF a
<1>9. /\ t.slot = SlotFor(y) /\ Store(t.db) /\ DOMAIN r.db \subseteq DOMAIN t.db
      /\ Kept(y, DOMAIN t.db)
      /\ \A h : Cnt(t.db, h) = Cnt(r.db, h) + Self(y, h)
      /\ Clean(r.db) => Clean(t.db)
  BY <1>7, <1>8, StreamIs
<1> HIDE DEF t
<1>10. p.b = Bra(e, w) /\ p.db = t.db
  BY <1>1, <1>4, <1>9, ChangedIs
<1> HIDE DEF p
<1>11. ASSUME NEW x \in Nibbles PROVE Trie(e[x], l - 1, DOMAIN t.db) /\ Kept(e[x], DOMAIN t.db)
  <2>1. CASE x = i
    BY <1>1, <1>6, <1>9, <2>1, MoreKept
  <2>2. CASE x # i
    <3>1. e[x] = c[x]
      BY <1>1, <2>2
    <3>2. Trie(c[x], l - 1, DOMAIN t.db)
      BY <1>9, MoreKept
    <3>3. Kept(c[x], DOMAIN t.db)
      BY <1>9 DEF Kept
    <3> QED
      BY <3>1, <3>2, <3>3
  <2> QED
    BY <2>1, <2>2
<1>12. \A x \in Nibbles : IsNode(e[x])
  BY <1>11, TrieIsNode, Zenon
<1>13. TwoInUse(Bra(e, w))
  <2>1. i \in InUse(Bra(e, w))
    BY <1>a, <1>1, <1>7, <1>12, InUseBra
  <2>2. CASE w # NoValue
    <3>1. ValueSlot \in InUse(Bra(e, w)) /\ ValueSlot # i
      BY <1>a, <1>12, <2>2, InUseBra
    <3> QED
      BY <2>1, <3>1, Zenon DEF TwoInUse
  <2>3. CASE \E x \in Nibbles : c[x] # Null
    <3>1. PICK x \in Nibbles : c[x] # Null
      BY <2>3
    <3>2. x # i
      BY <3>1 DEF i
    <3>3. x \in InUse(Bra(e, w))
      BY <1>1, <1>12, <3>1, <3>2, InUseBra
    <3> QED
      BY <2>1, <3>2, <3>3, Zenon DEF TwoInUse
  <2> QED
    BY <2>2, <2>3
<1>14. Trie(Bra(e, w), l, DOMAIN t.db)
  BY <1>11, <1>13, BraTrie
<1>15. ASSUME NEW j \in Seq(Nibbles) PROVE Find(Bra(e, w), j) = IF j = k THEN v ELSE Find(r.b, j)
  <2>1. Find(Bra(e, w), j) = IF j # <<>> /\ Head(j) = i THEN Find(y, Tail(j)) ELSE Find(r.b, j)
    <3>1. \A x \in Nibbles : x # i => c[x] = e[x]
      BY <1>1
    <3> QED
      BY <1>0, <1>12, <1>1, <3>1, FindSwap
  <2>2. j = k <=> j # <<>> /\ Head(j) = i /\ Tail(j) = Tail(k)
    BY SameKey DEF i
  <2>3. CASE j # <<>> /\ Head(j) = i
    <3>1. Tail(j) \in Seq(Nibbles)
      BY <2>3, HeadAndTail
    <3>2. Find(y, Tail(j)) = IF Tail(j) = Tail(k) THEN v ELSE NoValue
      BY <1>b, <3>1
    <3>3. Find(r.b, j) = NoValue
      <4>1. Find(r.b, j) = Find(c[Head(j)], Tail(j))
        BY <1>0, <2>3, FindBra
      <4>2. c[Head(j)] = Null
        BY <2>3 DEF i
      <4> QED
        BY <3>1, <4>1, <4>2, FindNull
    <3> QED
      BY <2>1, <2>2, <2>3, <3>2, <3>3
  <2>4. CASE ~(j # <<>> /\ Head(j) = i)
    BY <2>1, <2>2, <2>4
  <2> QED
    BY <2>3, <2>4
<1>16. ASSUME NEW h PROVE Cnt(t.db, h) + R(r.b, h) = Cnt(r.db, h) + R(Bra(e, w), h)
  <2>1. Tries(c, l - 1, DOMAIN t.db)
    BY <1>9, MoreKept DEF Tries
  <2>2. Tries(e, l - 1, DOMAIN t.db)
    BY <1>11 DEF Tries
  <2>3. \A x \in Nibbles : x # i => c[x] = e[x]
    BY <1>1
  <2>4. R(Bra(c, w), h) + S(e[i], h) = R(Bra(e, w), h) + S(c[i], h)
    BY <1>a, <2>1, <2>2, <2>3, RSwap
  <2>5. S(c[i], h) = 0
    BY RNone DEF i
  <2>6. S(e[i], h) = Self(y, h)
    <3>1. S(y, h) = 0 + Self(y, h) /\ Self(y, h) \in Nat
      BY <1>c, OneNat DEF S
    <3> QED
      BY <1>1, <3>1
  <2>7. R(Bra(c, w), h) \in Nat /\ R(Bra(e, w), h) \in Nat
    BY <1>a, <2>1, <2>2, RBra
  <2>8. Cnt(r.db, h) \in Nat /\ Self(y, h) \in Nat
    BY CntNat, OneNat
  <2>9. Cnt(t.db, h) = Cnt(r.db, h) + Self(y, h)
    BY <1>9
  <2> QED
    BY <2>4, <2>5, <2>6, <2>7, <2>8, <2>9
<1>17. Bra(e, w).kind = "branch"
  BY NullNotOthers
<1>18. PutMakes(l, r, k, v, p)
  BY <1>9, <1>10, <1>14, <1>15, <1>16, <1>17 DEF PutMakes
<1> QED
  BY <1>18 DEF p

\* A pair and a key that share nothing come under a branch.
LEMMA SplitPut ==
    ASSUME NEW db, Store(db), NEW l \in Nat, l > 0, NEW n, Trie(n, l, DOMAIN db), n.kind = "pair",
           NEW j \in Seq(Nibbles), NEW c, NEW w, NEW r, Split(db, n, l, j, c, w, r),
           NEW k \in Seq(Nibbles), Len(k) <= l, NEW v \in Values,
           IF j = <<>> THEN k # <<>> ELSE k = <<>> \/ Head(k) # Head(j)
    PROVE  Merged(db, n, l, k, v, PutInBranch(r, k, v)) /\ PutInBranch(r, k, v).b.kind = "branch"
<1> DEFINE p == PutInBranch(r, k, v)
<1>1. /\ r.b = Bra(c, w) /\ w \in Values \cup {NoValue}
      /\ Store(r.db) /\ DOMAIN db \subseteq DOMAIN r.db
      /\ \A i \in Nibbles : Trie(c[i], l - 1, DOMAIN r.db) /\ Kept(c[i], DOMAIN r.db)
      /\ \A q \in Seq(Nibbles) : Find(r.b, q) = Find(n, q)
      /\ Balanced(db, n, r)
  BY DEF Split
<1>2. IF j = <<>> THEN w # NoValue /\ \A i \in Nibbles : c[i] = Null
      ELSE w = NoValue /\ c[Head(j)] # Null /\ \A i \in Nibbles : i # Head(j) => c[i] = Null
  BY Zenon DEF Split
<1>0. \A x \in Nibbles : IsNode(c[x])
  BY <1>1, TrieIsNode, Zenon
<1>3. PutMakes(l, r, k, v, p)
  <2>1. CASE k = <<>>
    <3>1. j # <<>> /\ Head(j) \in Nibbles
      BY <2>1, HeadAndTail
    <3>2. w = NoValue /\ c[Head(j)] # Null /\ \A i \in Nibbles : i # Head(j) => c[i] = Null
      BY <1>2, <3>1
    <3>3. \A x \in InUse(r.b) : x = Head(j)
      BY <1>0, <1>1, <3>2, InUseBra
    <3>4. ~TwoInUse(r.b)
      BY <3>3, Zenon DEF TwoInUse
    <3> QED
      BY <1>1, <2>1, <3>1, <3>2, <3>4, PutValue
  <2>2. CASE k # <<>>
    <3>1. Head(k) \in Nibbles
      BY <2>2, HeadAndTail
    <3>2. j # <<>> => Head(j) \in Nibbles
      BY HeadAndTail
    <3>3. c[Head(k)] = Null
      BY <1>2, <2>2, <3>1
    <3>4. w # NoValue \/ \E i \in Nibbles : c[i] # Null
      BY <1>2, <3>2
    <3> QED
      BY <1>1, <2>2, <3>3, <3>4, PutLeaf
  <2> QED
    BY <2>1, <2>2
<1> HIDE DEF p
<1>4. /\ Store(p.db) /\ DOMAIN r.db \subseteq DOMAIN p.db
      /\ Trie(p.b, l, DOMAIN p.db) /\ p.b.kind = "branch"
      /\ \A q \in Seq(Nibbles) : Find(p.b, q) = IF q = k THEN v ELSE Find(r.b, q)
      /\ Clean(r.db) => Clean(p.db) /\ \A h : Cnt(p.db, h) + R(r.b, h) = Cnt(r.db, h) + R(p.b, h)
  BY <1>3 DEF PutMakes
<1>5. ASSUME Books(db, n) PROVE Clean(p.db) /\ \A h : Cnt(p.db, h) + S(n, h) = Cnt(db, h) + R(p.b, h)
  <2>1. Clean(r.db) /\ \A h : Cnt(r.db, h) + S(n, h) = Cnt(db, h) + R(r.b, h)
    BY <1>1, <1>5, Zenon DEF Balanced
  <2>2. ASSUME NEW h PROVE Cnt(p.db, h) + S(n, h) = Cnt(db, h) + R(p.b, h)
    <3>1. Cnt(p.db, h) \in Nat /\ Cnt(r.db, h) \in Nat /\ Cnt(db, h) \in Nat
      BY <1>1, <1>4, CntNat
    <3>2. S(n, h) \in Nat /\ R(p.b, h) \in Nat
      BY <1>4, SpotsFinite
    <3>3. R(r.b, h) \in Nat
      <4>1. PICK i : i \in Nibbles
        BY NibblesAssumption
      <4>2. Tries(c, l - 1, DOMAIN r.db)
        BY <1>1 DEF Tries
      <4>3. R(Bra(c, w), h) \in Nat
        BY <4>1, <4>2, RBra
      <4> QED
        BY <4>3, <1>1
    <3>4. /\ Cnt(r.db, h) + S(n, h) = Cnt(db, h) + R(r.b, h)
          /\ Cnt(p.db, h) + R(r.b, h) = Cnt(r.db, h) + R(p.b, h)
      BY <1>4, <2>1
    <3> QED
      <4> DEFINE a == Cnt(p.db, h)
                 b == Cnt(r.db, h)
                 d == Cnt(db, h)
                 s == S(n, h)
                 x == R(r.b, h)
                 y == R(p.b, h)
      <4>1. a \in Nat /\ b \in Nat /\ d \in Nat /\ s \in Nat /\ x \in Nat /\ y \in Nat /\ b + s = d + x /\ a + x = b + y
        BY <3>1, <3>2, <3>3, <3>4
      <4>2. a + s = d + y
        <5> HIDE DEF a, b, d, s, x, y
        <5> QED
          BY <4>1
      <4> QED
        BY <4>2
  <2> QED
    BY <1>4, <2>1, <2>2
<1>6. Changes(db, n, l, p)
  BY <1>1, <1>4, <1>5 DEF Changes, Balanced
<1>7. p.b # Null
  BY <1>4, NullNotOthers
<1>8. \A q \in Seq(Nibbles) : Find(p.b, q) = IF q = k THEN v ELSE Find(n, q)
  BY <1>1, <1>4
<1>9. Merged(db, n, l, k, v, p)
  BY <1>4, <1>6, <1>7, <1>8 DEF Merged
<1> QED
  BY <1>4, <1>9 DEF p

\* Where two keys part.
PartAt(T, a, b, s) ==
    /\ s \in Nat /\ s <= Len(a) /\ s <= Len(b) /\ Len(a) \in Nat /\ Len(b) \in Nat
    /\ Mid(a, s) \in Seq(T) /\ Mid(b, s) \in Seq(T) /\ SubSeq(b, 1, s) \in Seq(T)
    /\ a = SubSeq(b, 1, s) \o Mid(a, s) /\ b = SubSeq(b, 1, s) \o Mid(b, s)
    /\ Len(SubSeq(b, 1, s)) = s /\ Len(Mid(a, s)) = Len(a) - s /\ Len(Mid(b, s)) = Len(b) - s
    /\ Mid(a, s) # <<>> /\ Mid(b, s) # <<>> => Head(Mid(a, s)) # Head(Mid(b, s))

\* Keys part behind what they share, or one of them ends there.
LEMMA SharedEnds ==
    ASSUME NEW T, NEW a \in Seq(T), NEW b \in Seq(T)
    PROVE  PartAt(T, a, b, Shared(a, b))
<1> DEFINE s == Shared(a, b)
<1>1. s \in 0 .. Len(a) /\ s \in 0 .. Len(b) /\ SubSeq(a, 1, s) = SubSeq(b, 1, s)
  BY SharedIs, Zenon
<1>a. s \in 0 .. Len(a) /\ s \in 0 .. Len(b)
  BY <1>1
<1>b. Len(a) \in Nat /\ Len(b) \in Nat /\ s \in Nat /\ s <= Len(a) /\ s <= Len(b)
  BY <1>a
<1>2. \A n \in 0 .. Len(a) : n <= Len(b) /\ SubSeq(a, 1, n) = SubSeq(b, 1, n) => n <= s
  BY SharedIs, Zenon
<1>3. /\ Mid(a, s) \in Seq(T) /\ SubSeq(a, 1, s) \in Seq(T) /\ Len(Mid(a, s)) = Len(a) - s
      /\ a = SubSeq(a, 1, s) \o Mid(a, s) /\ Len(SubSeq(a, 1, s)) = s
  BY <1>a, CutOff
<1>4. /\ Mid(b, s) \in Seq(T) /\ SubSeq(b, 1, s) \in Seq(T) /\ Len(Mid(b, s)) = Len(b) - s
      /\ b = SubSeq(b, 1, s) \o Mid(b, s) /\ Len(SubSeq(b, 1, s)) = s
  BY <1>a, CutOff
<1>5. ASSUME Mid(a, s) # <<>>, Mid(b, s) # <<>>, Head(Mid(a, s)) = Head(Mid(b, s)) PROVE FALSE
  <2>1. Len(Mid(a, s)) # 0 /\ Len(Mid(b, s)) # 0
    BY <1>3, <1>4, <1>5, EmptyIs
  <2>2. Len(a) \in Nat /\ Len(b) \in Nat /\ s \in Nat /\ s + 1 <= Len(a) /\ s + 1 <= Len(b)
    <3>1. Len(Mid(a, s)) = Len(a) - s /\ Len(Mid(b, s)) = Len(b) - s
      BY <1>3, <1>4
    <3>2. Len(a) - s # 0 /\ Len(b) - s # 0
      BY <2>1, <3>1
    <3> QED
      BY <1>b, <3>2
  <2>3. a[s + 1] = b[s + 1]
    <3>1. Head(Mid(a, s)) = Mid(a, s)[1] /\ Head(Mid(b, s)) = Mid(b, s)[1]
      BY <1>3, <1>4, <1>5
    <3>2. Mid(a, s)[1] = a[s + 1] /\ Mid(b, s)[1] = b[s + 1]
      <4>1. 1 \in 1 .. Len(a) - s /\ 1 \in 1 .. Len(b) - s
        BY <2>2
      <4>2. Mid(a, s)[1] = a[s + 1]
        BY <1>1, <4>1, CutOff
      <4>3. Mid(b, s)[1] = b[s + 1]
        BY <1>1, <4>1, CutOff
      <4> QED
        BY <4>2, <4>3
    <3> QED
      BY <3>1, <3>2, <1>5
  <2>4. \A i \in 1 .. s : a[i] = b[i]
    <3>1. ASSUME NEW i \in 1 .. s PROVE a[i] = b[i]
      <4>1. SubSeq(a, 1, s)[i] = a[i]
        BY <1>1, CutOff
      <4>2. SubSeq(b, 1, s)[i] = b[i]
        BY <1>1, CutOff
      <4> QED
        BY <1>1, <4>1, <4>2
    <3> QED
      BY <3>1
  <2>5. SubSeq(a, 1, s + 1) = SubSeq(b, 1, s + 1)
    <3>1. \A i \in 1 .. s + 1 : a[i] = b[i]
      BY <2>2, <2>3, <2>4
    <3>2. /\ SubSeq(a, 1, s + 1) \in Seq(T) /\ Len(SubSeq(a, 1, s + 1)) = s + 1
          /\ SubSeq(b, 1, s + 1) \in Seq(T) /\ Len(SubSeq(b, 1, s + 1)) = s + 1
      BY <2>2
    <3>3. \A i \in 1 .. s + 1 : SubSeq(a, 1, s + 1)[i] = SubSeq(b, 1, s + 1)[i]
      BY <2>2, <3>1
    <3> QED
      BY <3>2, <3>3, SeqEqual
  <2>6. s + 1 \in 0 .. Len(a)
    BY <2>2
  <2>7. s + 1 <= s
    BY <1>2, <2>2, <2>5, <2>6
  <2> QED
    BY <2>2, <2>7
<1>6. Mid(a, s) # <<>> /\ Mid(b, s) # <<>> => Head(Mid(a, s)) # Head(Mid(b, s))
  BY <1>5, Zenon
<1>7. a = SubSeq(b, 1, s) \o Mid(a, s)
  BY <1>1, <1>3, Zenon
<1>8. PartAt(T, a, b, s)
  BY <1>b, <1>3, <1>4, <1>6, <1>7, Zenon DEF PartAt
<1> QED
  BY <1>8 DEF s

\* A pair's key is cut and the rest of the pair put below.
CutAt(D, l, n, a, b, y) ==
    /\ Trie(y, l - Len(a), D)
    /\ y.kind = "pair" /\ y.key = b
    /\ \A h : R(y, h) = R(n, h)
    /\ \A q \in Seq(Nibbles) : Find(n, a \o q) = Find(y, q)
    /\ \A q \in Seq(Nibbles) : ~Contains(q, a) => Find(n, q) = NoValue
    /\ Len(a) + Len(b) <= l

\* The bottom of a pair cut by cleve is a trie of the same references that holds what
\* the pair does behind the cut.
LEMMA CutPair ==
    ASSUME NEW D, NEW l, NEW n, Trie(n, l, D), n.kind = "pair",
           NEW a \in Seq(Nibbles), a # <<>>, NEW b \in Seq(Nibbles), n.key = a \o b,
           n.leaf \/ b # <<>>
    PROVE  CutAt(D, l, n, a, b, Pair(b, n.leaf, n.item))
<1> DEFINE y == Pair(b, n.leaf, n.item)
           Goal == /\ Trie(y, l - Len(a), D)
                   /\ \A h : R(y, h) = R(n, h)
                   /\ \A q \in Seq(Nibbles) : Find(n, a \o q) = Find(y, q)
                   /\ \A q \in Seq(Nibbles) : ~Contains(q, a) => Find(n, q) = NoValue
                   /\ Len(a) + Len(b) <= l
<1>r. \A x \in Seq(Nibbles) : (a \o b) \o x = a \o (b \o x)
  BY ConcatAssociative
<1>s. \A x \in Seq(Nibbles) : b \o x \in Seq(Nibbles)
  BY Concatenated
<1>0. Len(a) \in Nat /\ Len(b) \in Nat /\ a \o b \in Seq(Nibbles) /\ Len(a \o b) = Len(a) + Len(b)
  BY Concatenated
<1>1. ASSUME NEW k \in Seq(Nibbles), NEW v \in Values, Len(k) <= l, n = Leaf(k, v), l \in Nat
      PROVE  Goal
  <2>1. n.key = k /\ n.leaf = TRUE /\ n.item = v
    BY <1>1, Fields
  <2>2. y = Leaf(b, v) /\ k = a \o b
    BY <2>1 DEF Leaf
  <2> HIDE DEF y
  <2>3. l - Len(a) \in Nat /\ Len(b) <= l - Len(a) /\ Len(a) + Len(b) <= l
    BY <1>0, <1>1, <2>2
  <2>4. Trie(y, l - Len(a), D)
    BY <2>2, <2>3, LeafTrie
  <2>5. \A h : R(y, h) = R(n, h)
    BY <1>1, <2>2, RLeaf
  <2>6. \A q \in Seq(Nibbles) : Find(n, a \o q) = Find(y, q)
    <3>1. ASSUME NEW q \in Seq(Nibbles) PROVE Find(n, a \o q) = Find(y, q)
      <4>1. a \o q \in Seq(Nibbles)
        BY Concatenated
      <4>2. a \o q = a \o b <=> q = b
        BY SameAhead, Zenon
      <4>3. Find(n, a \o q) = IF a \o q = a \o b THEN v ELSE NoValue
        BY <1>1, <2>2, <4>1, FindLeaf
      <4>4. Find(y, q) = IF q = b THEN v ELSE NoValue
        BY <2>2, FindLeaf
      <4> QED
        BY <4>2, <4>3, <4>4
    <3> QED
      BY <3>1
  <2>7. \A q \in Seq(Nibbles) : ~Contains(q, a) => Find(n, q) = NoValue
    <3>1. ASSUME NEW q \in Seq(Nibbles), ~Contains(q, a) PROVE Find(n, q) = NoValue
      <4>1. q # k
        BY <2>2, <3>1, ContainsMade
      <4> QED
        BY <1>1, <4>1, FindLeaf
    <3> QED
      BY <3>1
  <2> QED
    BY <2>3, <2>4, <2>5, <2>6, <2>7
<1>2. ASSUME NEW k \in Seq(Nibbles), NEW m, k # <<>>, Len(k) <= l, Trie(m, l - Len(k), D),
             m.kind = "branch", Kept(m, D), n = Ext(k, m), l \in Nat
      PROVE  Goal
  <2>1. n.key = k /\ n.leaf = FALSE /\ n.item = SlotFor(m)
    BY <1>2, Fields DEF Ext
  <2>2. y = Ext(b, m) /\ k = a \o b /\ b # <<>>
    BY <2>1 DEF Ext, Extension
  <2> HIDE DEF y
  <2>3. l - Len(a) \in Nat /\ Len(b) <= l - Len(a) /\ Len(a) + Len(b) <= l /\ l - Len(k) = (l - Len(a)) - Len(b)
    BY <1>0, <1>2, <2>2
  <2>a. Trie(m, (l - Len(a)) - Len(b), D)
    BY <1>2, <2>3
  <2>4. Trie(y, l - Len(a), D)
    BY <1>2, <2>2, <2>3, <2>a, ExtTrie
  <2>5. \A h : R(y, h) = R(n, h)
    <3>1. \A h : R(Ext(k, m), h) = S(m, h)
      BY <1>2, RExt
    <3>2. \A h : R(Ext(b, m), h) = S(m, h)
      BY <2>2, <2>a, RExt
    <3> QED
      BY <1>2, <2>2, <3>1, <3>2
  <2>6. \A q \in Seq(Nibbles) : Find(n, a \o q) = Find(y, q)
    <3>1. ASSUME NEW q \in Seq(Nibbles) PROVE Find(n, a \o q) = Find(y, q)
      <4>1. CASE Contains(q, b)
        <5> DEFINE x == Mid(q, Len(b))
        <5>1. x \in Seq(Nibbles) /\ q = b \o x
          BY <4>1, ContainsCut
        <5> HIDE DEF x
        <5>a. (a \o b) \o x = a \o (b \o x)
          BY <1>r, <5>1, Zenon
        <5>2. a \o q = k \o x
          BY <2>2, <5>1, <5>a, Zenon
        <5>3. Find(Ext(k, m), k \o x) = Find(m, x)
          BY <1>2, <5>1, FindExtIn
        <5>4. Find(Ext(b, m), b \o x) = Find(m, x)
          BY <2>2, <2>a, <5>1, FindExtIn
        <5> QED
          BY <1>2, <2>2, <5>1, <5>2, <5>3, <5>4
      <4>2. CASE ~Contains(q, b)
        <5>1. Find(Ext(b, m), q) = NoValue
          BY <2>2, <2>a, <4>2, FindExtOut
        <5>2. ~Contains(a \o q, k)
          <6> SUFFICES ASSUME Contains(a \o q, k) PROVE FALSE
            OBVIOUS
          <6>1. a \o q \in Seq(Nibbles)
            BY Concatenated
          <6>0. Mid(a \o q, Len(k)) \in Seq(Nibbles) /\ a \o q = k \o Mid(a \o q, Len(k))
            BY <1>2, <6>1, ContainsCut, Zenon
          <6>2. PICK x \in Seq(Nibbles) : a \o q = k \o x
            BY <6>0, Zenon
          <6>a. (a \o b) \o x = a \o (b \o x)
            BY <1>r, Zenon
          <6>b. b \o x \in Seq(Nibbles)
            BY <1>s, Zenon
          <6>3. a \o q = a \o (b \o x) /\ b \o x \in Seq(Nibbles)
            BY <2>2, <6>2, <6>a, <6>b, Zenon
          <6>4. q = b \o x
            BY <6>3, SameAhead
          <6> QED
            BY <4>2, <6>4, ContainsMade
        <5>3. Find(Ext(k, m), a \o q) = NoValue
          <6>1. a \o q \in Seq(Nibbles)
            BY Concatenated
          <6> QED
            BY <1>2, <5>2, <6>1, FindExtOut
        <5> QED
          BY <1>2, <2>2, <5>1, <5>3
      <4> QED
        BY <4>1, <4>2
    <3> QED
      BY <3>1
  <2>7. \A q \in Seq(Nibbles) : ~Contains(q, a) => Find(n, q) = NoValue
    <3>1. ASSUME NEW q \in Seq(Nibbles), ~Contains(q, a) PROVE Find(n, q) = NoValue
      <4>1. ~Contains(q, k)
        <5> SUFFICES ASSUME Contains(q, k) PROVE FALSE
          OBVIOUS
        <5>0. Mid(q, Len(k)) \in Seq(Nibbles) /\ q = k \o Mid(q, Len(k))
          BY <1>2, ContainsCut
        <5>1. PICK x \in Seq(Nibbles) : q = k \o x
          BY <5>0
        <5>a. (a \o b) \o x = a \o (b \o x)
          BY <1>r, Zenon
        <5>b. b \o x \in Seq(Nibbles)
          BY <1>s, Zenon
        <5>2. q = a \o (b \o x) /\ b \o x \in Seq(Nibbles)
          BY <2>2, <5>1, <5>a, <5>b, Zenon
        <5> QED
          BY <3>1, <5>2, ContainsMade
      <4> QED
        BY <1>2, <4>1, FindExtOut
    <3> QED
      BY <3>1
  <2> QED
    BY <2>3, <2>4, <2>5, <2>6, <2>7
<1>3. Goal
  <2> HIDE DEF Goal
  <2>1. l \in Nat /\ (n = Null \/ AsLeaf(n, l) \/ AsExt(n, l, D) \/ AsBra(n, l, D))
    BY TrieCases
  <2>2. n # Null
    BY Fields
  <2>3. ~AsBra(n, l, D)
    BY NullNotOthers DEF AsBra
  <2>4. AsLeaf(n, l) => Goal
    BY <1>1, <2>1, Zenon DEF AsLeaf
  <2>5. AsExt(n, l, D) => Goal
    BY <1>2, <2>1, Zenon DEF AsExt
  <2> QED
    BY <2>1, <2>2, <2>3, <2>4, <2>5
<1>4. y.kind = "pair" /\ y.key = b
  BY Fields
<1> HIDE DEF y
<1>5. CutAt(D, l, n, a, b, y)
  BY <1>3, <1>4 DEF CutAt
<1> QED
  BY <1>5 DEF y

\* A trie that is a branch has two things in use.
LEMMA BranchTwo ==
    ASSUME NEW n, NEW l, NEW D, Trie(n, l, D), n.kind = "branch"
    PROVE  AsBra(n, l, D) /\ TwoInUse(n) /\ n # Null
<1>1. n # Null
  BY Fields
<1>2. ~AsLeaf(n, l)
  BY NullNotOthers DEF AsLeaf
<1>3. ~AsExt(n, l, D)
  BY NullNotOthers DEF AsExt
<1>4. AsBra(n, l, D)
  BY <1>1, <1>2, <1>3, TrieCases
<1> QED
  BY <1>1, <1>4, Zenon DEF AsBra

\* A trie becomes a child.
LEMMA StreamTrie ==
    ASSUME NEW p, Store(p.db), NEW l, Trie(p.b, l, DOMAIN p.db), NEW t, t = StreamNode(p)
    PROVE  /\ t.slot = SlotFor(p.b) /\ t.out = p.out /\ Store(t.db) /\ DOMAIN p.db \subseteq DOMAIN t.db
           /\ Trie(p.b, l, DOMAIN t.db) /\ Kept(p.b, DOMAIN t.db)
           /\ \A h : Cnt(t.db, h) = Cnt(p.db, h) + Self(p.b, h)
           /\ Clean(p.db) => Clean(t.db)
<1>1. IsNode(p.b)
  BY TrieIsNode
<1>2. p.b.kind = "branch" => TwoInUse(p.b)
  BY BranchTwo
<1>3. /\ t.slot = SlotFor(p.b) /\ t.out = p.out /\ Store(t.db) /\ DOMAIN p.db \subseteq DOMAIN t.db
      /\ Kept(p.b, DOMAIN t.db)
      /\ \A h : Cnt(t.db, h) = Cnt(p.db, h) + Self(p.b, h)
      /\ Clean(p.db) => Clean(t.db)
  BY <1>1, <1>2, StreamIs
<1>4. Trie(p.b, l, DOMAIN t.db)
  BY <1>3, MoreKept
<1> QED
  BY <1>3, <1>4

\* What was put below y is put, with an extension over it, below n.
LEMMA ExtMerged ==
    ASSUME NEW db, Store(db), NEW l, NEW n, Trie(n, l, DOMAIN db), n.kind = "pair",
           NEW a \in Seq(Nibbles), a # <<>>, Len(a) <= l,
           \A x \in Seq(Nibbles) : ~Contains(x, a) => Find(n, x) = NoValue,
           NEW y, \A x \in Seq(Nibbles) : Find(n, a \o x) = Find(y, x),
           NEW e, Store(e), DOMAIN db \subseteq DOMAIN e, Trie(y, l - Len(a), DOMAIN e),
           Books(db, n) => /\ Clean(e)
                           /\ \A h : Cnt(e, h) + S(n, h) = Cnt(db, h) + S(y, h),
           NEW q \in Seq(Nibbles), NEW v, NEW p,
           Merged(e, y, l - Len(a), q, v, p), p.b.kind = "branch",
           NEW r, r.b = Ext(a, p.b), r.db = StreamNode(p).db
    PROVE  Merged(db, n, l, a \o q, v, r)
<1> DEFINE t == StreamNode(p)
           m == p.b
<1>0. Len(a) \in Nat /\ l \in Nat /\ l - Len(a) \in Nat
  BY TrieIs
<1>1. /\ Store(p.db) /\ DOMAIN e \subseteq DOMAIN p.db
      /\ Trie(m, l - Len(a), DOMAIN p.db) /\ Balanced(e, y, p)
      /\ \A x \in Seq(Nibbles) : Find(m, x) = IF x = q THEN v ELSE Find(y, x)
  BY DEF Merged, Changes
<1>2. /\ Store(t.db) /\ DOMAIN p.db \subseteq DOMAIN t.db
      /\ Trie(m, l - Len(a), DOMAIN t.db) /\ Kept(m, DOMAIN t.db)
      /\ \A h : Cnt(t.db, h) = Cnt(p.db, h) + Self(m, h)
      /\ Clean(p.db) => Clean(t.db)
  BY <1>1, StreamTrie
<1> HIDE DEF t
<1>3. r.b = Ext(a, m) /\ r.db = t.db
  BY DEF t
<1>a. m.kind = "branch"
  OBVIOUS
<1> HIDE DEF m
<1>4. Trie(Ext(a, m), l, DOMAIN t.db)
  BY <1>0, <1>2, <1>a, ExtTrie
<1>5. ASSUME NEW x \in Seq(Nibbles) PROVE Find(Ext(a, m), x) = IF x = a \o q THEN v ELSE Find(n, x)
  <2>1. CASE Contains(x, a)
    <3>1. Mid(x, Len(a)) \in Seq(Nibbles) /\ x = a \o Mid(x, Len(a))
      BY <2>1, ContainsCut
    <3>2. PICK z \in Seq(Nibbles) : x = a \o z
      BY <3>1
    <3>3. Find(Ext(a, m), a \o z) = Find(m, z)
      BY <1>1, FindExtIn
    <3>4. Find(n, a \o z) = Find(y, z)
      OBVIOUS
    <3>5. a \o z = a \o q <=> z = q
      BY SameAhead, Zenon
    <3> QED
      BY <1>1, <3>2, <3>3, <3>4, <3>5
  <2>2. CASE ~Contains(x, a)
    <3>1. Find(Ext(a, m), x) = NoValue
      BY <1>1, <2>2, FindExtOut
    <3>2. x # a \o q
      BY <2>2, ContainsMade
    <3> QED
      BY <2>2, <3>1, <3>2
  <2> QED
    BY <2>1, <2>2
<1>6. ASSUME Books(db, n)
      PROVE  Clean(t.db) /\ \A h : Cnt(t.db, h) + S(n, h) = Cnt(db, h) + R(Ext(a, m), h)
  <2>0. \A h : /\ Cnt(db, h) \in Nat /\ Cnt(e, h) \in Nat /\ Cnt(p.db, h) \in Nat
               /\ S(n, h) \in Nat /\ S(y, h) \in Nat /\ Cnt(db, h) >= S(n, h)
               /\ Cnt(e, h) + S(n, h) = Cnt(db, h) + S(y, h)
    <3>1. \A h : Cnt(db, h) \in Nat /\ Cnt(e, h) \in Nat /\ Cnt(p.db, h) \in Nat
      BY <1>1, CntNat
    <3>2. \A h : S(n, h) \in Nat /\ S(y, h) \in Nat
      BY SpotsFinite
    <3>3. \A h : Cnt(db, h) >= S(n, h)
      BY <1>6, Zenon DEF Books
    <3>4. \A h : Cnt(e, h) + S(n, h) = Cnt(db, h) + S(y, h)
      BY <1>6, Zenon
    <3> QED
      BY <3>1, <3>2, <3>3, <3>4, Zenon
  <2>1. ASSUME NEW h PROVE Cnt(e, h) >= S(y, h)
    <3> DEFINE cd == Cnt(db, h)
               ce == Cnt(e, h)
               sn == S(n, h)
               sy == S(y, h)
    <3>1. cd \in Nat /\ ce \in Nat /\ sn \in Nat /\ sy \in Nat /\ cd >= sn /\ ce + sn = cd + sy
      BY <2>0, Zenon
    <3>2. ce >= sy
      <4> HIDE DEF cd, ce, sn, sy
      <4> QED
        BY <3>1
    <3> QED
      BY <3>2
  <2>2. Books(e, y)
    BY <1>6, <2>1, Zenon DEF Books
  <2>3. Clean(p.db) /\ \A h : Cnt(p.db, h) + S(y, h) = Cnt(e, h) + R(m, h)
    BY <1>1, <2>2, Zenon DEF Balanced, m
  <2>4. ASSUME NEW h PROVE Cnt(t.db, h) + S(n, h) = Cnt(db, h) + R(Ext(a, m), h)
    <3>1. R(Ext(a, m), h) = S(m, h)
      BY <1>1, RExt
    <3>2. S(m, h) = R(m, h) + Self(m, h) /\ R(m, h) \in Nat /\ Self(m, h) \in Nat
      BY <1>1, SpotsFinite, OneNat
    <3> DEFINE cd == Cnt(db, h)
               ce == Cnt(e, h)
               cp == Cnt(p.db, h)
               ct == Cnt(t.db, h)
               sn == S(n, h)
               sy == S(y, h)
               rm == R(m, h)
               sm == Self(m, h)
               rx == R(Ext(a, m), h)
    <3>3. /\ cd \in Nat /\ ce \in Nat /\ cp \in Nat /\ sn \in Nat /\ sy \in Nat /\ rm \in Nat /\ sm \in Nat
          /\ ce + sn = cd + sy /\ cp + sy = ce + rm /\ ct = cp + sm /\ rx = rm + sm
      BY <1>2, <2>0, <2>3, <3>1, <3>2, Zenon
    <3>4. ct + sn = cd + rx
      <4> HIDE DEF cd, ce, cp, ct, sn, sy, rm, sm, rx
      <4> QED
        BY <3>3
    <3> QED
      BY <3>4
  <2> QED
    BY <1>2, <2>3, <2>4, Zenon
<1>7. Changes(db, n, l, r)
  <2>1. DOMAIN db \subseteq DOMAIN t.db
    BY <1>1, <1>2
  <2>2. Balanced(db, n, r)
    BY <1>3, <1>6, Zenon DEF Balanced
  <2> QED
    BY <1>2, <1>3, <1>4, <2>1, <2>2, Zenon DEF Changes
<1>8. n.kind # "branch" /\ r.b # Null
  BY <1>3, NullNotOthers
<1>9. \A x \in Seq(Nibbles) : Find(r.b, x) = IF x = a \o q THEN v ELSE Find(n, x)
  BY <1>3, <1>5
<1> QED
  BY <1>7, <1>8, <1>9, Zenon DEF Merged

\* branch, on any pair.
LEMMA SplitPair ==
    ASSUME NEW db, Store(db), NEW l, l > 0, NEW n, Trie(n, l, DOMAIN db), n.kind = "pair"
    PROVE  \E c, w : Split(db, n, l, n.key, c, w, Branch(db, n))
<1>0. l \in Nat /\ (n = Null \/ AsLeaf(n, l) \/ AsExt(n, l, DOMAIN db) \/ AsBra(n, l, DOMAIN db))
  BY TrieCases
<1>1. n # Null
  BY Fields
<1>2. ~AsBra(n, l, DOMAIN db)
  BY NullNotOthers DEF AsBra
<1>3. CASE AsLeaf(n, l)
  <2>1. PICK k \in Seq(Nibbles), v \in Values : Len(k) <= l /\ n = Leaf(k, v)
    BY <1>3, Zenon DEF AsLeaf
  <2>2. n.key = k
    BY <2>1, Fields
  <2>3. CASE k = <<>>
    BY <1>0, <2>1, <2>2, <2>3, SplitEnds, Zenon
  <2>4. CASE k # <<>>
    BY <1>0, <2>1, <2>2, <2>4, SplitLeaf, Zenon
  <2> QED
    BY <2>3, <2>4
<1>4. CASE AsExt(n, l, DOMAIN db)
  <2>ext. PICK k \in Seq(Nibbles) : \E m :
         /\ k # <<>> /\ Len(k) <= l /\ Trie(m, l - Len(k), DOMAIN db)
         /\ m.kind = "branch" /\ Kept(m, DOMAIN db) /\ n = Ext(k, m)
    BY <1>4, Zenon DEF AsExt
  <2>1. PICK m :
         /\ k # <<>> /\ Len(k) <= l /\ Trie(m, l - Len(k), DOMAIN db)
         /\ m.kind = "branch" /\ Kept(m, DOMAIN db) /\ n = Ext(k, m)
    BY <2>ext, Zenon
  <2>2. n.key = k
    BY <2>1, Fields DEF Ext
  <2> QED
    BY <1>0, <2>1, <2>2, SplitExt, Zenon
<1> QED
  BY <1>0, <1>1, <1>2, <1>3, <1>4

\* A pair's fields, and when nothing follows it.
LEMMA PairIs ==
    ASSUME NEW n, NEW l, NEW D, Trie(n, l, D), n.kind = "pair"
    PROVE  /\ n.key \in Seq(Nibbles) /\ Len(n.key) <= l /\ l \in Nat
           /\ n.leaf \in BOOLEAN /\ (~n.leaf => n.key # <<>>)
<1>0. l \in Nat /\ (n = Null \/ AsLeaf(n, l) \/ AsExt(n, l, D) \/ AsBra(n, l, D))
  BY TrieCases
<1>1. n # Null
  BY Fields
<1>2. ~AsBra(n, l, D)
  BY NullNotOthers DEF AsBra
<1>3. CASE AsLeaf(n, l)
  <2>1. PICK k \in Seq(Nibbles), v \in Values : Len(k) <= l /\ n = Leaf(k, v)
    BY <1>3, Zenon DEF AsLeaf
  <2>2. n.key = k /\ n.leaf = TRUE
    BY <2>1, Fields
  <2> QED
    BY <1>0, <2>1, <2>2
<1>4. CASE AsExt(n, l, D)
  <2>ext. PICK k \in Seq(Nibbles) : \E m : k # <<>> /\ Len(k) <= l /\ n = Ext(k, m)
    BY <1>4, Zenon DEF AsExt
  <2>1. PICK m : k # <<>> /\ Len(k) <= l /\ n = Ext(k, m)
    BY <2>ext, Zenon
  <2>2. n.key = k /\ n.leaf = FALSE
    BY <2>1, Fields DEF Ext
  <2> QED
    BY <1>0, <2>1, <2>2
<1> QED
  BY <1>0, <1>1, <1>2, <1>3, <1>4

\* A key at a pair that it does not go on below.
Parts(n, k) == n.kind = "pair" /\ ~Follows(n, k) /\ ~(n.leaf /\ k = n.key)

\* Put merges an entry that shares nothing with a pair.
LEMMA PutBeside ==
    ASSUME NEW db, Store(db), NEW l, NEW n, Trie(n, l, DOMAIN db),
           NEW k \in Seq(Nibbles), Len(k) <= l, NEW v \in Values, Parts(n, k),
           Shared(k, n.key) = 0
    PROVE  Merged(db, n, l, k, v, PutInBranch(Branch(db, n), k, v))
<1> DEFINE j == n.key
<1>0. n.kind = "pair" /\ ~(n.leaf /\ k = n.key)
  BY DEF Parts
<1>1. j \in Seq(Nibbles) /\ Len(j) <= l /\ l \in Nat /\ n.leaf \in BOOLEAN /\ (~n.leaf => j # <<>>)
  BY <1>0, PairIs
<1>2. Mid(k, 0) # <<>> /\ Mid(j, 0) # <<>> => Head(Mid(k, 0)) # Head(Mid(j, 0))
  <2>1. PartAt(Nibbles, k, j, Shared(k, j))
    BY <1>1, SharedEnds, Zenon
  <2>2. PartAt(Nibbles, k, j, 0)
    BY <2>1
  <2> HIDE DEF j
  <2> QED
    BY <2>2 DEF PartAt
<1>3. Mid(k, 0) = k /\ Mid(j, 0) = j
  BY <1>1, SubSeqFull DEF Mid
<1>4. IF j = <<>> THEN k # <<>> ELSE k = <<>> \/ Head(k) # Head(j)
  BY <1>0, <1>1, <1>2, <1>3
<1>5. l > 0
  <2>1. Len(j) \in Nat /\ Len(k) \in Nat
    BY <1>1
  <2>2. j # <<>> \/ k # <<>>
    BY <1>4
  <2>3. Len(j) # 0 \/ Len(k) # 0
    BY <1>1, <2>2, EmptyIs
  <2> QED
    BY <1>1, <2>1, <2>3
<1> DEFINE r == Branch(db, n)
<1>6. PICK c, w : Split(db, n, l, j, c, w, r)
  BY <1>0, <1>5, SplitPair, Zenon
<1> HIDE DEF r, j
<1>7. Merged(db, n, l, k, v, PutInBranch(r, k, v))
  BY <1>0, <1>1, <1>4, <1>5, <1>6, SplitPut
<1> QED
  BY <1>7 DEF r

\* What cleve makes.
LEMMA CleveIs ==
    ASSUME NEW db, NEW n, NEW s, NEW t, NEW y,
           t = StreamNode(Changed(Pair(Mid(n.key, s), n.leaf, n.item), KillNode(db, n))),
           t.slot = SlotFor(y)
    PROVE  Cleve(db, n, s) = Changed(Ext(SubSeq(n.key, 1, s), y), t.db)
BY DEF Cleve, Ext

\* What becomes of its bottom.
LEMMA PutBelowIs ==
    ASSUME NEW a, NEW y, NEW e, NEW q, NEW v, IsNode(y), Kept(y, DOMAIN e),
           NEW p, p = PutInBranch(Branch(e, y), q, v), IsNode(p.b), Store(p.db)
    PROVE  PutBelow(Changed(Ext(a, y), e), q, v) = Changed(Ext(a, p.b), StreamNode(p).db)
<1> DEFINE c == Changed(Ext(a, y), e)
<1>1. c.b.item = SlotFor(y) /\ c.b.key = a /\ c.db = e
  BY ChangedIs, Fields DEF Ext
<1> HIDE DEF c
<1>2. Deref(e, SlotFor(y)) = y
  BY DerefIs
<1>3. StreamNode(p).slot = SlotFor(p.b)
  BY StreamIs
<1>4. StreamNode(PutInBranch(Branch(c.db, Deref(c.db, c.b.item)), q, v)) = StreamNode(p)
  BY <1>1, <1>2
<1>5. PutBelow(c, q, v) = Changed(Extension(c.b.key, StreamNode(p).slot), StreamNode(p).db)
  BY <1>4 DEF PutBelow
<1> QED
  BY <1>1, <1>3, <1>5 DEF c, Ext

\* Put merges an entry that shares something with a pair.
LEMMA PutPast ==
    ASSUME NEW db, Store(db), NEW l, NEW n, Trie(n, l, DOMAIN db),
           NEW k \in Seq(Nibbles), Len(k) <= l, NEW v \in Values, Parts(n, k),
           NEW s, s = Shared(k, n.key), s > 0
    PROVE  Merged(db, n, l, k, v, PutBelow(Cleve(db, n, s), Mid(k, s), v))
<1> DEFINE j == n.key
           a == SubSeq(j, 1, s)
           b == Mid(j, s)
           q == Mid(k, s)
           y == Pair(b, n.leaf, n.item)
           t == StreamNode(Changed(y, KillNode(db, n)))
           e == t.db
           p == PutInBranch(Branch(e, y), q, v)
<1>0. n.kind = "pair" /\ ~(n.leaf /\ k = n.key) /\ ~Follows(n, k)
  BY DEF Parts
<1>1. j \in Seq(Nibbles) /\ Len(j) <= l /\ l \in Nat /\ n.leaf \in BOOLEAN /\ (~n.leaf => j # <<>>)
  BY <1>0, PairIs
<1>2. /\ s \in Nat /\ s <= Len(k) /\ s <= Len(j) /\ Len(k) \in Nat /\ Len(j) \in Nat
      /\ q \in Seq(Nibbles) /\ b \in Seq(Nibbles) /\ a \in Seq(Nibbles)
      /\ k = a \o q /\ j = a \o b
      /\ Len(a) = s /\ Len(q) = Len(k) - s /\ Len(b) = Len(j) - s
      /\ q # <<>> /\ b # <<>> => Head(q) # Head(b)
  <2>1. j \in Seq(Nibbles) /\ s = Shared(k, j)
    BY <1>1
  <2> HIDE DEF j
  <2>2. PartAt(Nibbles, k, j, s)
    BY <2>1, SharedEnds, Zenon
  <2> QED
    BY <2>2, Zenon DEF a, b, q, PartAt
<1>t. Cleve(db, n, s) = Changed(Extension(a, t.slot), e)
  BY DEF Cleve
<1>3. a # <<>>
  <2>1. Len(a) # 0
    BY <1>2
  <2> QED
    BY <1>2, <2>1, EmptyIs
<1>c. ~n.leaf => ~Contains(k, j)
  BY <1>0 DEF Follows
<1> HIDE DEF a, b, q
<1>d. b = <<>> => k = a \o q /\ j = a
  BY <1>2
<1>4. n.leaf \/ b # <<>>
  <2> SUFFICES ASSUME ~n.leaf, b = <<>> PROVE FALSE
    BY <1>1
  <2>1. Contains(k, j)
    BY <1>d, <1>2, ContainsMade
  <2> QED
    BY <1>c, <2>1
<1>5. IF b = <<>> THEN q # <<>> ELSE q = <<>> \/ Head(q) # Head(b)
  <2>1. CASE b = <<>>
    <3>1. q # <<>>
      BY <1>0, <1>2, <1>4, <1>d, <2>1
    <3> QED
      BY <2>1, <3>1
  <2>2. CASE b # <<>>
    BY <1>2, <2>2
  <2> QED
    BY <2>1, <2>2
<1>6. l - s \in Nat /\ l - s > 0 /\ Len(q) <= l - s /\ Len(a) <= l /\ l - Len(a) = l - s
  <2>1. b # <<>> \/ q # <<>>
    BY <1>5
  <2>2. Len(b) # 0 \/ Len(q) # 0
    BY <1>2, <2>1, EmptyIs
  <2>3. Len(k) - s # 0 \/ Len(j) - s # 0
    BY <1>2, <2>2
  <2>4. Len(a) = s /\ Len(q) = Len(k) - s
    BY <1>2
  <2>5. s \in Nat /\ Len(k) \in Nat /\ Len(j) \in Nat /\ s <= Len(k) /\ s <= Len(j) /\ Len(k) <= l /\ Len(j) <= l /\ l \in Nat
    BY <1>1, <1>2
  <2> QED
    BY <2>3, <2>4, <2>5
<1>7. /\ Trie(y, l - Len(a), DOMAIN db) /\ y.kind = "pair" /\ y.key = b
      /\ \A h : R(y, h) = R(n, h)
      /\ \A x \in Seq(Nibbles) : Find(n, a \o x) = Find(y, x)
      /\ \A x \in Seq(Nibbles) : ~Contains(x, a) => Find(n, x) = NoValue
  <2>1. n.kind = "pair" /\ a \in Seq(Nibbles) /\ b \in Seq(Nibbles) /\ n.key = a \o b
    BY <1>0, <1>2, Zenon
  <2> QED
    <3>1. CutAt(DOMAIN db, l, n, a, b, Pair(b, n.leaf, n.item))
      BY <2>1, <1>3, <1>4, CutPair, Zenon
    <3>2. CutAt(DOMAIN db, l, n, a, b, y)
      BY <3>1
    <3> HIDE DEF y, j
    <3> QED
      BY <3>2, Zenon DEF CutAt
<1> HIDE DEF y
<1>8. /\ t.slot = SlotFor(y) /\ Store(e) /\ DOMAIN db \subseteq DOMAIN e
      /\ Trie(y, l - Len(a), DOMAIN e) /\ Kept(y, DOMAIN e)
      /\ Books(db, n) => /\ Clean(e)
                         /\ \A h : Cnt(e, h) + S(n, h) = Cnt(db, h) + S(y, h)
  BY <1>7, StreamRest
<1>9. Cleve(db, n, s) = Changed(Ext(a, y), e)
  BY <1>t, <1>8, Zenon DEF Ext
<1> HIDE DEF t, e
<1>10. PICK c, w : Split(e, y, l - s, b, c, w, Branch(e, y))
  <2>1. Trie(y, l - s, DOMAIN e)
    BY <1>6, <1>8
  <2>2. \E c, w : Split(e, y, l - s, y.key, c, w, Branch(e, y))
    BY <1>6, <1>7, <1>8, <2>1, SplitPair
  <2> QED
    BY <1>7, <2>2, Zenon
<1>11. Merged(e, y, l - s, q, v, p) /\ p.b.kind = "branch"
  <2> DEFINE r == Branch(e, y)
  <2>1. Trie(y, l - s, DOMAIN e) /\ Split(e, y, l - s, b, c, w, r)
    BY <1>6, <1>8, <1>10
  <2> HIDE DEF r
  <2>2. Merged(e, y, l - s, q, v, PutInBranch(r, q, v)) /\ PutInBranch(r, q, v).b.kind = "branch"
    <3>1. Store(e) /\ y.kind = "pair" /\ b \in Seq(Nibbles) /\ q \in Seq(Nibbles)
      BY <1>2, <1>7, <1>8, Zenon
    <3>2. l - s \in Nat /\ l - s > 0 /\ Len(q) <= l - s
      BY <1>6, Zenon
    <3> QED
      BY <1>5, <2>1, <3>1, <3>2, SplitPut
  <2> QED
    BY <2>2 DEF r
<1>12. p = PutInBranch(Branch(e, y), q, v)
  OBVIOUS
<1> HIDE DEF p
<1>13. Trie(p.b, l - s, DOMAIN p.db) /\ Store(p.db)
  BY <1>11, Zenon DEF Merged, Changes
<1>14. IsNode(p.b) /\ IsNode(y)
  BY <1>13, <1>8, TrieIsNode, Zenon
<1>15. PutBelow(Changed(Ext(a, y), e), q, v) = Changed(Ext(a, p.b), StreamNode(p).db)
  BY <1>8, <1>12, <1>13, <1>14, PutBelowIs
<1> DEFINE z == Changed(Ext(a, p.b), StreamNode(p).db)
<1>16. z.b = Ext(a, p.b) /\ z.db = StreamNode(p).db
  BY ChangedIs
<1> HIDE DEF z
<1>17. Merged(db, n, l, a \o q, v, z)
  <2>1. Merged(e, y, l - Len(a), q, v, p)
    BY <1>6, <1>11
  <2> QED
    BY <1>0, <1>2, <1>3, <1>6, <1>7, <1>8, <1>11, <1>16, <2>1, ExtMerged
<1>18. PutBelow(Cleve(db, n, s), q, v) = z
  BY <1>9, <1>15 DEF z
<1>19. Merged(db, n, l, k, v, PutBelow(Cleve(db, n, s), q, v))
  BY <1>2, <1>17, <1>18
<1> QED
  BY <1>19 DEF q

\* mergeAt where nothing goes on.
LEMMA PutIs ==
    ASSUME NEW c, NEW db, db = c.db, Store(db), NEW l, NEW n, n = NodeOf(c), Trie(n, l, DOMAIN db),
           NEW k \in Seq(Nibbles), k = c.key, Len(k) <= l, NEW v \in Values, ~Follows(n, k)
    PROVE  Merged(db, n, l, k, v, Put(c, v))
<1>0. l \in Nat /\ (n = Null \/ AsLeaf(n, l) \/ AsExt(n, l, DOMAIN db) \/ AsBra(n, l, DOMAIN db))
  BY TrieCases
<1> DEFINE p == Put(c, v)
<1>1. n.kind # "pair" \/ (n.leaf /\ k = n.key) => p = Place(db, n, k, v)
  BY DEF Put
<1>2. ASSUME Parts(n, k), Shared(k, n.key) > 0
      PROVE  p = PutBelow(Cleve(db, n, Shared(k, n.key)), Mid(k, Shared(k, n.key)), v)
  BY <1>2 DEF Put, Parts
<1>3. ASSUME Parts(n, k), ~(Shared(k, n.key) > 0)
      PROVE  p = PutInBranch(Branch(db, n), k, v)
  BY <1>3 DEF Put, Parts
<1> HIDE DEF p
<1>4. CASE n = Null
  <2>1. n.kind # "pair"
    BY <1>4, NullNotOthers
  <2> QED
    BY <1>0, <1>1, <1>4, <2>1, PlaceNull DEF p
<1>5. CASE AsBra(n, l, DOMAIN db)
  <2>1. PICK d, u : /\ l > 0 /\ u \in Values \cup {NoValue}
                    /\ \A i \in Nibbles : Trie(d[i], l - 1, DOMAIN db) /\ Kept(d[i], DOMAIN db)
                    /\ n = Bra(d, u) /\ TwoInUse(n)
    BY <1>5, Zenon DEF AsBra
  <2>2. n.kind = "branch"
    BY <2>1, NullNotOthers
  <2>3. k = <<>>
    BY <2>2 DEF Follows
  <2>4. Merged(db, n, l, <<>>, v, Place(db, n, <<>>, v))
    BY <1>0, <2>1, PlaceBra
  <2> QED
    BY <1>1, <2>2, <2>3, <2>4 DEF p
<1>6. CASE AsLeaf(n, l) /\ k = n.key
  <2>1. PICK j \in Seq(Nibbles), u \in Values : Len(j) <= l /\ n = Leaf(j, u)
    BY <1>6, Zenon DEF AsLeaf
  <2>2. n.key = j /\ n.leaf = TRUE
    BY <2>1, Fields
  <2>3. Merged(db, n, l, k, v, Place(db, n, k, v))
    BY <1>0, <1>6, <2>1, <2>2, PlaceLeaf
  <2> QED
    BY <1>1, <1>6, <2>2, <2>3 DEF p
<1>7. CASE (AsLeaf(n, l) /\ k # n.key) \/ AsExt(n, l, DOMAIN db)
  <2>1. Parts(n, k)
    <3>1. CASE AsLeaf(n, l) /\ k # n.key
      <4>1. n.kind = "pair"
        BY <3>1, NullNotOthers DEF AsLeaf
      <4> QED
        BY <3>1, <4>1 DEF Parts
    <3>2. CASE AsExt(n, l, DOMAIN db)
      <4>1. n.kind = "pair" /\ ~n.leaf
        BY <3>2, NullNotOthers DEF AsExt
      <4> QED
        BY <4>1 DEF Parts
    <3> QED
      BY <1>7, <3>1, <3>2
  <2>2. n.key \in Seq(Nibbles)
    BY <2>1, PairIs DEF Parts
  <2>3. Shared(k, n.key) \in Nat
    BY <2>2, SharedEnds, Zenon DEF PartAt
  <2>4. CASE Shared(k, n.key) > 0
    <3>1. p = PutBelow(Cleve(db, n, Shared(k, n.key)), Mid(k, Shared(k, n.key)), v)
      BY <1>2, <2>1, <2>4
    <3>2. Merged(db, n, l, k, v, PutBelow(Cleve(db, n, Shared(k, n.key)), Mid(k, Shared(k, n.key)), v))
      BY <2>1, <2>4, PutPast
    <3> QED
      BY <3>1, <3>2 DEF p
  <2>5. CASE ~(Shared(k, n.key) > 0)
    <3>0. Shared(k, n.key) = 0
      BY <2>3, <2>5
    <3>1. p = PutInBranch(Branch(db, n), k, v)
      BY <1>3, <2>1, <2>5
    <3>2. Merged(db, n, l, k, v, PutInBranch(Branch(db, n), k, v))
      BY <2>1, <3>0, PutBeside
    <3> QED
      BY <3>1, <3>2 DEF p
  <2> QED
    BY <2>4, <2>5
<1> QED
  BY <1>0, <1>4, <1>5, <1>6, <1>7

-----------------------------------------------------------------------------
(* Insertion: what becomes of a node when its child was changed. *)

\* The counts after killNode of a node whose references are all there.
LEMMA KillCounts ==
    ASSUME NEW db, Store(db), NEW n, NEW l, NEW D, Trie(n, l, D), Books(db, n),
           NEW e, e = KillNode(db, n)
    PROVE  /\ Clean(e) /\ \A h : Cnt(e, h) + Self(n, h) = Cnt(db, h)
           /\ \A h : Cnt(e, h) \in Nat /\ Cnt(e, h) >= R(n, h)
<1>1. Clean(db) /\ \A h : Cnt(db, h) >= S(n, h)
  BY Zenon DEF Books
<1>2. \A h : S(n, h) = R(n, h) + Self(n, h) /\ R(n, h) \in Nat
  BY SpotsFinite
<1>3. \A h : Self(n, h) \in Nat /\ Cnt(db, h) \in Nat
  BY OneNat, CntNat
<1>4. Cnt(db, n) >= Self(n, n)
  BY <1>1, <1>2, <1>3
<1>5. Clean(e) /\ \A h : Cnt(e, h) + Self(n, h) = Cnt(db, h)
  BY <1>1, <1>4, KillNodeIs
<1>6. \A h : Cnt(e, h) \in Nat
  BY KillNodeIs, CntNat
<1>7. ASSUME NEW h PROVE Cnt(e, h) >= R(n, h)
  <2>1. /\ Cnt(e, h) \in Nat /\ Self(n, h) \in Nat /\ R(n, h) \in Nat
        /\ S(n, h) = R(n, h) + Self(n, h) /\ Cnt(db, h) >= S(n, h)
        /\ Cnt(e, h) + Self(n, h) = Cnt(db, h)
    BY <1>1, <1>2, <1>3, <1>5, <1>6, Zenon
  <2> QED
    BY <2>1
<1> QED
  BY <1>5, <1>6, <1>7, Zenon

\* An entry merged into a child is merged into the branch.
LEMMA BraMerged ==
    ASSUME NEW db, Store(db), NEW l \in Nat, l > 0, NEW c,
           \A i \in Nibbles : Trie(c[i], l - 1, DOMAIN db) /\ Kept(c[i], DOMAIN db),
           NEW u \in Values \cup {NoValue}, NEW n, n = Bra(c, u), TwoInUse(n),
           NEW k \in Seq(Nibbles), k # <<>>, NEW v, NEW e, e = KillNode(db, n), NEW p,
           Merged(e, c[Head(k)], l - 1, Tail(k), v, p),
           NEW r, r.b = Bra(With(c, Head(k), p.b), u), r.db = StreamNode(p).db
    PROVE  Merged(db, n, l, k, v, r)
<1> DEFINE i == Head(k)
           t == StreamNode(p)
           m == p.b
           d == With(c, i, m)
<1>0. i \in Nibbles /\ Tail(k) \in Seq(Nibbles)
  BY HeadAndTail
<1>1. /\ Store(p.db) /\ DOMAIN e \subseteq DOMAIN p.db
      /\ Trie(m, l - 1, DOMAIN p.db) /\ Balanced(e, c[i], p) /\ m # Null
      /\ \A x \in Seq(Nibbles) : Find(m, x) = IF x = Tail(k) THEN v ELSE Find(c[i], x)
  BY DEF Merged, Changes
<1>2. /\ Store(t.db) /\ DOMAIN p.db \subseteq DOMAIN t.db
      /\ Trie(m, l - 1, DOMAIN t.db) /\ Kept(m, DOMAIN t.db)
      /\ \A h : Cnt(t.db, h) = Cnt(p.db, h) + Self(m, h)
      /\ Clean(p.db) => Clean(t.db)
  BY <1>1, StreamTrie
<1>3. d[i] = m /\ \A x \in Nibbles : x # i => c[x] = d[x]
  BY <1>0 DEF With
<1>4. r.b = Bra(d, u) /\ r.db = t.db
  OBVIOUS
<1> HIDE DEF t, d
<1>5. Store(e) /\ DOMAIN e = DOMAIN db
  BY KillNodeIs
<1>6. DOMAIN db \subseteq DOMAIN t.db
  BY <1>1, <1>2, <1>5
<1>x. \A x \in Nibbles : Trie(c[x], l - 1, DOMAIN t.db) /\ Kept(c[x], DOMAIN t.db)
  <2>1. ASSUME NEW x \in Nibbles PROVE Trie(c[x], l - 1, DOMAIN t.db) /\ Kept(c[x], DOMAIN t.db)
    <3>1. Trie(c[x], l - 1, DOMAIN t.db)
      BY <1>6, MoreKept
    <3>2. Kept(c[x], DOMAIN t.db)
      BY <1>6 DEF Kept
    <3> QED
      BY <3>1, <3>2
  <2> QED
    BY <2>1
<1> HIDE DEF m
<1>7. ASSUME NEW x \in Nibbles PROVE Trie(d[x], l - 1, DOMAIN t.db) /\ Kept(d[x], DOMAIN t.db)
  <2>1. CASE x = i
    BY <1>2, <1>3, <2>1
  <2>2. CASE x # i
    BY <1>3, <1>x, <2>2
  <2> QED
    BY <2>1, <2>2
<1>8. (\A x \in Nibbles : IsNode(c[x])) /\ \A x \in Nibbles : IsNode(d[x])
  BY <1>x, <1>7, TrieIsNode, Zenon
<1>9. TwoInUse(Bra(d, u))
  <2>1. ASSUME NEW x, x \in InUse(Bra(c, u)) PROVE x \in InUse(Bra(d, u))
    <3>1. x \in Nibbles \/ x = ValueSlot
      BY <1>8, <2>1, InUseBra
    <3>2. CASE x \in Nibbles
      <4>1. c[x] # Null
        BY <1>8, <2>1, <3>2, InUseBra
      <4>2. d[x] # Null
        BY <1>1, <1>3, <3>2, <4>1 DEF m
      <4> QED
        BY <1>8, <3>2, <4>2, InUseBra
    <3>3. CASE x = ValueSlot
      BY <1>8, <2>1, <3>3, InUseBra
    <3> QED
      BY <3>1, <3>2, <3>3
  <2> QED
    BY <2>1, Zenon DEF TwoInUse
<1>10. Trie(Bra(d, u), l, DOMAIN t.db)
  BY <1>7, <1>9, BraTrie
<1>11. ASSUME NEW x \in Seq(Nibbles) PROVE Find(Bra(d, u), x) = IF x = k THEN v ELSE Find(n, x)
  <2>1. Find(Bra(d, u), x) = IF x # <<>> /\ Head(x) = i THEN Find(m, Tail(x)) ELSE Find(Bra(c, u), x)
    BY <1>3, <1>8, FindSwap
  <2>2. x = k <=> x # <<>> /\ Head(x) = i /\ Tail(x) = Tail(k)
    BY SameKey DEF i
  <2>3. CASE x # <<>> /\ Head(x) = i
    <3>1. Tail(x) \in Seq(Nibbles)
      BY <2>3, HeadAndTail
    <3>2. Find(m, Tail(x)) = IF Tail(x) = Tail(k) THEN v ELSE Find(c[i], Tail(x))
      BY <1>1, <3>1 DEF m
    <3>3. Find(Bra(c, u), x) = Find(c[Head(x)], Tail(x))
      BY <1>8, <2>3, FindBra
    <3> QED
      BY <2>1, <2>2, <2>3, <3>2, <3>3
  <2>4. CASE ~(x # <<>> /\ Head(x) = i)
    BY <2>1, <2>2, <2>4
  <2> QED
    BY <2>3, <2>4
<1>12. ASSUME Books(db, n)
       PROVE  Clean(t.db) /\ \A h : Cnt(t.db, h) + S(n, h) = Cnt(db, h) + R(Bra(d, u), h)
  <2>0. Trie(n, l, DOMAIN db)
    BY BraTrie
  <2>1. /\ Clean(e) /\ \A h : Cnt(e, h) + Self(n, h) = Cnt(db, h)
        /\ \A h : Cnt(e, h) \in Nat /\ Cnt(e, h) >= R(n, h)
    BY <1>12, <2>0, KillCounts
  <2>2. Tries(c, l - 1, DOMAIN t.db) /\ Tries(d, l - 1, DOMAIN t.db)
    BY <1>x, <1>7 DEF Tries
  <2>3. \A h : /\ R(n, h) = S(c[i], h) + Rest(c, i, h)
               /\ S(c[i], h) \in Nat /\ Rest(c, i, h) \in Nat /\ R(n, h) \in Nat
    BY <1>0, <2>2, RBra
  <2>4. ASSUME NEW h PROVE Cnt(e, h) >= S(c[i], h)
    <3> DEFINE ce == Cnt(e, h)
               rn == R(n, h)
               sc == S(c[i], h)
               rs == Rest(c, i, h)
    <3>1. ce \in Nat /\ rn \in Nat /\ sc \in Nat /\ rs \in Nat /\ ce >= rn /\ rn = sc + rs
      BY <2>1, <2>3, Zenon
    <3>2. ce >= sc
      <4> HIDE DEF ce, rn, sc, rs
      <4> QED
        BY <3>1
    <3> QED
      BY <3>2
  <2>5. Books(e, c[i])
    BY <2>1, <2>4, Zenon DEF Books
  <2>6. Clean(p.db) /\ \A h : Cnt(p.db, h) + S(c[i], h) = Cnt(e, h) + R(m, h)
    BY <1>1, <2>5, Zenon DEF Balanced, m
  <2>7. \A h : R(Bra(c, u), h) + S(d[i], h) = R(Bra(d, u), h) + S(c[i], h)
    BY <1>0, <1>3, <2>2, RSwap
  <2>8. ASSUME NEW h PROVE Cnt(t.db, h) + S(n, h) = Cnt(db, h) + R(Bra(d, u), h)
    <3>1. S(m, h) = R(m, h) + Self(m, h) /\ R(m, h) \in Nat
      BY <1>1, SpotsFinite DEF m
    <3>2. S(n, h) = R(n, h) + Self(n, h)
      BY <2>0, SpotsFinite
    <3>3. R(Bra(d, u), h) \in Nat
      BY <1>0, <2>2, RBra
    <3>4. Self(m, h) \in Nat /\ Self(n, h) \in Nat /\ Cnt(p.db, h) \in Nat
      BY <1>1, OneNat, CntNat
    <3>5. R(n, h) + S(m, h) = R(Bra(d, u), h) + S(c[i], h)
      BY <1>3, <2>7
    <3> DEFINE cd == Cnt(db, h)
               ce == Cnt(e, h)
               cp == Cnt(p.db, h)
               ct == Cnt(t.db, h)
               sn == S(n, h)
               en == Self(n, h)
               rn == R(n, h)
               sc == S(c[i], h)
               sm == S(m, h)
               em == Self(m, h)
               rm == R(m, h)
               rx == R(Bra(d, u), h)
    <3>6. /\ ce \in Nat /\ cp \in Nat /\ en \in Nat /\ rn \in Nat /\ sc \in Nat /\ em \in Nat /\ rm \in Nat /\ rx \in Nat
          /\ sm = rm + em /\ sn = rn + en /\ ce + en = cd /\ cp + sc = ce + rm /\ ct = cp + em
          /\ rn + sm = rx + sc
      BY <1>2, <2>1, <2>3, <2>6, <3>1, <3>2, <3>3, <3>4, <3>5, Zenon
    <3>7. ct + sn = cd + rx
      <4> HIDE DEF cd, ce, cp, ct, sn, en, rn, sc, sm, em, rm, rx
      <4> QED
        BY <3>6
    <3> QED
      BY <3>7
  <2> QED
    BY <1>2, <2>6, <2>8, Zenon
<1>13. Changes(db, n, l, r)
  <2>1. Balanced(db, n, r)
    BY <1>4, <1>12, Zenon DEF Balanced
  <2> QED
    BY <1>2, <1>4, <1>6, <1>10, <2>1, Zenon DEF Changes
<1>14. r.b.kind = "branch" /\ r.b # Null
  BY <1>4, NullNotOthers
<1>15. \A x \in Seq(Nibbles) : Find(r.b, x) = IF x = k THEN v ELSE Find(n, x)
  BY <1>4, <1>11
<1> QED
  BY <1>13, <1>14, <1>15, Zenon DEF Merged

\* An entry merged below is merged above.
LEMMA MergeUp ==
    ASSUME NEW db, Store(db), NEW l, NEW n, Trie(n, l, DOMAIN db),
           NEW k \in Seq(Nibbles), Follows(n, k), NEW d \in Nat, Len(Ahead(n, k)) = Len(k) - d,
           NEW v, NEW e, e = KillNode(db, n), NEW p,
           Merged(e, Inner(Below(n, k)), l - d, Ahead(n, k), v, p),
           NEW r, r = Changed(WithBelow(n, k, StreamNode(p).slot), StreamNode(p).db)
    PROVE  Merged(db, n, l, k, v, r)
<1> DEFINE m == Inner(Below(n, k))
           q == Ahead(n, k)
<1>0. l \in Nat /\ (n = Null \/ AsLeaf(n, l) \/ AsExt(n, l, DOMAIN db) \/ AsBra(n, l, DOMAIN db))
  BY TrieCases
<1>1. n # Null /\ ~AsLeaf(n, l)
  BY FollowsNot DEF AsLeaf
<1>2. /\ Store(p.db) /\ Trie(p.b, l - d, DOMAIN p.db)
      /\ m.kind = "branch" => p.b.kind = "branch"
  BY DEF Merged, Changes
<1>3. StreamNode(p).slot = SlotFor(p.b)
  BY <1>2, StreamTrie
<1>4. r.b = WithBelow(n, k, SlotFor(p.b)) /\ r.db = StreamNode(p).db
  BY <1>3, ChangedIs
<1>5. CASE AsExt(n, l, DOMAIN db)
  <2>ext. PICK a \in Seq(Nibbles) : \E y :
         /\ a # <<>> /\ Len(a) <= l /\ Trie(y, l - Len(a), DOMAIN db)
         /\ y.kind = "branch" /\ Kept(y, DOMAIN db) /\ n = Ext(a, y)
    BY <1>5, Zenon DEF AsExt
  <2>1. PICK y :
         /\ a # <<>> /\ Len(a) <= l /\ Trie(y, l - Len(a), DOMAIN db)
         /\ y.kind = "branch" /\ Kept(y, DOMAIN db) /\ n = Ext(a, y)
    BY <2>ext, Zenon
  <2>2. PICK x \in Seq(Nibbles) : k = a \o x
    BY <2>1, ExtStops
  <2>3. IsNode(y)
    BY <2>1, TrieIsNode
  <2>4. m = y /\ q = x
    BY <2>1, <2>2, <2>3, ExtFollows
  <2>5. d = Len(a)
    <3>1. Len(k) = Len(a) + Len(x) /\ Len(a) \in Nat /\ Len(x) \in Nat
      BY <2>2, Concatenated
    <3>2. Len(x) = Len(k) - d
      BY <2>4
    <3> QED
      BY <3>1, <3>2
  <2>6. n.kind = "pair" /\ n.key = a
    BY <2>1, Fields DEF Ext
  <2>7. r.b = Ext(a, p.b)
    BY <1>4, <2>6 DEF WithBelow, Ext
  <2>8. p.b.kind = "branch"
    BY <1>2, <2>1, <2>4
  <2>9. \A z \in Seq(Nibbles) : Find(n, a \o z) = Find(y, z)
    BY <2>1, FindExtIn
  <2>10. \A z \in Seq(Nibbles) : ~Contains(z, a) => Find(n, z) = NoValue
    BY <2>1, FindExtOut
  <2>11. Store(e) /\ DOMAIN e = DOMAIN db
    BY KillNodeIs
  <2>12. Books(db, n) => /\ Clean(e)
                         /\ \A h : Cnt(e, h) + S(n, h) = Cnt(db, h) + S(y, h)
    <3> SUFFICES ASSUME Books(db, n)
                 PROVE  Clean(e) /\ \A h : Cnt(e, h) + S(n, h) = Cnt(db, h) + S(y, h)
      OBVIOUS
    <3>1. Clean(e) /\ \A h : Cnt(e, h) + Self(n, h) = Cnt(db, h)
      BY KillCounts
    <3>2. \A h : R(n, h) = S(y, h)
      BY <2>1, RExt
    <3>3. ASSUME NEW h PROVE Cnt(e, h) + S(n, h) = Cnt(db, h) + S(y, h)
      <4>1. S(n, h) = R(n, h) + Self(n, h) /\ R(n, h) \in Nat
        BY SpotsFinite
      <4>2. Cnt(e, h) \in Nat /\ Self(n, h) \in Nat
        BY <2>11, CntNat, OneNat
      <4> DEFINE ce == Cnt(e, h)
                 cd == Cnt(db, h)
                 sn == S(n, h)
                 sy == S(y, h)
                 en == Self(n, h)
                 rn == R(n, h)
      <4>3. sn = rn + en /\ rn \in Nat /\ ce \in Nat /\ en \in Nat /\ ce + en = cd /\ rn = sy
        BY <3>1, <3>2, <4>1, <4>2, Zenon
      <4>4. ce + sn = cd + sy
        <5> HIDE DEF ce, cd, sn, sy, en, rn
        <5> QED
          BY <4>3
      <4> QED
        BY <4>4
    <3> QED
      BY <3>1, <3>3
  <2>13. Merged(e, y, l - Len(a), x, v, p)
    BY <2>4, <2>5
  <2>14. Merged(db, n, l, a \o x, v, r)
    <3> HIDE DEF m, q
    <3>1. Trie(y, l - Len(a), DOMAIN e) /\ DOMAIN db \subseteq DOMAIN e
      BY <2>1, <2>11
    <3> QED
      BY <1>4, <2>1, <2>6, <2>7, <2>8, <2>9, <2>10, <2>11, <2>12, <2>13, <3>1, ExtMerged
  <2> QED
    BY <2>2, <2>14
<1>6. CASE AsBra(n, l, DOMAIN db)
  <2>1. PICK c, u : /\ l > 0 /\ u \in Values \cup {NoValue}
                    /\ \A i \in Nibbles : Trie(c[i], l - 1, DOMAIN db) /\ Kept(c[i], DOMAIN db)
                    /\ n = Bra(c, u) /\ TwoInUse(n)
    BY <1>6, Zenon DEF AsBra
  <2>2. \A i \in Nibbles : IsNode(c[i])
    BY <2>1, TrieIsNode, Zenon
  <2>3. k # <<>>
    BY <2>1, <2>2, FollowsBra
  <2>4. m = c[Head(k)] /\ q = Tail(k) /\ Head(k) \in Nibbles
    BY <2>1, <2>2, <2>3, FollowsBra, HeadAndTail
  <2>5. d = 1
    <3>1. Len(Tail(k)) = Len(k) - 1 /\ Len(k) \in Nat
      BY <2>3, HeadAndTail
    <3>2. Len(Tail(k)) = Len(k) - d
      BY <2>4
    <3> QED
      BY <3>1, <3>2
  <2>6. n.kind = "branch"
    BY <2>1, NullNotOthers
  <2>7. r.b = Bra(With(c, Head(k), p.b), u)
    <3>1. WithBelow(n, k, SlotFor(p.b)) = BranchNode([n.child EXCEPT ![Head(k)] = SlotFor(p.b)], n.value)
      BY <2>6 DEF WithBelow
    <3>2. n.value = u
      BY <2>1, BraValue
    <3>3. BranchNode([Bra(c, u).child EXCEPT ![Head(k)] = SlotFor(p.b)], u) = Bra(With(c, Head(k), p.b), u)
      BY <2>4, WithMade
    <3> QED
      BY <1>4, <2>1, <3>1, <3>2, <3>3
  <2>8. Merged(e, c[Head(k)], l - 1, Tail(k), v, p)
    BY <2>4, <2>5
  <2> QED
    <3> HIDE DEF m, q
    <3> QED
      BY <1>0, <1>4, <2>1, <2>3, <2>7, <2>8, BraMerged
<1> QED
  BY <1>0, <1>1, <1>5, <1>6

-----------------------------------------------------------------------------
(* The calls on the way down a trie. *)

Downward(call, c, kills) ==
    call[0] = c /\ \A m \in Nat : call[m + 1] = NextCall(call[m], kills)

\* The recursive function Calls exists.
LEMMA CallsAre ==
    ASSUME NEW db, NEW rt, NEW k, NEW kills
    PROVE  Downward(Calls(db, rt, k, kills), Call(db, HashOf(rt), k), kills)
<1> DEFINE A(m) == Call(db, HashOf(rt), k)
           G(m, u) == NextCall(u, kills)
           Eq(f) == f = [m \in Nat |-> IF m = 0 THEN A(m) ELSE G(m, f[m - 1])]
           Up(f, a) == f[0] = A(0) /\ \A m \in 0 .. (a - 1) : f[m + 1] = G(m + 1, f[m])
           w == CHOOSE f : Eq(f)
           Of(a) == CHOOSE f : Up(f, a)
           all == [a \in Nat |-> Of(a)[a]]
<1>1. Calls(db, rt, k, kills) = w
  BY Zenon DEF Calls
<1> HIDE DEF A, G
<1>2. ASSUME NEW a \in Nat PROVE \E f : Up(f, a)
  <2> DEFINE Exists == {b \in Nat : \E f : Up(f, b)}
  <2>1. 0 \in Exists
    <3>1. Up([m \in Nat |-> A(0)], 0)
      OBVIOUS
    <3> QED
      BY <3>1
  <2>2. ASSUME NEW b \in Nat, b \in Exists PROVE b + 1 \in Exists
    <3>1. PICK f : Up(f, b)
      BY <2>2
    <3> DEFINE h == [m \in Nat |-> IF m <= b THEN f[m] ELSE G(b + 1, f[b])]
    <3>2. h[0] = A(0)
      BY <3>1
    <3>3. ASSUME NEW m \in 0 .. b PROVE h[m + 1] = G(m + 1, h[m])
      <4>1. h[m] = f[m] /\ m + 1 \in Nat
        OBVIOUS
      <4>2. CASE m = b
        <5>1. h[m + 1] = G(b + 1, f[b])
          BY <4>1, <4>2
        <5> QED
          BY <5>1, <4>1, <4>2
      <4>3. CASE m < b
        <5>1. h[m + 1] = f[m + 1] /\ m \in 0 .. (b - 1)
          BY <4>3
        <5> QED
          BY <5>1, <4>1, <3>1
      <4> QED
        BY <4>2, <4>3
    <3>4. 0 .. ((b + 1) - 1) = 0 .. b
      OBVIOUS
    <3> HIDE DEF h
    <3>5. Up(h, b + 1)
      BY <3>2, <3>3, <3>4
    <3> QED
      BY <3>5
  <2> HIDE DEF Exists
  <2>3. a \in Exists
    BY <2>1, <2>2, SetInduction
  <2> QED
    BY <2>3 DEF Exists
<1>3. ASSUME NEW a \in Nat PROVE Up(Of(a), a)
  <2> HIDE DEF Up
  <2> QED
    BY <1>2, Zenon
<1> HIDE DEF Of
<1>4. ASSUME NEW a \in Nat PROVE Of(a + 1)[a] = Of(a)[a]
  <2> DEFINE Same == {b \in Nat : b <= a => Of(a + 1)[b] = Of(a)[b]}
  <2>1. 0 \in Same
    BY <1>3
  <2>2. ASSUME NEW b \in Nat, b \in Same PROVE b + 1 \in Same
    <3> SUFFICES ASSUME b + 1 <= a PROVE Of(a + 1)[b + 1] = Of(a)[b + 1]
      OBVIOUS
    <3>1. b \in 0 .. (a - 1) /\ b \in 0 .. ((a + 1) - 1) /\ a + 1 \in Nat
      OBVIOUS
    <3>2. Of(a + 1)[b + 1] = G(b + 1, Of(a + 1)[b]) /\ Of(a)[b + 1] = G(b + 1, Of(a)[b])
      BY <1>3, <3>1, Zenon
    <3> QED
      BY <2>2, <3>2
  <2> HIDE DEF Same
  <2>3. a \in Same
    BY <2>1, <2>2, SetInduction
  <2> QED
    BY <2>3 DEF Same
<1>5. all[0] = A(0)
  BY <1>3
<1>6. ASSUME NEW a \in Nat PROVE all[a + 1] = G(a + 1, all[a])
  <2>1. a + 1 \in Nat /\ a \in 0 .. ((a + 1) - 1)
    OBVIOUS
  <2>2. Of(a + 1)[a + 1] = G(a + 1, Of(a + 1)[a])
    BY <1>3, <2>1, Zenon
  <2> QED
    BY <1>4, <2>1, <2>2
<1>7. ASSUME NEW m \in Nat PROVE all[m] = IF m = 0 THEN A(m) ELSE G(m, all[m - 1])
  <2>1. CASE m = 0
    BY <1>5, <2>1
  <2>2. CASE m # 0
    <3>1. m - 1 \in Nat /\ (m - 1) + 1 = m
      BY <2>2
    <3>2. all[(m - 1) + 1] = G((m - 1) + 1, all[m - 1])
      BY <1>6, <3>1, Zenon
    <3> HIDE DEF all
    <3> QED
      BY <2>2, <3>1, <3>2
  <2> QED
    BY <2>1, <2>2
<1>8. Eq(all)
  <2>1. all = [a \in Nat |-> all[a]]
    OBVIOUS
  <2> HIDE DEF all
  <2> QED
    BY <1>7, <2>1
<1>9. Eq(w)
  <2> HIDE DEF Eq, all
  <2> QED
    BY <1>8, Zenon
<1> HIDE DEF w
<1>10. w[0] = A(0) /\ \A m \in Nat : w[m + 1] = G(m + 1, w[m])
  <2>1. \A m \in Nat : m + 1 \in Nat /\ m + 1 # 0 /\ (m + 1) - 1 = m
    OBVIOUS
  <2> QED
    BY <1>9, <2>1
<1> QED
  BY <1>1, <1>10 DEF A, G, Downward

\* The parts of a call.
LEMMA CallIs ==
    ASSUME NEW db, NEW s, NEW k
    PROVE  Call(db, s, k).db = db /\ Call(db, s, k).slot = s /\ Call(db, s, k).key = k
BY DEF Call

\* A call at a node, a trie for what is ahead, that is in the store.
CallAt(c, n, l) ==
    /\ Store(c.db) /\ Trie(n, l, DOMAIN c.db) /\ NodeOf(c) = n /\ Kept(n, DOMAIN c.db)
    /\ c.key \in Seq(Nibbles) /\ Len(c.key) <= l
    /\ c.slot = HashOf(n) \/ c.slot = SlotFor(n)

\* The first call is at the root.
LEMMA CallAtRoot ==
    ASSUME NEW db, Store(db), NEW rt \in DOMAIN db, NEW l, Trie(rt, l, DOMAIN db),
           NEW k \in Seq(Nibbles), Len(k) <= l
    PROVE  CallAt(Call(db, HashOf(rt), k), rt, l)
<1> DEFINE c == Call(db, HashOf(rt), k)
<1>1. c.db = db /\ c.slot = HashOf(rt) /\ c.key = k
  BY CallIs
<1> HIDE DEF c
<1>2. HashOf(rt).kind = "hash" /\ HashOf(rt).node = rt
  BY Fields, Zenon
<1>3. NodeOf(c) = rt
  BY <1>1, <1>2 DEF NodeOf, Deref, DbLookup
<1>4. Kept(rt, DOMAIN db)
  BY DEF Kept
<1>5. CallAt(c, rt, l)
  BY <1>1, <1>3, <1>4 DEF CallAt
<1> QED
  BY <1>5 DEF c

\* A call below.
LEMMA NextCallGoes ==
    ASSUME NEW c, NEW n, NEW l, CallAt(c, n, l), Follows(n, c.key), NEW kills
    PROVE  /\ NextCall(c, kills).db = IF kills THEN KillNode(c.db, n) ELSE c.db
           /\ NextCall(c, kills).slot = Below(n, c.key)
           /\ NextCall(c, kills).key = Ahead(n, c.key)
<1>1. NodeOf(c) = n /\ IsNode(n) /\ (c.slot = HashOf(n) \/ c.slot = SlotFor(n))
  BY TrieIsNode DEF CallAt
<1>2. GoesOn(c)
  BY <1>1 DEF GoesOn
<1>3. (IF kills /\ c.slot.kind = "hash" THEN KillNode(c.db, n) ELSE c.db)
          = IF kills THEN KillNode(c.db, n) ELSE c.db
  <2>1. CASE c.slot.kind = "hash"
    BY <2>1
  <2>2. CASE c.slot.kind # "hash"
    <3>1. HashOf(n).kind = "hash"
      BY Fields, Zenon
    <3>2. c.slot = SlotFor(n)
      BY <1>1, <2>2, <3>1
    <3>3. Fits(n)
      BY <1>1, <2>2, <3>2, Slots
    <3>4. KillNode(c.db, n) = c.db
      BY <3>3 DEF KillNode
    <3> QED
      BY <2>2, <3>4
  <2> QED
    BY <2>1, <2>2
<1> DEFINE e == IF kills /\ c.slot.kind = "hash" THEN KillNode(c.db, n) ELSE c.db
<1>4. NextCall(c, kills) = Call(e, Below(n, c.key), Ahead(n, c.key))
  BY <1>1, <1>2, Zenon DEF NextCall
<1>5. e = IF kills THEN KillNode(c.db, n) ELSE c.db
  BY <1>3
<1> HIDE DEF e
<1> QED
  BY <1>4, <1>5, CallIs

\* A call where nothing goes on is the last.
LEMMA NextCallStays ==
    ASSUME NEW c, NEW n, NodeOf(c) = n, ~Follows(n, c.key), NEW kills
    PROVE  NextCall(c, kills) = c /\ ~GoesOn(c)
BY DEF NextCall, GoesOn

\* A call below is at a stored trie, with less of the key ahead.
LEMMA NextCallAt ==
    ASSUME NEW c, NEW n, NEW l, CallAt(c, n, l), Follows(n, c.key), NEW kills
    PROVE  \E d \in 1 .. l :
              /\ CallAt(NextCall(c, kills), Inner(Below(n, c.key)), l - d)
              /\ Len(NextCall(c, kills).key) = Len(c.key) - d
              /\ NextCall(c, kills).slot = SlotFor(Inner(Below(n, c.key)))
<1> DEFINE x == NextCall(c, kills)
           k == c.key
           m == Inner(Below(n, k))
<1>0. /\ Store(c.db) /\ Trie(n, l, DOMAIN c.db) /\ NodeOf(c) = n
      /\ c.key \in Seq(Nibbles) /\ Len(c.key) <= l /\ l \in Nat
  BY TrieIs DEF CallAt
<1>1. /\ x.db = IF kills THEN KillNode(c.db, n) ELSE c.db
      /\ x.slot = Below(n, k) /\ x.key = Ahead(n, k)
  BY NextCallGoes
<1>2. PICK d \in 1 .. l :
              /\ Trie(m, l - d, DOMAIN c.db)
              /\ Kept(m, DOMAIN c.db)
              /\ Below(n, k) = SlotFor(m)
              /\ Ahead(n, k) \in Seq(Nibbles)
              /\ Len(Ahead(n, k)) = Len(k) - d
  <2>1. k \in Seq(Nibbles) /\ Follows(n, k) /\ Trie(n, l, DOMAIN c.db)
    BY <1>0
  <2> HIDE DEF k
  <2> QED
    BY <2>1, FollowDown
<1>3. Store(x.db) /\ DOMAIN x.db = DOMAIN c.db
  <2>1. Store(KillNode(c.db, n)) /\ DOMAIN KillNode(c.db, n) = DOMAIN c.db
    BY <1>0, KillNodeIs
  <2>2. x.db = KillNode(c.db, n) \/ x.db = c.db
    BY <1>1
  <2> HIDE DEF x
  <2> QED
    BY <1>0, <2>1, <2>2
<1>4. IsNode(m)
  BY <1>2, TrieIsNode, Zenon
<1> HIDE DEF x
<1>5. x.slot = SlotFor(m)
  BY <1>1, <1>2
<1>6. NodeOf(x) = m
  BY <1>2, <1>3, <1>4, <1>5, DerefIs DEF NodeOf
<1>7. Len(x.key) = Len(k) - d /\ x.key \in Seq(Nibbles)
  BY <1>1, <1>2
<1>8. Len(x.key) <= l - d
  BY <1>0, <1>7
<1>9. CallAt(x, m, l - d)
  BY <1>2, <1>3, <1>5, <1>6, <1>7, <1>8, Zenon DEF CallAt
<1> QED
  BY <1>5, <1>7, <1>9 DEF x

\* The call of index m, and what the search meets after m steps.
Met(c, db, rt, k, m) ==
    /\ c.db = db /\ Steps(rt, k)[m] = <<NodeOf(c), c.key>>
    /\ \E l : CallAt(c, NodeOf(c), l)
    /\ c.slot = SlotFor(NodeOf(c)) \/ c = Call(db, HashOf(rt), k)
    /\ ~GoesOn(c) \/ Len(c.key) + m <= Len(k)

\* Without kills the calls follow the search for the key.
LEMMA CallsMet ==
    ASSUME NEW db, Store(db), NEW rt \in DOMAIN db, NEW l, Trie(rt, l, DOMAIN db),
           NEW k \in Seq(Nibbles), Len(k) <= l
    PROVE  \A m \in Nat : Met(Calls(db, rt, k, FALSE)[m], db, rt, k, m)
<1> DEFINE call == Calls(db, rt, k, FALSE)
           Good == {m \in Nat : Met(call[m], db, rt, k, m)}
<1>0. call[0] = Call(db, HashOf(rt), k) /\ \A m \in Nat : call[m + 1] = NextCall(call[m], FALSE)
  <2>1. Downward(call, Call(db, HashOf(rt), k), FALSE)
    BY CallsAre
  <2> HIDE DEF call
  <2> QED
    BY <2>1 DEF Downward
<1>1. Steps(rt, k)[0] = <<rt, k>> /\ \A m \in Nat : Steps(rt, k)[m + 1] = StepTo(Steps(rt, k)[m])
  BY StepsAre
<1>2. 0 \in Good
  <2>1. CallAt(call[0], rt, l)
    BY <1>0, CallAtRoot
  <2>2. NodeOf(call[0]) = rt /\ call[0].key = k /\ call[0].db = db
    <3>1. NodeOf(call[0]) = rt
      BY <2>1 DEF CallAt
    <3> HIDE DEF call
    <3> QED
      BY <3>1, <1>0, CallIs
  <2>3. Len(call[0].key) + 0 <= Len(k)
    <3> HIDE DEF call
    <3>1. Len(k) \in Nat
      OBVIOUS
    <3> QED
      BY <2>2, <3>1
  <2>4. Met(call[0], db, rt, k, 0)
    BY <1>0, <1>1, <2>1, <2>2, <2>3 DEF Met
  <2> QED
    BY <2>4
<1> HIDE DEF call
<1>3. ASSUME NEW m \in Nat, m \in Good PROVE m + 1 \in Good
  <2> DEFINE c == call[m]
             n == NodeOf(c)
             x == call[m + 1]
  <2>1. /\ c.db = db /\ Steps(rt, k)[m] = <<n, c.key>>
        /\ c.slot = SlotFor(n) \/ c = Call(db, HashOf(rt), k)
        /\ ~GoesOn(c) \/ Len(c.key) + m <= Len(k)
    BY <1>3 DEF Met
  <2>2. PICK j : CallAt(c, n, j)
    BY <1>3 DEF Met
  <2>3. x = NextCall(c, FALSE) /\ Steps(rt, k)[m + 1] = StepTo(<<n, c.key>>)
    BY <1>0, <1>1, <2>1
  <2> HIDE DEF c, x
  <2>4. StepTo(<<n, c.key>>) = IF Follows(n, c.key) THEN <<Inner(Below(n, c.key)), Ahead(n, c.key)>>
                               ELSE <<n, c.key>>
    BY DEF StepTo
  <2>5. CASE Follows(n, c.key)
    <3>1. x.db = c.db /\ x.slot = Below(n, c.key) /\ x.key = Ahead(n, c.key)
      BY <2>2, <2>3, <2>5, NextCallGoes
    <3>2. PICK d \in 1 .. j : /\ CallAt(x, Inner(Below(n, c.key)), j - d)
                              /\ Len(x.key) = Len(c.key) - d
                              /\ x.slot = SlotFor(Inner(Below(n, c.key)))
      BY <2>2, <2>3, <2>5, NextCallAt
    <3>3. NodeOf(x) = Inner(Below(n, c.key))
      BY <3>2 DEF CallAt
    <3>4. Len(x.key) + (m + 1) <= Len(k)
      <4>1. GoesOn(c)
        BY <2>5 DEF GoesOn
      <4>2. Len(c.key) + m <= Len(k)
        BY <2>1, <4>1
      <4>3. Len(c.key) \in Nat /\ d \in Nat /\ d >= 1
        <5>1. c.key \in Seq(Nibbles)
          BY <2>2 DEF CallAt
        <5> QED
          BY <5>1
      <4>4. Len(x.key) = Len(c.key) - d /\ Len(k) \in Nat
        <5>1. Len(k) \in Nat
          OBVIOUS
        <5> QED
          BY <3>2, <5>1
      <4> DEFINE lx == Len(x.key)
                 lc == Len(c.key)
                 lk == Len(k)
      <4>5. lc \in Nat /\ d \in Nat /\ d >= 1 /\ lx = lc - d /\ lk \in Nat /\ lc + m <= lk
        BY <4>2, <4>3, <4>4, Zenon
      <4>6. lx + (m + 1) <= lk
        <5> HIDE DEF lx, lc, lk
        <5> QED
          BY <4>5
      <4> QED
        BY <4>6
    <3>5. Steps(rt, k)[m + 1] = <<NodeOf(x), x.key>>
      BY <2>3, <2>4, <2>5, <3>1, <3>3
    <3>6. Met(x, db, rt, k, m + 1)
      BY <2>1, <3>1, <3>2, <3>3, <3>4, <3>5 DEF Met
    <3> QED
      BY <3>6 DEF x
  <2>6. CASE ~Follows(n, c.key)
    <3>1. x = c /\ ~GoesOn(c)
      BY <2>3, <2>6, NextCallStays
    <3>2. Steps(rt, k)[m + 1] = <<n, c.key>>
      BY <2>3, <2>4, <2>6
    <3>3. Met(x, db, rt, k, m + 1)
      BY <2>1, <2>2, <3>1, <3>2 DEF Met
    <3> QED
      BY <3>3 DEF x
  <2> QED
    BY <2>5, <2>6
<1> HIDE DEF Good
<1>4. Nat \subseteq Good
  BY <1>2, <1>3, SetInduction
<1> QED
  BY <1>4 DEF Good, call

\* Nothing goes on where nothing is ahead.
LEMMA NothingAhead ==
    ASSUME NEW c, NEW n, NEW l, CallAt(c, n, l), Len(c.key) <= 0
    PROVE  ~GoesOn(c)
<1> SUFFICES ASSUME GoesOn(c) PROVE FALSE
  OBVIOUS
<1>1. Follows(n, c.key) /\ Trie(n, l, DOMAIN c.db) /\ c.key \in Seq(Nibbles)
  BY DEF GoesOn, CallAt
<1>2. PICK d \in 1 .. l : Ahead(n, c.key) \in Seq(Nibbles) /\ Len(Ahead(n, c.key)) = Len(c.key) - d
  BY <1>1, FollowDown
<1>3. Len(Ahead(n, c.key)) \in Nat /\ Len(c.key) \in Nat
  BY <1>1, <1>2
<1> QED
  BY <1>2, <1>3

\* The call a search ends with.
Ended(c, db, rt, k) ==
    /\ c.db = db /\ Reach(rt, k) = <<NodeOf(c), c.key>> /\ ~GoesOn(c)
    /\ \E j : CallAt(c, NodeOf(c), j)
    /\ c.slot = SlotFor(NodeOf(c)) \/ c = Call(db, HashOf(rt), k)

\* The last call is where the search ends.
LEMMA LastCall ==
    ASSUME NEW db, Store(db), NEW rt \in DOMAIN db, NEW l, Trie(rt, l, DOMAIN db),
           NEW k \in Seq(Nibbles), Len(k) <= l, NEW c, c = Calls(db, rt, k, FALSE)[Len(k)]
    PROVE  Ended(c, db, rt, k)
<1>1. Len(k) \in Nat
  OBVIOUS
<1>2. Met(c, db, rt, k, Len(k))
  BY <1>1, CallsMet
<1>3. /\ c.db = db /\ Steps(rt, k)[Len(k)] = <<NodeOf(c), c.key>>
      /\ \E j : CallAt(c, NodeOf(c), j)
      /\ c.slot = SlotFor(NodeOf(c)) \/ c = Call(db, HashOf(rt), k)
      /\ ~GoesOn(c) \/ Len(c.key) + Len(k) <= Len(k)
  BY <1>2 DEF Met
<1>4. ~GoesOn(c)
  <2>1. PICK j : CallAt(c, NodeOf(c), j)
    BY <1>3
  <2>2. Len(c.key) \in Nat
    <3> DEFINE q == c.key
    <3>1. q \in Seq(Nibbles)
      BY <2>1 DEF CallAt
    <3>2. Len(q) \in Nat
      <4> HIDE DEF q
      <4> QED
        BY <3>1
    <3> QED
      BY <3>2
  <2>3. CASE Len(c.key) + Len(k) <= Len(k)
    <3> DEFINE a == Len(c.key)
               b == Len(k)
    <3>1. a \in Nat /\ b \in Nat /\ a + b <= b
      BY <1>1, <2>2, <2>3, Zenon
    <3>2. a <= 0
      <4> HIDE DEF a, b
      <4> QED
        BY <3>1
    <3> QED
      BY <2>1, <3>2, NothingAhead
  <2> QED
    BY <1>3, <2>3
<1> QED
  BY <1>3, <1>4, Zenon DEF Reach, Ended

\* at() finds what is there.
LEMMA AtIs ==
    ASSUME NEW db, Store(db), NEW rt \in DOMAIN db, NEW l, Trie(rt, l, DOMAIN db),
           NEW k \in Seq(Nibbles), Len(k) <= l
    PROVE  At(db, rt, k) = Find(rt, k)
<1> DEFINE c == Calls(db, rt, k, FALSE)[Len(k)]
<1>1. Reach(rt, k) = <<NodeOf(c), c.key>>
  <2>1. Ended(c, db, rt, k)
    BY LastCall
  <2> HIDE DEF c
  <2> QED
    BY <2>1 DEF Ended
<1>2. At(db, rt, k) = Found(NodeOf(c), c.key)
  BY DEF At
<1> HIDE DEF c
<1> QED
  BY <1>1, <1>2 DEF Find

\* As many calls as there are nibbles are enough.
LEMMA CallsStop ==
    ASSUME NEW call, NEW c, NEW kills, Downward(call, c, kills), NEW n, NEW l, CallAt(c, n, l),
           NEW b, b = Len(c.key)
    PROVE  b \in Nat /\ ~GoesOn(call[b])
<1> DEFINE Fine(x, m) == (\E i : CallAt(x, NodeOf(x), i)) /\ (~GoesOn(x) \/ Len(x.key) + m <= b)
           Good == {m \in Nat : Fine(call[m], m)}
<1>0. call[0] = c /\ \A m \in Nat : call[m + 1] = NextCall(call[m], kills)
  BY DEF Downward
<1>1. b \in Nat
  <2>1. c.key \in Seq(Nibbles)
    BY DEF CallAt
  <2> QED
    BY <2>1
<1>2. 0 \in Good
  <2>1. NodeOf(c) = n
    BY DEF CallAt
  <2>2. Len(c.key) + 0 <= b
    BY <1>1
  <2> QED
    BY <1>0, <2>1, <2>2
<1>3. ASSUME NEW m \in Nat, m \in Good PROVE m + 1 \in Good
  <2> DEFINE a == call[m]
             y == NodeOf(a)
             x == call[m + 1]
  <2>1. PICK j : CallAt(a, y, j)
    BY <1>3
  <2>2. ~GoesOn(a) \/ Len(a.key) + m <= b
    BY <1>3
  <2>3. x = NextCall(a, kills)
    BY <1>0
  <2> HIDE DEF a, x
  <2>4. CASE Follows(y, a.key)
    <3>1. PICK d \in 1 .. j : /\ CallAt(x, Inner(Below(y, a.key)), j - d)
                              /\ Len(x.key) = Len(a.key) - d
      BY <2>1, <2>3, <2>4, NextCallAt
    <3>2. CallAt(x, NodeOf(x), j - d)
      BY <3>1 DEF CallAt
    <3>3. a.key \in Seq(Nibbles) /\ d \in Nat /\ d >= 1
      BY <2>1 DEF CallAt
    <3>4. Len(a.key) + m <= b
      BY <2>2, <2>4 DEF GoesOn
    <3>5. Len(x.key) + (m + 1) <= b
      <4> DEFINE la == Len(a.key)
                 lx == Len(x.key)
      <4>1. la \in Nat
        BY <3>3
      <4>2. la \in Nat /\ lx = la - d /\ d \in Nat /\ d >= 1 /\ la + m <= b
        BY <3>1, <3>3, <3>4, <4>1, Zenon
      <4>3. lx + (m + 1) <= b
        <5> HIDE DEF la, lx
        <5> QED
          BY <4>2, <1>1
      <4> QED
        BY <4>3
    <3>6. Fine(x, m + 1)
      BY <3>2, <3>5, Zenon
    <3> HIDE DEF Fine
    <3> QED
      BY <3>6 DEF x
  <2>5. CASE ~Follows(y, a.key)
    <3>1. x = a /\ ~GoesOn(a)
      BY <2>3, <2>5, NextCallStays
    <3>2. Fine(x, m + 1)
      BY <2>1, <3>1
    <3> HIDE DEF Fine
    <3> QED
      BY <3>2 DEF x
  <2> QED
    BY <2>4, <2>5
<1>4. Fine(call[b], b)
  <2>1. b \in Good
    <3> HIDE DEF Good
    <3> QED
      BY <1>1, <1>2, <1>3, SetInduction
  <2> HIDE DEF Fine
  <2> QED
    BY <2>1
<1>5. PICK j : CallAt(call[b], NodeOf(call[b]), j)
  BY <1>4
<1>6. ~GoesOn(call[b]) \/ Len(call[b].key) + b <= b
  BY <1>4
<1>7. CASE Len(call[b].key) + b <= b
  <2> DEFINE q == call[b].key
  <2>1. q \in Seq(Nibbles)
    BY <1>5 DEF CallAt
  <2>2. Len(q) \in Nat /\ Len(q) + b <= b
    <3>1. Len(q) + b <= b
      BY <1>7
    <3> HIDE DEF q
    <3> QED
      BY <2>1, <3>1
  <2>3. Len(q) <= 0
    <3> HIDE DEF q
    <3> QED
      BY <1>1, <2>2
  <2> QED
    BY <1>5, <2>3, NothingAhead
<1> QED
  BY <1>1, <1>6, <1>7

\* What mergeAt returns from its calls, counted from the last.
MergeBack(db, rt, k, v) ==
    LET call == Calls(db, rt, k, TRUE)
        back[m \in Nat] ==
            LET c == call[Len(k) - m]
                sub == StreamNode(back[m - 1])
            IN  IF m = 0 THEN Put(c, v)
                ELSE IF GoesOn(c) THEN Changed(WithBelow(NodeOf(c), c.key, sub.slot), sub.db)
                ELSE back[m - 1]
    IN  back

\* mergeAt returns what its first call does.
LEMMA MergeAtIs ==
    ASSUME NEW db, NEW rt, NEW k, NEW v
    PROVE  MergeAt(db, rt, k, v) = MergeBack(db, rt, k, v)[Len(k)]
BY DEF MergeAt, MergeBack

MergeUpward(back, call, b, v) ==
    /\ back[0] = Put(call[b - 0], v)
    /\ \A m \in Nat : back[m + 1] =
          IF GoesOn(call[b - (m + 1)])
          THEN Changed(WithBelow(NodeOf(call[b - (m + 1)]), call[b - (m + 1)].key,
                                 StreamNode(back[m]).slot), StreamNode(back[m]).db)
          ELSE back[m]

\* The recursive function of what the calls of mergeAt return exists.
LEMMA MergeBackIs ==
    ASSUME NEW db, NEW rt, NEW k, NEW v
    PROVE  MergeUpward(MergeBack(db, rt, k, v), Calls(db, rt, k, TRUE), Len(k), v)
<1> DEFINE A(m) == Put(Calls(db, rt, k, TRUE)[Len(k) - m], v)
           G(m, u) == IF GoesOn(Calls(db, rt, k, TRUE)[Len(k) - m])
                      THEN Changed(WithBelow(NodeOf(Calls(db, rt, k, TRUE)[Len(k) - m]),
                                             Calls(db, rt, k, TRUE)[Len(k) - m].key,
                                             StreamNode(u).slot), StreamNode(u).db)
                      ELSE u
           Eq(f) == f = [m \in Nat |-> IF m = 0 THEN A(m) ELSE G(m, f[m - 1])]
           Up(f, a) == f[0] = A(0) /\ \A m \in 0 .. (a - 1) : f[m + 1] = G(m + 1, f[m])
           w == CHOOSE f : Eq(f)
           Of(a) == CHOOSE f : Up(f, a)
           all == [a \in Nat |-> Of(a)[a]]
<1>1. MergeBack(db, rt, k, v) = w
  BY Zenon DEF MergeBack
<1> HIDE DEF A, G
<1>2. ASSUME NEW a \in Nat PROVE \E f : Up(f, a)
  <2> DEFINE Exists == {b \in Nat : \E f : Up(f, b)}
  <2>1. 0 \in Exists
    <3>1. Up([m \in Nat |-> A(0)], 0)
      OBVIOUS
    <3> QED
      BY <3>1
  <2>2. ASSUME NEW b \in Nat, b \in Exists PROVE b + 1 \in Exists
    <3>1. PICK f : Up(f, b)
      BY <2>2
    <3> DEFINE h == [m \in Nat |-> IF m <= b THEN f[m] ELSE G(b + 1, f[b])]
    <3>2. h[0] = A(0)
      BY <3>1
    <3>3. ASSUME NEW m \in 0 .. b PROVE h[m + 1] = G(m + 1, h[m])
      <4>1. h[m] = f[m] /\ m + 1 \in Nat
        OBVIOUS
      <4>2. CASE m = b
        <5>1. h[m + 1] = G(b + 1, f[b])
          BY <4>1, <4>2
        <5> QED
          BY <5>1, <4>1, <4>2
      <4>3. CASE m < b
        <5>1. h[m + 1] = f[m + 1] /\ m \in 0 .. (b - 1)
          BY <4>3
        <5> QED
          BY <5>1, <4>1, <3>1
      <4> QED
        BY <4>2, <4>3
    <3>4. 0 .. ((b + 1) - 1) = 0 .. b
      OBVIOUS
    <3> HIDE DEF h
    <3>5. Up(h, b + 1)
      BY <3>2, <3>3, <3>4
    <3> QED
      BY <3>5
  <2> HIDE DEF Exists
  <2>3. a \in Exists
    BY <2>1, <2>2, SetInduction
  <2> QED
    BY <2>3 DEF Exists
<1>3. ASSUME NEW a \in Nat PROVE Up(Of(a), a)
  <2> HIDE DEF Up
  <2> QED
    BY <1>2, Zenon
<1> HIDE DEF Of
<1>4. ASSUME NEW a \in Nat PROVE Of(a + 1)[a] = Of(a)[a]
  <2> DEFINE Same == {b \in Nat : b <= a => Of(a + 1)[b] = Of(a)[b]}
  <2>1. 0 \in Same
    BY <1>3
  <2>2. ASSUME NEW b \in Nat, b \in Same PROVE b + 1 \in Same
    <3> SUFFICES ASSUME b + 1 <= a PROVE Of(a + 1)[b + 1] = Of(a)[b + 1]
      OBVIOUS
    <3>1. b \in 0 .. (a - 1) /\ b \in 0 .. ((a + 1) - 1) /\ a + 1 \in Nat
      OBVIOUS
    <3>2. Of(a + 1)[b + 1] = G(b + 1, Of(a + 1)[b]) /\ Of(a)[b + 1] = G(b + 1, Of(a)[b])
      BY <1>3, <3>1, Zenon
    <3> QED
      BY <2>2, <3>2
  <2> HIDE DEF Same
  <2>3. a \in Same
    BY <2>1, <2>2, SetInduction
  <2> QED
    BY <2>3 DEF Same
<1>5. all[0] = A(0)
  BY <1>3
<1>6. ASSUME NEW a \in Nat PROVE all[a + 1] = G(a + 1, all[a])
  <2>1. a + 1 \in Nat /\ a \in 0 .. ((a + 1) - 1)
    OBVIOUS
  <2>2. Of(a + 1)[a + 1] = G(a + 1, Of(a + 1)[a])
    BY <1>3, <2>1, Zenon
  <2> QED
    BY <1>4, <2>1, <2>2
<1>7. ASSUME NEW m \in Nat PROVE all[m] = IF m = 0 THEN A(m) ELSE G(m, all[m - 1])
  <2>1. CASE m = 0
    BY <1>5, <2>1
  <2>2. CASE m # 0
    <3>1. m - 1 \in Nat /\ (m - 1) + 1 = m
      BY <2>2
    <3>2. all[(m - 1) + 1] = G((m - 1) + 1, all[m - 1])
      BY <1>6, <3>1, Zenon
    <3> HIDE DEF all
    <3> QED
      BY <2>2, <3>1, <3>2
  <2> QED
    BY <2>1, <2>2
<1>8. Eq(all)
  <2>1. all = [a \in Nat |-> all[a]]
    OBVIOUS
  <2> HIDE DEF all
  <2> QED
    BY <1>7, <2>1
<1>9. Eq(w)
  <2> HIDE DEF Eq, all
  <2> QED
    BY <1>8, Zenon
<1> HIDE DEF w
<1>10. w[0] = A(0) /\ \A m \in Nat : w[m + 1] = G(m + 1, w[m])
  <2>1. \A m \in Nat : m + 1 \in Nat /\ m + 1 # 0 /\ (m + 1) - 1 = m
    OBVIOUS
  <2> QED
    BY <1>9, <2>1
<1> QED
  BY <1>1, <1>10, Zenon DEF A, G, MergeUpward

\* mergeAt merges the key into the trie.
LEMMA MergeAtMerges ==
    ASSUME NEW db, Store(db), NEW rt \in DOMAIN db, NEW l, Trie(rt, l, DOMAIN db),
           NEW k \in Seq(Nibbles), Len(k) <= l, NEW v \in Values
    PROVE  Merged(db, rt, l, k, v, MergeAt(db, rt, k, v))
<1> DEFINE call == Calls(db, rt, k, TRUE)
           back == MergeBack(db, rt, k, v)
           b == Len(k)
           Done1(c, r) == \A n, j : CallAt(c, n, j) => Merged(c.db, n, j, c.key, v, r)
           Good == {m \in Nat : m <= b => Done1(call[b - m], back[m])}
<1>0. Downward(call, Call(db, HashOf(rt), k), TRUE) /\ MergeUpward(back, call, b, v)
  BY CallsAre, MergeBackIs
<1>1. CallAt(Call(db, HashOf(rt), k), rt, l) /\ Call(db, HashOf(rt), k).key = k
  BY CallAtRoot, CallIs
<1>2. b \in Nat /\ ~GoesOn(call[b])
  <2> HIDE DEF call, back
  <2> QED
    BY <1>0, <1>1, CallsStop
<1>m. MergeAt(db, rt, k, v) = back[b]
  BY MergeAtIs
<1> HIDE DEF call, back, b
<1>3. 0 \in Good
  <2>1. b - 0 = b
    BY <1>2
  <2>2. back[0] = Put(call[b], v)
    BY <1>0, <2>1, Zenon DEF MergeUpward
  <2>3. ASSUME NEW n, NEW j, CallAt(call[b], n, j) PROVE Merged(call[b].db, n, j, call[b].key, v, back[0])
    <3> DEFINE c == call[b]
    <3>1. /\ Store(c.db) /\ Trie(n, j, DOMAIN c.db) /\ n = NodeOf(c)
          /\ c.key \in Seq(Nibbles) /\ Len(c.key) <= j
      BY <2>3 DEF CallAt
    <3>2. ~Follows(n, c.key)
      BY <1>2, <3>1 DEF GoesOn
    <3> HIDE DEF c
    <3>3. Merged(c.db, n, j, c.key, v, Put(c, v))
      BY <3>1, <3>2, PutIs
    <3> QED
      BY <2>2, <3>3 DEF c
  <2> QED
    BY <2>1, <2>3
<1>4. ASSUME NEW m \in Nat, m \in Good PROVE m + 1 \in Good
  <2> SUFFICES ASSUME m + 1 <= b PROVE Done1(call[b - (m + 1)], back[m + 1])
    OBVIOUS
  <2> DEFINE i == b - (m + 1)
             c == call[i]
             x == call[i + 1]
             p == back[m]
             r == back[m + 1]
  <2>1. i \in Nat /\ i + 1 = b - m /\ m <= b
    BY <1>2
  <2>2. Done1(x, p)
    <3>1. Done1(call[b - m], back[m])
      BY <1>4, <2>1
    <3> QED
      BY <2>1, <3>1
  <2>3. x = NextCall(c, TRUE)
    BY <1>0, <2>1 DEF Downward
  <2>4. r = IF GoesOn(c) THEN Changed(WithBelow(NodeOf(c), c.key, StreamNode(p).slot), StreamNode(p).db)
            ELSE p
    BY <1>0, Zenon DEF MergeUpward
  <2> HIDE DEF i, c, x, p, r
  <2>5. ASSUME NEW n, NEW j, CallAt(c, n, j) PROVE Merged(c.db, n, j, c.key, v, r)
    <3>1. /\ Store(c.db) /\ Trie(n, j, DOMAIN c.db) /\ n = NodeOf(c)
          /\ c.key \in Seq(Nibbles) /\ Len(c.key) <= j
      BY <2>5 DEF CallAt
    <3>2. CASE Follows(n, c.key)
      <4>1. /\ x.db = KillNode(c.db, n)
            /\ x.slot = Below(n, c.key) /\ x.key = Ahead(n, c.key)
        BY <2>3, <2>5, <3>2, NextCallGoes
      <4>2. PICK d \in 1 .. j : /\ CallAt(x, Inner(Below(n, c.key)), j - d)
                                /\ Len(x.key) = Len(c.key) - d
        <5>1. \E d \in 1 .. j : /\ CallAt(x, Inner(Below(n, c.key)), j - d)
                                /\ Len(x.key) = Len(c.key) - d
                                /\ x.slot = SlotFor(Inner(Below(n, c.key)))
          BY <2>3, <2>5, <3>2, NextCallAt
        <5> QED
          BY <5>1
      <4>3. Merged(x.db, Inner(Below(n, c.key)), j - d, x.key, v, p)
        BY <2>2, <4>2, Zenon
      <4>4. GoesOn(c)
        BY <3>1, <3>2 DEF GoesOn
      <4>5. r = Changed(WithBelow(n, c.key, StreamNode(p).slot), StreamNode(p).db)
        BY <2>4, <3>1, <4>4
      <4>6. d \in Nat /\ Len(Ahead(n, c.key)) = Len(c.key) - d
        BY <4>1, <4>2
      <4>7. Merged(KillNode(c.db, n), Inner(Below(n, c.key)), j - d, Ahead(n, c.key), v, p)
        BY <4>1, <4>3
      <4> QED
        BY <3>1, <3>2, <4>5, <4>6, <4>7, MergeUp
    <3>3. CASE ~Follows(n, c.key)
      <4>1. x = c /\ ~GoesOn(c)
        BY <2>3, <3>1, <3>3, NextCallStays
      <4> QED
        BY <2>2, <2>4, <2>5, <4>1, Zenon
    <3> QED
      BY <3>2, <3>3
  <2>6. Done1(c, r)
    BY <2>5, Zenon
  <2> QED
    BY <2>6 DEF c, r, i
<1>5. Done1(call[b - b], back[b])
  <2> HIDE DEF Done1
  <2>1. b \in Good
    <3> HIDE DEF Good
    <3> QED
      BY <1>2, <1>3, <1>4, SetInduction
  <2>2. b <= b
    BY <1>2
  <2> QED
    BY <2>1, <2>2
<1>6. call[b - b] = Call(db, HashOf(rt), k)
  <2>1. b - b = 0
    BY <1>2
  <2> QED
    BY <1>0, <2>1 DEF Downward
<1>7. Call(db, HashOf(rt), k).db = db /\ Call(db, HashOf(rt), k).key = k
  BY CallIs
<1>8. Merged(db, rt, l, k, v, back[b])
  BY <1>1, <1>5, <1>6, <1>7, Zenon
<1> QED
  BY <1>m, <1>8

-----------------------------------------------------------------------------
(* References, as the trie is walked. *)

\* The places are the keys up to the longest.
LEMMA PlacesAre ==
    ASSUME NEW p
    PROVE  p \in Places <=> p \in Seq(Nibbles) /\ Len(p) <= Longest
<1>0. Longest \in Nat
  BY KeysAssumption
<1>1. p \in Places <=> \E n \in 0 .. Longest : p \in [1 .. n -> Nibbles]
  BY Zenon DEF Places
<1>2. ASSUME NEW n \in 0 .. Longest, p \in [1 .. n -> Nibbles]
      PROVE  p \in Seq(Nibbles) /\ Len(p) <= Longest
  <2>1. n \in Nat
    BY <1>0
  <2>2. p \in Seq(Nibbles)
    BY <1>2, <2>1, IsASeq
  <2>3. DOMAIN p = 1 .. n /\ DOMAIN p = 1 .. Len(p) /\ Len(p) \in Nat
    BY <1>2, <2>2
  <2>4. Len(p) = n
    BY <2>1, <2>2, <2>3, LenProperties
  <2> QED
    BY <1>0, <2>2, <2>4
<1>3. ASSUME p \in Seq(Nibbles), Len(p) <= Longest
      PROVE  \E n \in 0 .. Longest : p \in [1 .. n -> Nibbles]
  <2>1. p \in [1 .. Len(p) -> Nibbles] /\ Len(p) \in Nat
    BY <1>3, LenProperties
  <2>2. Len(p) \in 0 .. Longest
    BY <1>0, <1>3, <2>1
  <2> QED
    BY <2>1, <2>2
<1> QED
  BY <1>1, <1>2, <1>3

\* The slot at a place.
LEMMA SlotAtIs ==
    ASSUME NEW db, Store(db), NEW rt \in DOMAIN db, NEW l, Trie(rt, l, DOMAIN db),
           NEW p \in Seq(Nibbles), Len(p) <= l
    PROVE  \E n, q, D, j :
              /\ Reach(rt, p) = <<n, q>> /\ Trie(n, j, D) /\ D = DOMAIN db /\ Kept(n, D)
              /\ SlotAt(db, rt, p) = IF q # <<>> THEN Null
                                     ELSE IF p = <<>> THEN HashOf(rt) ELSE SlotFor(n)
<1> DEFINE call == Calls(db, rt, p, FALSE)
           c == call[Len(p)]
<1>1. Ended(c, db, rt, p)
  BY LastCall
<1>2. SlotAt(db, rt, p) = IF c.key = <<>> THEN c.slot ELSE Null
  BY DEF SlotAt
<1>3. p = <<>> => c = Call(db, HashOf(rt), p)
  <2>1. Downward(call, Call(db, HashOf(rt), p), FALSE)
    BY CallsAre
  <2> HIDE DEF call
  <2>2. p = <<>> => Len(p) = 0
    OBVIOUS
  <2> QED
    BY <2>1, <2>2 DEF Downward
<1> HIDE DEF c
<1>4. /\ c.db = db /\ Reach(rt, p) = <<NodeOf(c), c.key>>
      /\ c.slot = SlotFor(NodeOf(c)) \/ c = Call(db, HashOf(rt), p)
  BY <1>1 DEF Ended
<1>5. PICK j : CallAt(c, NodeOf(c), j)
  BY <1>1, Zenon DEF Ended
<1>6. Call(db, HashOf(rt), p).slot = HashOf(rt) /\ Call(db, HashOf(rt), p).key = p
  BY CallIs
<1>7. SlotAt(db, rt, p) = IF c.key # <<>> THEN Null
                          ELSE IF p = <<>> THEN HashOf(rt) ELSE SlotFor(NodeOf(c))
  <2>1. CASE c.key # <<>>
    BY <1>2, <2>1
  <2>2. CASE c.key = <<>> /\ p = <<>>
    BY <1>2, <1>3, <1>6, <2>2
  <2>3. CASE c.key = <<>> /\ p # <<>>
    BY <1>2, <1>4, <1>6, <2>3
  <2> QED
    BY <2>1, <2>2, <2>3
<1>8. Trie(NodeOf(c), j, DOMAIN db) /\ Kept(NodeOf(c), DOMAIN db)
  BY <1>4, <1>5 DEF CallAt
<1> DEFINE n == NodeOf(c)
           q == c.key
           D == DOMAIN db
<1>9. /\ Reach(rt, p) = <<n, q>> /\ Trie(n, j, D) /\ D = DOMAIN db /\ Kept(n, D)
      /\ SlotAt(db, rt, p) = IF q # <<>> THEN Null
                             ELSE IF p = <<>> THEN HashOf(rt) ELSE SlotFor(n)
  BY <1>4, <1>7, <1>8
<1> HIDE DEF n, q, D
<1> QED
  BY <1>9

\* A place has the hash of h when h is met there, but for the short ones.
LEMMA SlotHash ==
    ASSUME NEW db, Store(db), NEW rt \in DOMAIN db, NEW l, Trie(rt, l, DOMAIN db),
           NEW p \in Seq(Nibbles), Len(p) <= l, NEW h
    PROVE  SlotAt(db, rt, p) = HashOf(h) <=> p \in Spots(rt, h) /\ (p = <<>> \/ ~Fits(h))
<1>1. PICK n, q, D, j :
              /\ Reach(rt, p) = <<n, q>> /\ Trie(n, j, D) /\ D = DOMAIN db /\ Kept(n, D)
              /\ SlotAt(db, rt, p) = IF q # <<>> THEN Null
                                     ELSE IF p = <<>> THEN HashOf(rt) ELSE SlotFor(n)
  BY SlotAtIs
<1>2. p \in Spots(rt, h) <=> n = h /\ q = <<>>
  <2>1. p \in Spots(rt, h) <=> Reach(rt, p) = <<h, <<>>>>
    BY SpotsIs
  <2> QED
    BY <1>1, <2>1
<1>3. IsNode(n)
  BY <1>1, TrieIsNode
<1>4. \A x : HashOf(x).kind = "hash" /\ HashOf(x).node = x
  BY Fields, Zenon
<1>5. CASE q # <<>>
  <2>1. SlotAt(db, rt, p) # HashOf(h)
    BY <1>1, <1>4, <1>5, Fields
  <2> QED
    BY <1>2, <1>5, <2>1
<1>6. CASE q = <<>> /\ p = <<>>
  <2>1. SlotAt(db, rt, p) = HashOf(rt)
    BY <1>1, <1>6
  <2>2. Reach(rt, p) = <<rt, <<>>>>
    BY <1>6, ReachNothing
  <2>3. n = rt
    BY <1>1, <2>2
  <2>4. HashOf(rt) = HashOf(h) <=> rt = h
    BY <1>4
  <2> QED
    BY <1>2, <1>6, <2>1, <2>3, <2>4
<1>7. CASE q = <<>> /\ p # <<>>
  <2>1. SlotAt(db, rt, p) = SlotFor(n)
    BY <1>1, <1>7
  <2>2. CASE Fits(n)
    <3>1. SlotFor(n) = n
      BY <2>2 DEF SlotFor
    <3>2. n # HashOf(h)
      <4>1. n.kind # "hash"
        BY <1>3 DEF IsNode
      <4> QED
        BY <1>4, <4>1
    <3>3. n = h => Fits(h)
      BY <2>2
    <3> QED
      BY <1>2, <1>7, <2>1, <3>1, <3>2, <3>3
  <2>3. CASE ~Fits(n)
    <3>1. SlotFor(n) = HashOf(n)
      BY <2>3 DEF SlotFor
    <3>2. HashOf(n) = HashOf(h) <=> n = h
      BY <1>4
    <3>3. n = h => ~Fits(h)
      BY <2>3
    <3> QED
      BY <1>2, <1>7, <2>1, <3>1, <3>2, <3>3
  <2> QED
    BY <2>2, <2>3
<1> QED
  BY <1>5, <1>6, <1>7

\* The references to h there are.
LEMMA RefsAre ==
    ASSUME NEW db, Store(db), NEW rt \in DOMAIN db, Trie(rt, Longest, DOMAIN db), NEW h
    PROVE  RefsTo(db, rt, h) = One(rt, h) + R(rt, h)
<1> DEFINE T == {p \in Places : SlotAt(db, rt, p) = HashOf(h)}
<1>0. RefsTo(db, rt, h) = Cardinality(T)
  BY DEF RefsTo
<1>1. \A p : p \in T <=> p \in Seq(Nibbles) /\ Len(p) <= Longest
                          /\ p \in Spots(rt, h) /\ (p = <<>> \/ ~Fits(h))
  <2>1. ASSUME NEW p, p \in Seq(Nibbles), Len(p) <= Longest
        PROVE  p \in T <=> p \in Spots(rt, h) /\ (p = <<>> \/ ~Fits(h))
    <3>1. p \in Places
      BY <2>1, PlacesAre
    <3>2. SlotAt(db, rt, p) = HashOf(h) <=> p \in Spots(rt, h) /\ (p = <<>> \/ ~Fits(h))
      BY <2>1, SlotHash
    <3> QED
      BY <3>1, <3>2
  <2>2. \A p : p \in T => p \in Places
    OBVIOUS
  <2> HIDE DEF T
  <2> QED
    BY <2>1, <2>2, PlacesAre, Zenon
<1>2. \A p : p \in Spots(rt, h) => p \in Seq(Nibbles) /\ Len(p) <= Longest
  <2>1. Longest \in Nat
    BY KeysAssumption
  <2>2. \A p \in Spots(rt, h) : Len(p) <= Longest
    BY <2>1, SpotsOfTries
  <2> QED
    BY <2>2, SpotIn
<1> HIDE DEF T
<1>3. CASE Fits(h)
  <2>1. \A p : p \in T <=> p = <<>> /\ h = rt
    <3>1. <<>> \in Spots(rt, h) <=> h = rt
      BY SpotsIs
    <3>2. \A p : p \in T <=> p \in Spots(rt, h) /\ p = <<>>
      BY <1>1, <1>2, <1>3, Zenon
    <3> QED
      BY <3>1, <3>2, Zenon
  <2>2. T = IF h = rt THEN {<<>>} ELSE {}
    BY <2>1
  <2>3. Cardinality(T) = One(rt, h)
    BY <2>2, FS_EmptySet, FS_Singleton DEF One
  <2>4. R(rt, h) = 0
    BY <1>3 DEF R
  <2>5. One(rt, h) \in Nat
    BY OneNat
  <2> QED
    BY <1>0, <2>3, <2>4, <2>5
<1>4. CASE ~Fits(h)
  <2>1. T = Spots(rt, h)
    BY <1>1, <1>2, <1>4
  <2>2. S(rt, h) = R(rt, h) + Self(rt, h) /\ S(rt, h) = Cardinality(Spots(rt, h))
    BY <1>4, SpotsFinite
  <2>3. Self(rt, h) = One(rt, h)
    BY <1>4 DEF Self, One
  <2> QED
    BY <1>0, <2>1, <2>2, <2>3, OneNat, SpotsFinite
<1> QED
  BY <1>3, <1>4

\* What is reached is stored, and what is referred to is reached.
LEMMA ReachedAre ==
    ASSUME NEW db, Store(db), NEW rt \in DOMAIN db, Trie(rt, Longest, DOMAIN db)
    PROVE  /\ Reached(db, rt) \subseteq DOMAIN db
           /\ \A h : RefsTo(db, rt, h) # 0 => h \in Reached(db, rt)
<1>0. \A x : HashOf(x).kind = "hash" /\ HashOf(x).node = x
  BY Fields, Zenon
<1>1. ASSUME NEW p \in Places, SlotAt(db, rt, p).kind = "hash"
      PROVE  SlotAt(db, rt, p).node \in DOMAIN db
  <2>1. p \in Seq(Nibbles) /\ Len(p) <= Longest
    BY PlacesAre
  <2>2. PICK n, q, D, j :
              /\ Reach(rt, p) = <<n, q>> /\ Trie(n, j, D) /\ D = DOMAIN db /\ Kept(n, D)
              /\ SlotAt(db, rt, p) = IF q # <<>> THEN Null
                                     ELSE IF p = <<>> THEN HashOf(rt) ELSE SlotFor(n)
    BY <2>1, SlotAtIs
  <2>3. q = <<>>
    BY <1>1, <2>2, Fields
  <2>4. CASE p = <<>>
    BY <1>0, <2>2, <2>3, <2>4
  <2>5. CASE p # <<>>
    <3>1. IsNode(n) /\ SlotAt(db, rt, p) = SlotFor(n)
      BY <2>2, <2>3, <2>5, TrieIsNode
    <3>2. ~Fits(n)
      BY <1>1, <3>1 DEF SlotFor, IsNode
    <3>3. SlotFor(n) = HashOf(n) /\ n \in DOMAIN db
      BY <2>2, <3>2 DEF SlotFor, Kept
    <3> QED
      BY <1>0, <3>1, <3>3
  <2> QED
    BY <2>4, <2>5
<1>2. ASSUME NEW h, RefsTo(db, rt, h) # 0 PROVE h \in Reached(db, rt)
  <2> DEFINE T == {p \in Places : SlotAt(db, rt, p) = HashOf(h)}
  <2>1. T # {}
    <3>1. Cardinality(T) # 0
      BY <1>2 DEF RefsTo
    <3> HIDE DEF T
    <3> QED
      BY <3>1, FS_EmptySet
  <2>2. PICK p \in Places : SlotAt(db, rt, p) = HashOf(h)
    BY <2>1
  <2> QED
    BY <1>0, <2>2 DEF Reached
<1>3. Reached(db, rt) \subseteq DOMAIN db
  BY <1>1 DEF Reached
<1> QED
  BY <1>2, <1>3

\* What check(true) finds at a place may be there.
LEMMA DescendsAll ==
    ASSUME NEW db, Store(db), NEW rt \in DOMAIN db, rt # Null, Trie(rt, Longest, DOMAIN db),
           NEW p \in Places, SlotAt(db, rt, p) # Null
    PROVE  DescendEntry(db, SlotAt(db, rt, p))
<1> DEFINE slot == SlotAt(db, rt, p)
<1>1. p \in Seq(Nibbles) /\ Len(p) <= Longest
  BY PlacesAre
<1>2. PICK n, q, D, j :
            /\ Reach(rt, p) = <<n, q>> /\ Trie(n, j, D) /\ D = DOMAIN db /\ Kept(n, D)
            /\ slot = IF q # <<>> THEN Null ELSE IF p = <<>> THEN HashOf(rt) ELSE SlotFor(n)
  BY <1>1, SlotAtIs
<1>n. slot # Null
  OBVIOUS
<1> HIDE DEF slot
<1>3. q = <<>>
  BY <1>2, <1>n
<1>4. IsNode(n)
  BY <1>2, TrieIsNode
<1>5. Deref(db, slot) = n /\ n # Null
  <2>1. CASE p = <<>>
    <3>1. Reach(rt, p) = <<rt, <<>>>>
      BY <2>1, ReachNothing
    <3>2. n = rt /\ slot = HashOf(rt)
      BY <1>2, <1>3, <2>1, <3>1
    <3>3. HashOf(rt).kind = "hash" /\ HashOf(rt).node = rt
      BY Fields, Zenon
    <3> QED
      BY <3>2, <3>3 DEF Deref, DbLookup
  <2>2. CASE p # <<>>
    <3>1. slot = SlotFor(n)
      BY <1>2, <1>3, <2>2
    <3>2. n # Null
      BY <1>n, <3>1, Slots
    <3> QED
      BY <1>2, <1>4, <3>1, <3>2, DerefIs
  <2> QED
    BY <2>1, <2>2
<1>6. n.kind = "branch" \/ (n.kind = "pair" /\ (n.leaf \/ Deref(db, n.item).kind = "branch"))
  <2>0. AsLeaf(n, j) \/ AsExt(n, j, D) \/ AsBra(n, j, D)
    BY <1>2, <1>5, TrieCases
  <2>1. CASE AsLeaf(n, j)
    BY <2>1, NullNotOthers DEF AsLeaf
  <2>2. CASE AsBra(n, j, D)
    BY <2>2, NullNotOthers DEF AsBra
  <2>3. CASE AsExt(n, j, D)
    <3>ext. PICK k \in Seq(Nibbles) : \E m :
           /\ Trie(m, j - Len(k), D) /\ m.kind = "branch" /\ Kept(m, D)
           /\ n = Ext(k, m)
      BY <2>3, Zenon DEF AsExt
    <3>1. PICK m :
           /\ Trie(m, j - Len(k), D) /\ m.kind = "branch" /\ Kept(m, D)
           /\ n = Ext(k, m)
      BY <3>ext, Zenon
    <3>2. n.kind = "pair" /\ n.item = SlotFor(m)
      BY <3>1, Fields DEF Ext
    <3>3. Deref(db, n.item) = m
      BY <1>2, <3>1, <3>2, TrieIsNode, DerefIs
    <3> QED
      BY <3>1, <3>2, <3>3
  <2> QED
    BY <2>0, <2>1, <2>2, <2>3
<1>7. DescendEntry(db, slot)
  BY <1>5, <1>6 DEF DescendEntry
<1> QED
  BY <1>7 DEF slot

-----------------------------------------------------------------------------
(* Removal: what becomes of a node that may have too little left in it. *)

Tidied(db, b, l, r) ==
    /\ r.out = "changed" \/ (r.out = "threw" /\ r.db = db)
    /\ r.out = "changed" =>
        /\ Store(r.db) /\ DOMAIN db \subseteq DOMAIN r.db
        /\ Trie(r.b, l, DOMAIN r.db) /\ r.b # Null
        /\ \A x \in Seq(Nibbles) : Find(r.b, x) = Find(b, x)
        /\ Clean(db) => Clean(r.db)
        /\ (\A h : Cnt(db, h) >= R(b, h))
           => \A h : Cnt(r.db, h) + R(b, h) = Cnt(db, h) + R(r.b, h)

\* What may stay as it is.
LEMMA TidiedAsIs ==
    ASSUME NEW db, Store(db), NEW l, NEW b, NEW y, Trie(y, l, DOMAIN db), y # Null,
           \A x \in Seq(Nibbles) : Find(y, x) = Find(b, x), \A h : R(y, h) = R(b, h)
    PROVE  Tidied(db, b, l, Changed(y, db))
<1> DEFINE r == Changed(y, db)
<1>1. r.b = y /\ r.db = db /\ r.out = "changed"
  BY ChangedIs
<1> HIDE DEF r
<1>2. Tidied(db, b, l, r)
  BY <1>1 DEF Tidied
<1> QED
  BY <1>2 DEF r

\* What is tidied stays so for a node that is read alike.
LEMMA TidiedAlike ==
    ASSUME NEW db, NEW l, NEW b, NEW y, NEW r, Tidied(db, y, l, r),
           \A x \in Seq(Nibbles) : Find(y, x) = Find(b, x), \A h : R(y, h) = R(b, h)
    PROVE  Tidied(db, b, l, r)
BY DEF Tidied

\* The one thing in use, or 255.
LEMMA UsedIs ==
    ASSUME NEW c, \A i \in Nibbles : IsNode(c[i]), NEW v, InUse(Bra(c, v)) # {},
           NEW x, x = UniqueInUse(Bra(c, v), 255)
    PROVE  /\ x = 255 => TwoInUse(Bra(c, v))
           /\ x # 255 => /\ x \in InUse(Bra(c, v)) /\ \A y \in InUse(Bra(c, v)) : y = x
                         /\ x \in Nibbles \/ x = ValueSlot
<1> DEFINE U == InUse(Bra(c, v))
           T == U \ {255}
<1>1. \A i \in U : i \in Nibbles \/ i = ValueSlot
  BY InUseBra
<1>4. x = IF Cardinality(T) = 1 THEN CHOOSE i \in T : TRUE ELSE 255
  BY DEF UniqueInUse
<1>6. TwoInUse(Bra(c, v)) <=> \E i, j \in U : i # j
  BY DEF TwoInUse
<1>u. U # {}
  OBVIOUS
<1> HIDE DEF U
<1>2. U \subseteq 0 .. 16 /\ T = U
  <2>1. \A i \in Nibbles : i \in 0 .. 15
    BY NibblesAssumption, Zenon
  <2>2. ASSUME NEW i \in U PROVE i \in 0 .. 16
    BY <1>1, <2>1, <2>2 DEF ValueSlot
  <2>3. ASSUME NEW i \in U PROVE i # 255
    BY <2>2
  <2> QED
    BY <2>2, <2>3
<1> HIDE DEF T
<1>5. IsFiniteSet(T)
  <2>1. IsFiniteSet(0 .. 16)
    <3>1. 0 \in Int /\ 16 \in Int
      OBVIOUS
    <3> QED
      BY <3>1, FS_Interval, Zenon
  <2> QED
    BY <1>2, <2>1, FS_Subset
<1>7. T # {}
  BY <1>u, <1>2
<1>8. CASE Cardinality(T) = 1
  <2>1. \E y : T = {y}
    BY <1>5, <1>8, FS_Singleton
  <2>2. x \in T /\ \A y \in T : y = x
    BY <1>4, <1>8, <2>1
  <2>3. x # 255
    BY <1>2, <2>2
  <2> QED
    BY <1>1, <1>2, <2>2, <2>3 DEF U
<1>9. CASE Cardinality(T) # 1
  <2>1. x = 255
    BY <1>4, <1>9
  <2>2. ASSUME ~\E i, j \in T : i # j PROVE FALSE
    <3>1. PICK i : i \in T
      BY <1>7
    <3>2. T = {i}
      BY <2>2, <3>1
    <3> QED
      BY <1>9, <3>2, FS_Singleton
  <2> QED
    BY <1>2, <1>6, <2>1, <2>2
<1> QED
  BY <1>8, <1>9

\* A pair grafted below the nibbles that lead to it.
LEMMA PairMade ==
    ASSUME NEW m, NEW l, NEW D, Trie(m, l, D), m.kind = "pair"
    PROVE  Pair(m.key, m.leaf, m.item) = m /\ m # Null
<1>1. m = Null \/ AsLeaf(m, l) \/ AsExt(m, l, D) \/ AsBra(m, l, D)
  BY TrieCases
<1>2. m # Null
  BY NullNotOthers
<1>3. CASE AsLeaf(m, l)
  <2>1. PICK k \in Seq(Nibbles), v \in Values : m = Leaf(k, v)
    BY <1>3 DEF AsLeaf
  <2>2. m.key = k /\ m.leaf = TRUE /\ m.item = v
    BY <2>1, Fields
  <2> QED
    BY <1>2, <2>1, <2>2 DEF Leaf
<1>4. CASE AsExt(m, l, D)
  <2>ext. PICK k \in Seq(Nibbles) : \E y : m = Ext(k, y)
    BY <1>4, Zenon DEF AsExt
  <2>1. PICK y : m = Ext(k, y)
    BY <2>ext, Zenon
  <2>2. m.key = k /\ m.leaf = FALSE /\ m.item = SlotFor(y)
    BY <2>1, Fields DEF Ext
  <2> QED
    BY <1>2, <2>1, <2>2 DEF Ext, Extension
<1>5. CASE AsBra(m, l, D)
  BY <1>5, NullNotOthers DEF AsBra
<1> QED
  BY <1>1, <1>2, <1>3, <1>4, <1>5

\* A pair behind a key is a trie.
LEMMA GraftTrie ==
    ASSUME NEW m, NEW l, NEW a \in Nat, NEW D, Trie(m, l - a, D), l \in Nat, m.kind = "pair",
           NEW j \in Seq(Nibbles), j # <<>>, Len(j) = a, a <= l
    PROVE  Trie(Pair(j \o m.key, m.leaf, m.item), l, D)
<1>1. m = Null \/ AsLeaf(m, l - a) \/ AsExt(m, l - a, D) \/ AsBra(m, l - a, D)
  BY TrieCases
<1>2. m # Null
  BY NullNotOthers
<1>3. CASE AsLeaf(m, l - a)
  <2>1. PICK k \in Seq(Nibbles), v \in Values : Len(k) <= l - a /\ m = Leaf(k, v)
    BY <1>3 DEF AsLeaf
  <2>2. m.key = k /\ m.leaf = TRUE /\ m.item = v
    BY <2>1, Fields
  <2>3. j \o k \in Seq(Nibbles) /\ Len(j \o k) = a + Len(k) /\ Len(k) \in Nat
    BY Concatenated
  <2>4. Len(j \o k) <= l
    <3> DEFINE x == Len(j \o k)
               y == Len(k)
    <3>1. x = a + y /\ y \in Nat /\ y <= l - a
      BY <2>1, <2>3
    <3>2. x <= l
      <4> HIDE DEF x, y
      <4> QED
        BY <3>1
    <3> QED
      BY <3>2
  <2>5. Trie(Leaf(j \o k, v), l, D)
    BY <2>3, <2>4, LeafTrie
  <2> QED
    BY <2>2, <2>5 DEF Leaf
<1>4. CASE AsExt(m, l - a, D)
  <2>ext. PICK k \in Seq(Nibbles) : \E y :
         /\ k # <<>> /\ Len(k) <= l - a /\ Trie(y, (l - a) - Len(k), D)
         /\ y.kind = "branch" /\ Kept(y, D) /\ m = Ext(k, y)
    BY <1>4, Zenon DEF AsExt
  <2>1. PICK y :
         /\ k # <<>> /\ Len(k) <= l - a /\ Trie(y, (l - a) - Len(k), D)
         /\ y.kind = "branch" /\ Kept(y, D) /\ m = Ext(k, y)
    BY <2>ext, Zenon
  <2>2. m.key = k /\ m.leaf = FALSE /\ m.item = SlotFor(y)
    BY <2>1, Fields DEF Ext
  <2>3. j \o k \in Seq(Nibbles) /\ Len(j \o k) = a + Len(k) /\ Len(k) \in Nat
    BY Concatenated
  <2>4. Len(j \o k) <= l /\ (l - a) - Len(k) = l - Len(j \o k)
    <3> DEFINE x == Len(j \o k)
               z == Len(k)
    <3>1. x = a + z /\ z \in Nat /\ z <= l - a
      BY <2>1, <2>3
    <3>2. x <= l /\ (l - a) - z = l - x
      <4> HIDE DEF x, z
      <4> QED
        BY <3>1
    <3> QED
      BY <3>2
  <2>5. j \o k # <<>>
    <3>1. Len(k) # 0
      BY <2>1, EmptyIs
    <3>2. Len(j \o k) # 0
      <4> DEFINE x == Len(j \o k)
                 z == Len(k)
      <4>1. x = a + z /\ z \in Nat /\ z # 0
        BY <2>3, <3>1
      <4>2. x # 0
        <5> HIDE DEF x, z
        <5> QED
          BY <4>1
      <4> QED
        BY <4>2
    <3> QED
      BY <2>3, <3>2, EmptyIs
  <2>6. Trie(Ext(j \o k, y), l, D)
    <3> DEFINE w == j \o k
    <3>1. w \in Seq(Nibbles) /\ w # <<>> /\ Len(w) <= l /\ Trie(y, l - Len(w), D)
      BY <2>1, <2>3, <2>4, <2>5
    <3> HIDE DEF w
    <3>2. Trie(Ext(w, y), l, D)
      BY <2>1, <3>1, ExtTrie
    <3> QED
      BY <3>2 DEF w
  <2> QED
    BY <2>2, <2>6 DEF Ext, Extension
<1>5. CASE AsBra(m, l - a, D)
  BY <1>5, NullNotOthers DEF AsBra
<1> QED
  BY <1>1, <1>2, <1>3, <1>4, <1>5
\* Graft, where an extension leads to a pair.
LEMMA GraftIs ==
    ASSUME NEW db, Store(db), NEW l \in Nat, NEW j \in Seq(Nibbles), j # <<>>, Len(j) <= l,
           NEW m, Trie(m, l - Len(j), DOMAIN db), m.kind = "pair", Kept(m, DOMAIN db)
    PROVE  Tidied(db, Ext(j, m), l, Graft(db, Ext(j, m)))
<1> DEFINE y == Pair(j \o m.key, m.leaf, m.item)
           e == KillNode(db, m)
           r == Changed(y, e)
           a == Len(j)
           n == Ext(j, m)
<1>0. IsNode(m) /\ a \in Nat
  BY TrieIsNode
<1>1. n.key = j /\ n.item = SlotFor(m)
  BY Fields DEF Ext
<1>2. Deref(db, n.item) = m
  BY <1>0, <1>1, DerefIs
<1>3. Graft(db, n) = r
  <2>1. CASE Fits(m)
    <3>1. n.item.kind # "hash"
      BY <1>0, <1>1, <2>1, Slots
    <3>2. KillNode(db, m) = db
      BY <2>1 DEF KillNode
    <3> HIDE DEF n
    <3> QED
      BY <1>1, <1>2, <3>1, <3>2 DEF Graft
  <2>2. CASE ~Fits(m)
    <3>1. n.item.kind = "hash" /\ n.item = HashOf(m)
      BY <1>0, <1>1, <2>2, Slots
    <3>2. n.item.node = m
      BY <3>1, Fields
    <3>3. KillNode(db, m) = DbKill(db, m)
      BY <2>2 DEF KillNode
    <3> HIDE DEF n
    <3> QED
      BY <1>1, <1>2, <3>1, <3>2, <3>3 DEF Graft
  <2> QED
    BY <2>1, <2>2
<1>4. r.b = y /\ r.db = e /\ r.out = "changed"
  BY ChangedIs
<1> HIDE DEF r
<1>5. /\ Store(e) /\ DOMAIN e = DOMAIN db
      /\ \A h : Cnt(e, h) <= Cnt(db, h)
      /\ Cnt(db, m) >= Self(m, m) => \A h : Cnt(e, h) + Self(m, h) = Cnt(db, h)
      /\ Clean(db) => Clean(e)
  BY KillNodeIs
<1>6. Trie(y, l, DOMAIN db)
  BY <1>0, GraftTrie
<1>7. y.kind = "pair" /\ y.key = j \o m.key /\ y.leaf = m.leaf /\ y.item = m.item
  <2> DEFINE w == j \o m.key
             f == m.leaf
             g == m.item
  <2>1. y = Pair(w, f, g)
    OBVIOUS
  <2> HIDE DEF w, f, g, y
  <2>2. y.kind = "pair" /\ y.key = w /\ y.leaf = f /\ y.item = g
    BY <2>1, Fields
  <2> QED
    BY <2>2 DEF w, f, g
<1>8. Pair(m.key, m.leaf, m.item) = m /\ m # Null
  BY PairMade
<1>9. m.key \in Seq(Nibbles) /\ (m.leaf \/ m.key # <<>>)
  BY PairIs
<1>10. y # Null
  BY <1>7, Fields
<1> HIDE DEF y, e
<1>11. CutAt(DOMAIN db, l, y, j, m.key, Pair(m.key, y.leaf, y.item))
  <2> DEFINE b == m.key
  <2>1. b \in Seq(Nibbles) /\ y.key = j \o b /\ (y.leaf \/ b # <<>>)
    BY <1>7, <1>9
  <2> HIDE DEF b
  <2>2. CutAt(DOMAIN db, l, y, j, b, Pair(b, y.leaf, y.item))
    BY <1>6, <1>7, <2>1, CutPair
  <2> QED
    BY <2>2 DEF b
<1>12. CutAt(DOMAIN db, l, y, j, m.key, m)
  BY <1>7, <1>8, <1>11
<1>13. /\ \A h : R(m, h) = R(y, h)
       /\ \A q \in Seq(Nibbles) : Find(y, j \o q) = Find(m, q)
       /\ \A q \in Seq(Nibbles) : ~Contains(q, j) => Find(y, q) = NoValue
  BY <1>12 DEF CutAt
<1>14. ASSUME NEW x \in Seq(Nibbles) PROVE Find(y, x) = Find(n, x)
  <2>1. CASE Contains(x, j)
    <3>1. PICK q \in Seq(Nibbles) : x = j \o q
      BY <2>1, ContainsCut
    <3>2. Find(n, j \o q) = Find(m, q)
      BY FindExtIn
    <3> QED
      BY <1>13, <3>1, <3>2
  <2>2. CASE ~Contains(x, j)
    <3>1. Find(n, x) = NoValue
      BY <2>2, FindExtOut
    <3> QED
      BY <1>13, <2>2, <3>1
  <2> QED
    BY <2>1, <2>2
<1>15. \A h : R(n, h) = S(m, h)
  BY RExt
<1>16. \A h : S(m, h) = R(m, h) + Self(m, h) /\ R(m, h) \in Nat
  BY SpotsFinite
<1>17. \A h : Self(m, h) \in Nat /\ Cnt(db, h) \in Nat /\ Cnt(e, h) \in Nat
  BY <1>5, OneNat, CntNat
<1> HIDE DEF n
<1>18. ASSUME \A h : Cnt(db, h) >= R(n, h), NEW h
       PROVE  Cnt(e, h) + R(n, h) = Cnt(db, h) + R(y, h)
  <2>1. Cnt(db, m) >= Self(m, m)
    <3> DEFINE x == Self(m, m)
               z == R(m, m)
    <3>1. Cnt(db, m) >= z + x /\ z \in Nat /\ x \in Nat /\ Cnt(db, m) \in Nat
      BY <1>15, <1>16, <1>17, <1>18
    <3>2. Cnt(db, m) >= x
      <4> HIDE DEF x, z
      <4> QED
        BY <3>1
    <3> QED
      BY <3>2
  <2>2. Cnt(e, h) + Self(m, h) = Cnt(db, h)
    BY <1>5, <2>1
  <2>3. R(n, h) = R(m, h) + Self(m, h) /\ R(y, h) = R(m, h)
    BY <1>13, <1>15, <1>16
  <2>4. R(m, h) \in Nat /\ Self(m, h) \in Nat /\ Cnt(e, h) \in Nat /\ Cnt(db, h) \in Nat
    BY <1>16, <1>17
  <2> QED
    BY <2>2, <2>3, <2>4
<1>19. Tidied(db, n, l, r)
  <2>1. Trie(r.b, l, DOMAIN r.db) /\ Store(r.db) /\ DOMAIN db \subseteq DOMAIN r.db /\ r.b # Null
    BY <1>4, <1>5, <1>6, <1>10
  <2>2. \A x \in Seq(Nibbles) : Find(r.b, x) = Find(n, x)
    BY <1>4, <1>14
  <2>3. Clean(db) => Clean(r.db)
    BY <1>4, <1>5
  <2>4. (\A h : Cnt(db, h) >= R(n, h)) => \A h : Cnt(r.db, h) + R(n, h) = Cnt(db, h) + R(r.b, h)
    BY <1>4, <1>18, Zenon
  <2> QED
    BY <1>4, <2>1, <2>2, <2>3, <2>4, Zenon DEF Tidied
<1> QED
  BY <1>3, <1>19 DEF n

\* An extension whose child was changed.
LEMMA ExtTidied ==
    ASSUME NEW db, Store(db), NEW l \in Nat, NEW j \in Seq(Nibbles), j # <<>>, Len(j) <= l,
           NEW m, Trie(m, l - Len(j), DOMAIN db), m # Null, Kept(m, DOMAIN db),
           NEW r, r = IF m.kind = "pair" THEN Graft(db, Ext(j, m)) ELSE Changed(Ext(j, m), db)
    PROVE  Tidied(db, Ext(j, m), l, r)
<1>1. CASE m.kind = "pair"
  BY <1>1, GraftIs
<1>2. CASE m.kind # "pair"
  <2>1. m.kind = "branch"
    <3> DEFINE a == l - Len(j)
    <3>1. Trie(m, a, DOMAIN db)
      OBVIOUS
    <3> HIDE DEF a
    <3>2. m = Null \/ AsLeaf(m, a) \/ AsExt(m, a, DOMAIN db) \/ AsBra(m, a, DOMAIN db)
      BY <3>1, TrieCases
    <3>3. ~AsLeaf(m, a)
      BY <1>2, NullNotOthers DEF AsLeaf
    <3>4. ~AsExt(m, a, DOMAIN db)
      BY <1>2, NullNotOthers DEF AsExt
    <3>5. AsBra(m, a, DOMAIN db)
      BY <3>2, <3>3, <3>4
    <3> QED
      BY <3>5, NullNotOthers DEF AsBra
  <2>2. Trie(Ext(j, m), l, DOMAIN db)
    BY <2>1, ExtTrie
  <2>3. Ext(j, m) # Null
    BY NullNotOthers
  <2> QED
    BY <1>2, <2>2, <2>3, TidiedAsIs
<1> QED
  BY <1>1, <1>2

\* A throw promises nothing of the result.
LEMMA TidiedThrows ==
    ASSUME NEW db, NEW b, NEW l
    PROVE  Tidied(db, b, l, Threw(db))
BY DEF Tidied, Threw

\* A branch with one child left, and with its value left.
LEMMA OnlyChild ==
    ASSUME NEW l, NEW D, NEW c, Tries(c, l, D), NEW i \in Nibbles,
           \A x \in Nibbles : x # i => c[x] = Null
    PROVE  /\ \A h : R(Ext(<<i>>, c[i]), h) = R(Bra(c, NoValue), h)
           /\ \A x \in Seq(Nibbles) : Find(Ext(<<i>>, c[i]), x) = Find(Bra(c, NoValue), x)
<1>1. \A x \in Nibbles : Trie(c[x], l, D) /\ IsNode(c[x])
  BY TriesAre
<1>2. ASSUME NEW h PROVE R(Ext(<<i>>, c[i]), h) = R(Bra(c, NoValue), h)
  <2>1. R(Bra(c, NoValue), h) = S(c[i], h)
    BY ROnly
  <2>2. R(Ext(<<i>>, c[i]), h) = S(c[i], h)
    <3> DEFINE q == <<i>>
    <3>1. q \in Seq(Nibbles) /\ q # <<>>
      OBVIOUS
    <3>2. Trie(c[i], l, D)
      BY <1>1
    <3> HIDE DEF q
    <3>3. R(Ext(q, c[i]), h) = S(c[i], h)
      BY <3>1, <3>2, RExt
    <3> QED
      BY <3>3 DEF q
  <2> QED
    BY <2>1, <2>2
<1>3. ASSUME NEW x \in Seq(Nibbles) PROVE Find(Ext(<<i>>, c[i]), x) = Find(Bra(c, NoValue), x)
  <2>1. Find(Ext(<<i>>, c[i]), x) = IF x # <<>> /\ Head(x) = i THEN Find(c[i], Tail(x)) ELSE NoValue
    BY <1>1, FindExtOne
  <2>2. CASE x = <<>>
    BY <1>1, <2>1, <2>2, FindBra
  <2>3. CASE x # <<>>
    <3>1. Find(Bra(c, NoValue), x) = Find(c[Head(x)], Tail(x))
      BY <1>1, <2>3, FindBra
    <3>2. CASE Head(x) = i
      BY <2>1, <2>3, <3>1, <3>2
    <3>3. CASE Head(x) # i
      <4>1. Head(x) \in Nibbles /\ Tail(x) \in Seq(Nibbles)
        BY <2>3, HeadAndTail
      <4>2. c[Head(x)] = Null
        BY <3>3, <4>1
      <4>3. Find(Null, Tail(x)) = NoValue
        BY <4>1, FindNull
      <4> QED
        BY <2>1, <3>1, <3>3, <4>2, <4>3
    <3> QED
      BY <3>2, <3>3
  <2> QED
    BY <2>2, <2>3
<1> QED
  BY <1>2, <1>3, Zenon

\* A branch of a value alone holds what the leaf of no key does.
LEMMA OnlyValue ==
    ASSUME NEW l, NEW D, NEW c, Tries(c, l, D), NEW u, \A x \in Nibbles : c[x] = Null
    PROVE  /\ \A h : R(Leaf(<<>>, u), h) = R(Bra(c, u), h)
           /\ \A x \in Seq(Nibbles) : Find(Leaf(<<>>, u), x) = Find(Bra(c, u), x)
<1>1. \A x \in Nibbles : Trie(c[x], l, D) /\ IsNode(c[x])
  BY TriesAre
<1>2. ASSUME NEW h PROVE R(Leaf(<<>>, u), h) = R(Bra(c, u), h)
  <2>1. PICK i : i \in Nibbles
    BY NibblesAssumption
  <2>2. R(Bra(c, u), h) = S(c[i], h)
    BY <2>1, ROnly
  <2>3. S(c[i], h) = 0
    BY <2>1, RNone
  <2>4. R(Leaf(<<>>, u), h) = 0
    BY RLeaf
  <2> QED
    BY <2>2, <2>3, <2>4
<1>3. ASSUME NEW x \in Seq(Nibbles) PROVE Find(Leaf(<<>>, u), x) = Find(Bra(c, u), x)
  <2>1. Find(Leaf(<<>>, u), x) = IF x = <<>> THEN u ELSE NoValue
    BY FindLeaf
  <2>2. CASE x = <<>>
    BY <1>1, <2>1, <2>2, FindBra
  <2>3. CASE x # <<>>
    <3>1. Find(Bra(c, u), x) = Find(c[Head(x)], Tail(x))
      BY <1>1, <2>3, FindBra
    <3>2. Head(x) \in Nibbles /\ Tail(x) \in Seq(Nibbles)
      BY <2>3, HeadAndTail
    <3>3. Find(Null, Tail(x)) = NoValue
      BY <3>2, FindNull
    <3> QED
      BY <2>1, <2>3, <3>1, <3>2, <3>3
  <2> QED
    BY <2>2, <2>3
<1> QED
  BY <1>2, <1>3, Zenon
\* A branch that lost something is left as it is, or becomes a pair.
LEMMA RejigIs ==
    ASSUME NEW db, Store(db), NEW l \in Nat, l > 0, NEW c,
           \A i \in Nibbles : Trie(c[i], l - 1, DOMAIN db) /\ Kept(c[i], DOMAIN db),
           NEW u \in Values \cup {NoValue}, NEW b, b = Bra(c, u), InUse(b) # {},
           NEW x, x = UniqueInUse(b, 255)
    PROVE  Tidied(db, b, l, Rejig(db, b, x))
<1>1. \A i \in Nibbles : IsNode(c[i])
  BY TrieIsNode, Zenon
<1>2. Tries(c, l - 1, DOMAIN db)
  BY DEF Tries
<1>3. /\ x = 255 => TwoInUse(b)
      /\ x # 255 => /\ x \in InUse(b) /\ \A y \in InUse(b) : y = x
                    /\ x \in Nibbles \/ x = ValueSlot
  BY <1>1, UsedIs
<1>4. ValueSlot \notin Nibbles /\ ValueSlot # 255 /\ 255 \notin Nibbles
  <2>1. ValueSlot \notin Nibbles
    BY <1>1, InUseBra
  <2>2. \A i \in Nibbles : i \in 0 .. 15
    BY NibblesAssumption
  <2> QED
    BY <2>1, <2>2 DEF ValueSlot
<1>5. \A i \in Nibbles : i \in InUse(b) <=> c[i] # Null
  BY <1>1, InUseBra
<1>6. ValueSlot \in InUse(b) <=> u # NoValue
  BY <1>1, InUseBra
<1>7. CASE x = 255
  <2>1. Rejig(db, b, x) = Changed(b, db)
    BY <1>4, <1>7 DEF Rejig
  <2>2. Trie(b, l, DOMAIN db)
    BY <1>3, <1>7, BraTrie
  <2>3. b # Null
    BY NullNotOthers
  <2>4. Tidied(db, b, l, Changed(b, db))
    BY <2>2, <2>3, TidiedAsIs
  <2> QED
    BY <2>1, <2>4
<1>8. CASE x = ValueSlot
  <2>1. u \in Values /\ \A y \in Nibbles : c[y] = Null
    BY <1>3, <1>4, <1>5, <1>6, <1>8
  <2>2. b.value = u
    BY BraValue
  <2>3. Merge(b, x) = Leaf(<<>>, u)
    BY <1>8, <2>2 DEF Merge
  <2>4. Rejig(db, b, x) = Threw(db) \/ Rejig(db, b, x) = Changed(Leaf(<<>>, u), db)
    <3>1. Rejig(db, b, x) = IF SizeOf[b.value] > HashSize THEN Threw(db) ELSE Changed(Merge(b, x), db)
      BY <1>4, <1>8 DEF Rejig
    <3> QED
      BY <2>3, <3>1
  <2>5. Trie(Leaf(<<>>, u), l, DOMAIN db)
    <3> DEFINE q == <<>>
    <3>1. q \in Seq(Nibbles) /\ Len(q) <= l
      OBVIOUS
    <3> HIDE DEF q
    <3>2. Trie(Leaf(q, u), l, DOMAIN db)
      BY <2>1, <3>1, LeafTrie
    <3> QED
      BY <3>2 DEF q
  <2>6. Leaf(<<>>, u) # Null
    BY NullNotOthers
  <2>7. /\ \A h : R(Leaf(<<>>, u), h) = R(b, h)
        /\ \A y \in Seq(Nibbles) : Find(Leaf(<<>>, u), y) = Find(b, y)
    BY <1>2, <2>1, OnlyValue
  <2>8. Tidied(db, b, l, Changed(Leaf(<<>>, u), db))
    BY <2>5, <2>6, <2>7, TidiedAsIs
  <2> QED
    BY <2>4, <2>8, TidiedThrows
<1>9. CASE x \in Nibbles
  <2>1. u = NoValue /\ c[x] # Null /\ \A y \in Nibbles : y # x => c[y] = Null
    BY <1>3, <1>4, <1>5, <1>6, <1>9
  <2>2. b.child[x] = SlotFor(c[x])
    BY <1>9, BraChild
  <2> DEFINE q == <<x>>
             m == c[x]
             n == Ext(q, m)
  <2>3. Merge(b, x) = n
    BY <1>4, <1>9, <2>2 DEF Merge, Ext
  <2>4. Deref(db, b.child[x]) = m
    <3>1. IsNode(m) /\ Kept(m, DOMAIN db)
      BY <1>1, <1>9
    <3> QED
      BY <2>2, <3>1, DerefIs
  <2>5. Rejig(db, b, x) = IF m.kind = "pair" THEN Graft(db, n) ELSE Changed(n, db)
    <3> HIDE DEF m, n
    <3>1. Rejig(db, b, x) = IF IsTwoItemNode(db, b.child[x]) THEN Graft(db, Merge(b, x))
                            ELSE Changed(Merge(b, x), db)
      BY <1>4, <1>9 DEF Rejig
    <3>2. IsTwoItemNode(db, b.child[x]) <=> m.kind = "pair"
      BY <2>4 DEF IsTwoItemNode
    <3> QED
      BY <2>3, <3>1, <3>2
  <2>6. q \in Seq(Nibbles) /\ q # <<>> /\ Len(q) = 1
    BY <1>9
  <2>7. /\ \A h : R(n, h) = R(b, h)
        /\ \A y \in Seq(Nibbles) : Find(n, y) = Find(b, y)
    BY <1>2, <1>9, <2>1, OnlyChild
  <2>8. Trie(m, l - 1, DOMAIN db) /\ Kept(m, DOMAIN db) /\ m # Null
    BY <1>9, <2>1
  <2> HIDE DEF q, m
  <2>9. Len(q) <= l /\ Trie(m, l - Len(q), DOMAIN db)
    BY <2>6, <2>8
  <2>10. Tidied(db, n, l, Rejig(db, b, x))
    BY <2>5, <2>6, <2>8, <2>9, ExtTidied
  <2> HIDE DEF n
  <2> QED
    BY <2>7, <2>10, TidiedAlike
<1> QED
  BY <1>3, <1>7, <1>8, <1>9
\* What a removal makes of the node it is called for.
Deleted(db, n, l, k, r) ==
    /\ r.out \in {"changed", "unchanged", "threw"}
    /\ r.out = "unchanged" => r.db = db /\ Find(n, k) = NoValue
    /\ r.out = "threw" => Store(r.db) /\ DOMAIN db \subseteq DOMAIN r.db
    /\ r.out = "changed" =>
        /\ Changes(db, n, l, r) /\ (n.kind = "branch" => r.b # Null)
        /\ \A j \in Seq(Nibbles) : Find(r.b, j) = IF j = k THEN NoValue ELSE Find(n, j)

\* What was tidied after the entry was taken is the result without the entry.
LEMMA DeletedTidied ==
    ASSUME NEW db, Store(db), NEW n, NEW l, NEW D, Trie(n, l, D), NEW k,
           NEW e, Store(e), DOMAIN db \subseteq DOMAIN e,
           NEW y, \A h : R(y, h) \in Nat,
           \A j \in Seq(Nibbles) : Find(y, j) = IF j = k THEN NoValue ELSE Find(n, j),
           Books(db, n) => Clean(e) /\ \A h : Cnt(e, h) + S(n, h) = Cnt(db, h) + R(y, h),
           NEW r, Tidied(e, y, l, r)
    PROVE  Deleted(db, n, l, k, r)
<1>1. r.out = "changed" \/ (r.out = "threw" /\ r.db = e)
  BY DEF Tidied
<1>2. CASE r.out = "threw"
  <2>1. r.db = e
    BY <1>1, <1>2
  <2> QED
    BY <1>2, <2>1 DEF Deleted
<1>3. CASE r.out = "changed"
  <2>1. /\ Store(r.db) /\ DOMAIN e \subseteq DOMAIN r.db
        /\ Trie(r.b, l, DOMAIN r.db) /\ r.b # Null
        /\ \A x \in Seq(Nibbles) : Find(r.b, x) = Find(y, x)
        /\ Clean(e) => Clean(r.db)
        /\ (\A h : Cnt(e, h) >= R(y, h))
             => \A h : Cnt(r.db, h) + R(y, h) = Cnt(e, h) + R(r.b, h)
    BY <1>3, Zenon DEF Tidied
  <2>2. ASSUME Books(db, n)
        PROVE  Clean(r.db) /\ \A h : Cnt(r.db, h) + S(n, h) = Cnt(db, h) + R(r.b, h)
    <3>1. Clean(e) /\ \A h : Cnt(e, h) + S(n, h) = Cnt(db, h) + R(y, h)
      BY <2>2
    <3>2. \A h : Cnt(db, h) >= S(n, h)
      BY <2>2 DEF Books
    <3>3. \A h : Cnt(db, h) \in Nat /\ Cnt(e, h) \in Nat /\ Cnt(r.db, h) \in Nat
      BY <2>1, CntNat, Zenon
    <3>4. \A h : S(n, h) \in Nat /\ R(r.b, h) \in Nat /\ R(y, h) \in Nat
      BY <2>1, SpotsFinite, Zenon
    <3>5. ASSUME NEW h PROVE Cnt(e, h) >= R(y, h)
      <4> DEFINE a == Cnt(db, h)
                 b == Cnt(e, h)
                 s == S(n, h)
                 t == R(y, h)
      <4>1. a >= s /\ b + s = a + t /\ a \in Nat /\ b \in Nat /\ s \in Nat /\ t \in Nat
        BY <3>1, <3>2, <3>3, <3>4, Zenon
      <4>2. b >= t
        <5> HIDE DEF a, b, s, t
        <5> QED
          BY <4>1
      <4> QED
        BY <4>2
    <3>6. \A h : Cnt(r.db, h) + R(y, h) = Cnt(e, h) + R(r.b, h)
      BY <2>1, <3>5, Zenon
    <3>7. ASSUME NEW h PROVE Cnt(r.db, h) + S(n, h) = Cnt(db, h) + R(r.b, h)
      <4> DEFINE a == Cnt(db, h)
                 b == Cnt(e, h)
                 c == Cnt(r.db, h)
                 s == S(n, h)
                 t == R(y, h)
                 u == R(r.b, h)
      <4>1. /\ b + s = a + t /\ c + t = b + u
            /\ a \in Nat /\ b \in Nat /\ c \in Nat /\ s \in Nat /\ t \in Nat /\ u \in Nat
        BY <3>1, <3>3, <3>4, <3>6, Zenon
      <4>2. c + s = a + u
        <5> HIDE DEF a, b, c, s, t, u
        <5> QED
          BY <4>1
      <4> QED
        BY <4>2
    <3>8. Clean(r.db)
      BY <2>1, <3>1
    <3> QED
      BY <3>7, <3>8, Zenon
  <2>3. Balanced(db, n, r)
    BY <2>2, Zenon DEF Balanced
  <2>4. Changes(db, n, l, r)
    BY <2>1, <2>3, Zenon DEF Changes
  <2>5. \A j \in Seq(Nibbles) : Find(r.b, j) = IF j = k THEN NoValue ELSE Find(n, j)
    BY <2>1
  <2> QED
    BY <1>3, <2>1, <2>4, <2>5 DEF Deleted
<1> QED
  BY <1>1, <1>2, <1>3

\* The parts of results without a change.
LEMMA ResultsAre ==
    ASSUME NEW db
    PROVE  /\ NoChange(db).out = "unchanged" /\ NoChange(db).db = db
           /\ Threw(db).out = "threw" /\ Threw(db).db = db
BY DEF NoChange, Threw

\* No change where there was no entry.
LEMMA DeletedNot ==
    ASSUME NEW db, NEW n, NEW l, NEW k, Find(n, k) = NoValue
    PROVE  Deleted(db, n, l, k, NoChange(db))
BY ResultsAre DEF Deleted

\* A throw leaves the nodes stored.
LEMMA DeletedThrew ==
    ASSUME NEW db, Store(db), NEW n, NEW l, NEW k
    PROVE  Deleted(db, n, l, k, Threw(db))
BY ResultsAre DEF Deleted

\* The value of a branch.
LEMMA TakeBra ==
    ASSUME NEW db, Store(db), NEW l \in Nat, l > 0, NEW c,
           \A i \in Nibbles : Trie(c[i], l - 1, DOMAIN db) /\ Kept(c[i], DOMAIN db),
           NEW u \in Values \cup {NoValue}, NEW n, n = Bra(c, u), TwoInUse(n)
    PROVE  Deleted(db, n, l, <<>>, Rejig(KillNode(db, n), BranchNode(n.child, NoValue),
                                         UniqueInUse(n, ValueSlot)))
<1> DEFINE e == KillNode(db, n)
           b == Bra(c, NoValue)
<1>0. \A i \in Nibbles : IsNode(c[i])
  BY TrieIsNode, Zenon
<1>1. Tries(c, l - 1, DOMAIN db) /\ Trie(n, l, DOMAIN db)
  BY BraTrie DEF Tries
<1>2. BranchNode(n.child, NoValue) = b
  <2>1. n.child = [x \in Nibbles |-> SlotFor(c[x])]
    BY Fields DEF Bra
  <2> QED
    BY <2>1 DEF Bra
<1>3. Store(e) /\ DOMAIN e = DOMAIN db
  BY KillNodeIs
<1>4. InUse(n) \ {ValueSlot} = InUse(b) \ {255}
  <2>1. ASSUME NEW x PROVE x \in InUse(n) \ {ValueSlot} <=> x \in InUse(b) \ {255}
    <3>1. \A i \in Nibbles : i \in 0 .. 15
      BY NibblesAssumption
    <3>2. \A i \in Nibbles : i # 255 /\ i # ValueSlot
      BY <3>1 DEF ValueSlot
    <3>3. x \in InUse(n) => x \in Nibbles \/ x = ValueSlot
      BY <1>0, InUseBra
    <3>4. x \in InUse(b) => (x \in Nibbles \/ x = ValueSlot) /\ x # ValueSlot
      <4>1. x \in InUse(b) => x \in Nibbles \/ x = ValueSlot
        BY <1>0, InUseBra
      <4>2. ~(ValueSlot \in InUse(b))
        BY <1>0, InUseBra
      <4> QED
        BY <4>1, <4>2
    <3>5. x \in Nibbles => (x \in InUse(n) <=> c[x] # Null) /\ (x \in InUse(b) <=> c[x] # Null)
      BY <1>0, InUseBra
    <3> HIDE DEF b
    <3> QED
      BY <3>2, <3>3, <3>4, <3>5
  <2> QED
    BY <2>1
<1>5. UniqueInUse(n, ValueSlot) = UniqueInUse(b, 255)
  <2> DEFINE Of(T) == IF Cardinality(T) = 1 THEN CHOOSE i \in T : TRUE ELSE 255
             T1 == InUse(n) \ {ValueSlot}
             T2 == InUse(b) \ {255}
  <2>1. UniqueInUse(n, ValueSlot) = Of(T1) /\ UniqueInUse(b, 255) = Of(T2)
    BY DEF UniqueInUse
  <2>2. T1 = T2
    BY <1>4
  <2> HIDE DEF Of, T1, T2, b
  <2> QED
    BY <2>1, <2>2
<1>6. InUse(b) # {}
  <2>1. PICK i, j \in InUse(n) : i # j
    BY DEF TwoInUse
  <2>2. i # ValueSlot \/ j # ValueSlot
    BY <2>1
  <2> HIDE DEF b
  <2> QED
    BY <1>4, <2>1, <2>2
<1>7. Tidied(e, b, l, Rejig(e, b, UniqueInUse(b, 255)))
  <2>1. \A i \in Nibbles : Trie(c[i], l - 1, DOMAIN e) /\ Kept(c[i], DOMAIN e)
    BY <1>3
  <2> DEFINE y == b
             x == UniqueInUse(y, 255)
  <2>2. y = Bra(c, NoValue) /\ InUse(y) # {} /\ x = UniqueInUse(y, 255)
    BY <1>6
  <2> HIDE DEF e, y, x, b
  <2>3. Tidied(e, y, l, Rejig(e, y, x))
    BY <1>3, <2>1, <2>2, RejigIs
  <2> QED
    BY <2>3 DEF x, y
<1>8. \A h : R(b, h) = R(n, h)
  BY <1>1, RValue
<1>9. \A h : R(b, h) \in Nat
  BY <1>1, <1>8, SpotsFinite
<1>10. \A j \in Seq(Nibbles) : Find(b, j) = IF j = <<>> THEN NoValue ELSE Find(n, j)
  BY <1>0, FindValue
<1>11. ASSUME Books(db, n)
       PROVE  Clean(e) /\ \A h : Cnt(e, h) + S(n, h) = Cnt(db, h) + R(b, h)
  <2>1. /\ Clean(e) /\ \A h : Cnt(e, h) + Self(n, h) = Cnt(db, h)
        /\ \A h : Cnt(e, h) \in Nat
    BY <1>1, <1>11, KillCounts
  <2>2. \A h : S(n, h) = R(n, h) + Self(n, h) /\ R(n, h) \in Nat
    BY <1>1, SpotsFinite
  <2>3. \A h : Self(n, h) \in Nat
    BY OneNat
  <2>4. ASSUME NEW h PROVE Cnt(e, h) + S(n, h) = Cnt(db, h) + R(b, h)
    <3> DEFINE x == Cnt(e, h)
               s == Self(n, h)
               t == R(n, h)
               w == Cnt(db, h)
               z == S(n, h)
    <3>1. x + s = w /\ z = t + s /\ R(b, h) = t /\ x \in Nat /\ s \in Nat /\ t \in Nat
      BY <1>8, <2>1, <2>2, <2>3, Zenon
    <3>2. x + z = w + t
      <4> HIDE DEF x, s, t, w, z
      <4> QED
        BY <3>1
    <3> QED
      BY <3>1, <3>2
  <2> QED
    BY <2>1, <2>4, Zenon
<1> DEFINE r == Rejig(e, b, UniqueInUse(b, 255))
<1>12. Deleted(db, n, l, <<>>, r)
  <2>1. Tidied(e, b, l, r)
    BY <1>7
  <2> HIDE DEF r, e, b
  <2> QED
    BY <1>1, <1>3, <1>9, <1>10, <1>11, <2>1, DeletedTidied
<1> HIDE DEF b, e
<1> QED
  BY <1>2, <1>5, <1>12 DEF e
\* Where the removal of a key goes no further.
LEMMA TakeIs ==
    ASSUME NEW c, NEW db, db = c.db, Store(db), NEW l, NEW n, n = NodeOf(c), Trie(n, l, DOMAIN db),
           NEW k \in Seq(Nibbles), k = c.key, ~Follows(n, k)
    PROVE  Deleted(db, n, l, k, Take(c))
<1>1. l \in Nat /\ (n = Null \/ AsLeaf(n, l) \/ AsExt(n, l, DOMAIN db) \/ AsBra(n, l, DOMAIN db))
  BY TrieCases
<1>t. Take(c) = CASE n.kind = "branch" ->
                Rejig(KillNode(db, n), BranchNode(n.child, NoValue), UniqueInUse(n, ValueSlot))
          [] n.kind = "pair" /\ Contains(k, n.key) ->
                IF k = n.key THEN Changed(Null, KillNode(db, n)) ELSE Threw(db)
          [] OTHER -> NoChange(db)
  BY Zenon DEF Take
<1>2. CASE n = Null
  <2>1. n.kind = "null"
    BY <1>2, NullNotOthers
  <2>2. Take(c) = NoChange(db)
    BY <1>t, <2>1
  <2>3. Find(n, k) = NoValue
    BY <1>2, FindNull
  <2> QED
    BY <2>2, <2>3, DeletedNot
<1>3. CASE AsLeaf(n, l)
  <2>1. PICK j \in Seq(Nibbles), u \in Values : Len(j) <= l /\ n = Leaf(j, u)
    BY <1>3 DEF AsLeaf
  <2>2. n.kind = "pair" /\ n.key = j
    BY <2>1, Fields
  <2>3. Take(c) = IF ~Contains(k, j) THEN NoChange(db)
                  ELSE IF k = j THEN Changed(Null, KillNode(db, n)) ELSE Threw(db)
    BY <1>t, <2>2
  <2>4. CASE ~Contains(k, j)
    <3>1. k # j
      <4>1. j \o <<>> = j /\ <<>> \in Seq(Nibbles)
        OBVIOUS
      <4>2. Contains(j, j)
        BY <4>1, ContainsMade
      <4> QED
        BY <2>4, <4>2
    <3>2. Find(n, k) = NoValue
      BY <2>1, <3>1, FindLeaf
    <3> QED
      BY <2>3, <2>4, <3>2, DeletedNot
  <2>5. CASE Contains(k, j) /\ k # j
    BY <2>3, <2>5, DeletedThrew
  <2>6. CASE Contains(k, j) /\ k = j
    <3> DEFINE r == Changed(Null, KillNode(db, n))
    <3>1. r.out = "changed" /\ r.b = Null /\ r.db = KillNode(db, n)
      BY ChangedIs
    <3>2. Balanced(db, n, r)
      <4>1. \A h : R(Null, h) = R(n, h)
        BY <2>1, RNone, RLeaf
      <4> QED
        BY <4>1, BalancedKill
    <3> HIDE DEF r
    <3>3. Store(r.db) /\ DOMAIN r.db = DOMAIN db
      BY <3>1, KillNodeIs
    <3>4. Trie(r.b, l, DOMAIN r.db)
      BY <1>1, <3>1, NullTrie
    <3>5. Changes(db, n, l, r)
      BY <3>2, <3>3, <3>4 DEF Changes
    <3>6. ASSUME NEW x \in Seq(Nibbles) PROVE Find(r.b, x) = IF x = k THEN NoValue ELSE Find(n, x)
      BY <2>1, <2>6, <3>1, FindNull, FindLeaf
    <3>7. n.kind # "branch"
      BY <2>2
    <3>8. Deleted(db, n, l, k, r)
      BY <3>1, <3>5, <3>6, <3>7 DEF Deleted
    <3> QED
      BY <2>3, <2>6, <3>8 DEF r
  <2> QED
    BY <2>4, <2>5, <2>6
<1>4. CASE AsExt(n, l, DOMAIN db)
  <2>ext. PICK j \in Seq(Nibbles) : \E m :
         /\ j # <<>> /\ Trie(m, l - Len(j), DOMAIN db) /\ n = Ext(j, m)
    BY <1>4, Zenon DEF AsExt
  <2>1. PICK m :
         /\ j # <<>> /\ Trie(m, l - Len(j), DOMAIN db) /\ n = Ext(j, m)
    BY <2>ext, Zenon
  <2>2. n.kind = "pair" /\ n.key = j
    BY <2>1, Fields DEF Ext
  <2>3. ~Contains(k, j)
    BY <2>1, FollowsNot DEF Ext
  <2>4. Take(c) = NoChange(db)
    BY <1>t, <2>2, <2>3
  <2>5. Find(n, k) = NoValue
    BY <2>1, <2>3, FindExtOut
  <2> QED
    BY <2>4, <2>5, DeletedNot
<1>5. CASE AsBra(n, l, DOMAIN db)
  <2>1. PICK a, u :
        /\ l > 0 /\ u \in Values \cup {NoValue}
        /\ \A i \in Nibbles : Trie(a[i], l - 1, DOMAIN db) /\ Kept(a[i], DOMAIN db)
        /\ n = Bra(a, u) /\ TwoInUse(n)
    BY <1>5, Zenon DEF AsBra
  <2>2. n.kind = "branch"
    BY <2>1, NullNotOthers
  <2>3. Take(c) = Rejig(KillNode(db, n), BranchNode(n.child, NoValue), UniqueInUse(n, ValueSlot))
    BY <1>t, <2>2
  <2>4. k = <<>>
    <3>1. \A i \in Nibbles : IsNode(a[i])
      BY <2>1, TrieIsNode, Zenon
    <3> QED
      BY <2>1, <3>1, FollowsBra
  <2>5. Deleted(db, n, l, <<>>, Rejig(KillNode(db, n), BranchNode(n.child, NoValue),
                                      UniqueInUse(n, ValueSlot)))
    BY <1>1, <2>1, TakeBra
  <2> QED
    BY <2>3, <2>4, <2>5
<1> QED
  BY <1>1, <1>2, <1>3, <1>4, <1>5

\* What becomes of a node when its child was not changed.
LEMMA ShrinkNot ==
    ASSUME NEW db, NEW n, NEW l, NEW k, NEW m, NEW j, NEW q, NEW p, Deleted(db, m, j, q, p),
           p.out # "changed", Find(n, k) = Find(m, q)
    PROVE  Deleted(db, n, l, k, Shrink(n, k, StreamChanged(p)))
<1> DEFINE t == StreamChanged(p)
           r == Shrink(n, k, t)
<1>1. t.out = p.out /\ t.db = p.db
  BY DEF StreamChanged
<1> HIDE DEF t
<1>2. r = t
  BY <1>1 DEF Shrink
<1> HIDE DEF r
<1>3. Deleted(db, n, l, k, r)
  BY <1>1, <1>2 DEF Deleted
<1> QED
  BY <1>3 DEF r, t

\* What deleteAt does with a child that changed.
LEMMA ShrinkChanged ==
    ASSUME NEW n, NEW k, NEW p, p.out = "changed", NEW t, t = StreamNode(p), t.out = p.out,
           NEW e, e = KillNode(t.db, n), NEW y, y = WithBelow(n, k, t.slot)
    PROVE  /\ n.kind = "branch" => Shrink(n, k, StreamChanged(p)) = Rejig(e, y, UniqueInUse(y, 255))
           /\ n.kind # "branch" => Shrink(n, k, StreamChanged(p)) =
                  IF IsTwoItemNode(e, t.slot) THEN Graft(e, y) ELSE Changed(y, e)
<1>1. StreamChanged(p) = t
  BY DEF StreamChanged
<1> QED
  BY <1>1 DEF Shrink
\* The store once a changed child is in it and its parent's reference is gone.
Relinked(db, n, m, a, b, e) ==
    /\ Store(e) /\ DOMAIN db \subseteq DOMAIN e
    /\ Trie(b, a, DOMAIN e) /\ Kept(b, DOMAIN e)
    /\ Books(db, n) => /\ Clean(e)
                       /\ \A h : Cnt(e, h) + S(n, h) + S(m, h) = Cnt(db, h) + S(b, h) + R(n, h)

\* The child streamed and then the node killed.
LEMMA RelinkedIs ==
    ASSUME NEW db, Store(db), NEW n, NEW l, Trie(n, l, DOMAIN db),
           NEW m, NEW a, Trie(m, a, DOMAIN db), \A h : S(m, h) <= R(n, h),
           NEW p, Changes(db, m, a, p), NEW t, t = StreamNode(p), NEW e, e = KillNode(t.db, n)
    PROVE  Relinked(db, n, m, a, p.b, e) /\ t.slot = SlotFor(p.b) /\ t.out = p.out
<1> DEFINE b == p.b
<1>1. Store(p.db) /\ DOMAIN db \subseteq DOMAIN p.db /\ Trie(b, a, DOMAIN p.db) /\ Balanced(db, m, p)
  BY DEF Changes
<1>2. /\ Store(t.db) /\ DOMAIN p.db \subseteq DOMAIN t.db
      /\ Trie(b, a, DOMAIN t.db) /\ Kept(b, DOMAIN t.db)
      /\ \A h : Cnt(t.db, h) = Cnt(p.db, h) + Self(b, h)
      /\ Clean(p.db) => Clean(t.db)
  BY <1>1, StreamTrie
<1>3. t.slot = SlotFor(p.b) /\ t.out = p.out
  BY <1>1, StreamTrie
<1>4. /\ Store(e) /\ DOMAIN e = DOMAIN t.db
      /\ Cnt(t.db, n) >= Self(n, n) => \A h : Cnt(e, h) + Self(n, h) = Cnt(t.db, h)
      /\ Clean(t.db) => Clean(e)
  BY <1>2, KillNodeIs
<1>p. \A h : Balanced(db, m, p) /\ Books(db, m) => /\ Clean(p.db)
                    /\ Cnt(p.db, h) + S(m, h) = Cnt(db, h) + R(b, h)
  BY Zenon DEF Balanced
<1> HIDE DEF b
<1>5. ASSUME Books(db, n)
      PROVE  /\ Clean(e)
             /\ \A h : Cnt(e, h) + S(n, h) + S(m, h) = Cnt(db, h) + S(b, h) + R(n, h)
  <2>1. Clean(db) /\ \A h : Cnt(db, h) >= S(n, h)
    BY <1>5, Zenon DEF Books
  <2>2. \A h : S(n, h) = R(n, h) + Self(n, h) /\ R(n, h) \in Nat
    BY SpotsFinite
  <2>3. \A h : S(m, h) \in Nat
    BY SpotsFinite
  <2>4. \A h : S(b, h) = R(b, h) + Self(b, h) /\ R(b, h) \in Nat
    BY <1>1, SpotsFinite DEF b
  <2>5. \A h : Self(n, h) \in Nat /\ Self(b, h) \in Nat /\ Cnt(db, h) \in Nat
    BY OneNat, CntNat
  <2>6. \A h : Cnt(p.db, h) \in Nat /\ Cnt(t.db, h) \in Nat /\ Cnt(e, h) \in Nat
    BY <1>1, <1>2, <1>4, CntNat
  <2>7. Books(db, m)
    <3>1. ASSUME NEW h PROVE Cnt(db, h) >= S(m, h)
      <4> DEFINE x == Cnt(db, h)
                 y == S(n, h)
                 z == R(n, h)
                 s == Self(n, h)
                 w == S(m, h)
      <4>1. x >= y /\ y = z + s /\ w <= z /\ x \in Nat /\ z \in Nat /\ s \in Nat /\ w \in Nat
        BY <2>1, <2>2, <2>3, <2>5, Zenon
      <4>2. x >= w
        <5> HIDE DEF x, y, z, s, w
        <5> QED
          BY <4>1
      <4> QED
        BY <4>2
    <3> QED
      BY <2>1, <3>1, Zenon DEF Books
  <2>8. Clean(p.db) /\ \A h : Cnt(p.db, h) + S(m, h) = Cnt(db, h) + R(b, h)
    BY <1>1, <1>p, <2>7, Zenon
  <2>9. Cnt(t.db, n) >= Self(n, n)
    <3> DEFINE d == Cnt(db, n)
               x == Cnt(p.db, n)
               y == S(n, n)
               z == R(n, n)
               s == Self(n, n)
               w == S(m, n)
               u == R(b, n)
               v == Self(b, n)
               f == Cnt(t.db, n)
    <3>1. d >= y /\ y = z + s /\ w <= z /\ x + w = d + u /\ f = x + v
      BY <1>2, <2>1, <2>2, <2>8, Zenon
    <3>2. /\ d \in Nat /\ z \in Nat /\ s \in Nat /\ w \in Nat /\ u \in Nat /\ v \in Nat
          /\ x \in Nat /\ f \in Nat
      BY <2>2, <2>3, <2>4, <2>5, <2>6, Zenon
    <3>3. f >= s
      <4> HIDE DEF d, x, y, z, s, w, u, v, f
      <4> QED
        BY <3>1, <3>2
    <3> QED
      BY <3>3
  <2>10. \A h : Cnt(e, h) + Self(n, h) = Cnt(t.db, h)
    BY <1>4, <2>9
  <2>11. ASSUME NEW h PROVE Cnt(e, h) + S(n, h) + S(m, h) = Cnt(db, h) + S(b, h) + R(n, h)
    <3> DEFINE d == Cnt(db, h)
               g == Cnt(e, h)
               x == Cnt(p.db, h)
               y == S(n, h)
               z == R(n, h)
               s == Self(n, h)
               w == S(m, h)
               u == R(b, h)
               v == Self(b, h)
               q == S(b, h)
               f == Cnt(t.db, h)
    <3>1. y = z + s /\ x + w = d + u /\ f = x + v /\ g + s = f /\ q = u + v
      BY <1>2, <2>2, <2>4, <2>8, <2>10, Zenon
    <3>2. /\ d \in Nat /\ z \in Nat /\ s \in Nat /\ w \in Nat /\ u \in Nat /\ v \in Nat
          /\ x \in Nat /\ f \in Nat /\ g \in Nat
      BY <2>2, <2>3, <2>4, <2>5, <2>6, Zenon
    <3>3. g + y + w = d + q + z
      <4> HIDE DEF d, g, x, y, z, s, w, u, v, q, f
      <4> QED
        BY <3>1, <3>2
    <3> QED
      BY <3>3
  <2>12. Clean(e)
    BY <1>2, <1>4, <2>8
  <2> QED
    BY <2>11, <2>12, Zenon
<1>6. DOMAIN db \subseteq DOMAIN e /\ Trie(b, a, DOMAIN e) /\ Kept(b, DOMAIN e)
  BY <1>1, <1>2, <1>4
<1>7. Relinked(db, n, m, a, b, e)
  BY <1>4, <1>5, <1>6, Zenon DEF Relinked
<1> QED
  BY <1>3, <1>7 DEF b

\* The count, when what is left of n has b where n had m.
LEMMA Relinking ==
    ASSUME NEW db, Store(db), NEW n, NEW l, Trie(n, l, DOMAIN db),
           NEW m, NEW a, Trie(m, a, DOMAIN db), NEW b, NEW e, Relinked(db, n, m, a, b, e),
           NEW y, \A h : R(y, h) \in Nat, \A h : R(n, h) + S(b, h) = R(y, h) + S(m, h)
    PROVE  Books(db, n) => Clean(e) /\ \A h : Cnt(e, h) + S(n, h) = Cnt(db, h) + R(y, h)
<1> SUFFICES ASSUME Books(db, n)
             PROVE  Clean(e) /\ \A h : Cnt(e, h) + S(n, h) = Cnt(db, h) + R(y, h)
  OBVIOUS
<1>1. /\ Clean(e) /\ Store(e) /\ Trie(b, a, DOMAIN e)
      /\ \A h : Cnt(e, h) + S(n, h) + S(m, h) = Cnt(db, h) + S(b, h) + R(n, h)
  BY Zenon DEF Relinked
<1>2. \A h : R(n, h) \in Nat /\ S(n, h) \in Nat
  BY SpotsFinite
<1>3. \A h : S(m, h) \in Nat
  BY SpotsFinite
<1>4. \A h : S(b, h) \in Nat
  BY <1>1, SpotsFinite
<1>5. \A h : Cnt(db, h) \in Nat /\ Cnt(e, h) \in Nat
  BY <1>1, CntNat
<1>6. ASSUME NEW h PROVE Cnt(e, h) + S(n, h) = Cnt(db, h) + R(y, h)
  <2> DEFINE d == Cnt(db, h)
             g == Cnt(e, h)
             sn == S(n, h)
             rn == R(n, h)
             sm == S(m, h)
             sb == S(b, h)
             ry == R(y, h)
  <2>1. g + sn + sm = d + sb + rn /\ rn + sb = ry + sm
    BY <1>1, Zenon
  <2>2. /\ d \in Nat /\ g \in Nat /\ sn \in Nat /\ rn \in Nat /\ sm \in Nat /\ sb \in Nat
        /\ ry \in Nat
    BY <1>2, <1>3, <1>4, <1>5, Zenon
  <2>3. g + sn = d + ry
    <3> HIDE DEF d, g, sn, rn, sm, sb, ry
    <3> QED
      BY <2>1, <2>2
  <2> QED
    BY <2>3
<1> QED
  BY <1>1, <1>6, Zenon
\* A branch whose child was changed.
LEMMA ShrinkBra ==
    ASSUME NEW db, Store(db), NEW l \in Nat, l > 0, NEW c,
           \A i \in Nibbles : Trie(c[i], l - 1, DOMAIN db) /\ Kept(c[i], DOMAIN db),
           NEW u \in Values \cup {NoValue}, NEW n, n = Bra(c, u), TwoInUse(n),
           NEW k \in Seq(Nibbles), k # <<>>, NEW p,
           Deleted(db, c[Head(k)], l - 1, Tail(k), p), p.out = "changed"
    PROVE  Deleted(db, n, l, k, Shrink(n, k, StreamChanged(p)))
<1> DEFINE i == Head(k)
           t == StreamNode(p)
           m == p.b
           d == With(c, i, m)
           e == KillNode(t.db, n)
           y == Bra(d, u)
<1>0. i \in Nibbles /\ Tail(k) \in Seq(Nibbles)
  BY HeadAndTail
<1>1. /\ Changes(db, c[i], l - 1, p)
      /\ \A x \in Seq(Nibbles) : Find(m, x) = IF x = Tail(k) THEN NoValue ELSE Find(c[i], x)
  BY DEF Deleted
<1>2. Trie(n, l, DOMAIN db) /\ Tries(c, l - 1, DOMAIN db)
  BY BraTrie DEF Tries
<1>3. \A h : S(c[i], h) <= R(n, h)
  <2>1. ASSUME NEW h PROVE S(c[i], h) <= R(n, h)
    <3> DEFINE x == S(c[i], h)
               w == Rest(c, i, h)
    <3>1. R(n, h) = x + w /\ x \in Nat /\ w \in Nat
      BY <1>0, <1>2, RBra
    <3>2. x <= x + w
      <4> HIDE DEF x, w
      <4> QED
        BY <3>1
    <3> QED
      BY <3>1, <3>2
  <2> QED
    BY <2>1
<1>4. Trie(c[i], l - 1, DOMAIN db)
  BY <1>0
<1> HIDE DEF i, m, e, t
<1>5. Relinked(db, n, c[i], l - 1, m, e) /\ t.slot = SlotFor(m) /\ t.out = p.out
  BY <1>1, <1>2, <1>3, <1>4, RelinkedIs DEF m, e, t
<1>6. Store(e) /\ DOMAIN db \subseteq DOMAIN e /\ Trie(m, l - 1, DOMAIN e) /\ Kept(m, DOMAIN e)
  BY <1>5 DEF Relinked
<1>7. WithBelow(n, k, t.slot) = y
  <2>1. n.kind = "branch" /\ n.value = u
    BY NullNotOthers, BraValue
  <2>2. WithBelow(n, k, t.slot) = BranchNode([n.child EXCEPT ![i] = SlotFor(m)], u)
    BY <1>5, <2>1 DEF WithBelow, i
  <2> QED
    BY <1>0, <2>2, WithMade
<1>8. d[i] = m /\ \A x \in Nibbles : x # i => c[x] = d[x]
  BY <1>0 DEF With
<1> HIDE DEF d
<1>9. ASSUME NEW x \in Nibbles
      PROVE  Trie(c[x], l - 1, DOMAIN e) /\ Trie(d[x], l - 1, DOMAIN e) /\ Kept(d[x], DOMAIN e)
  <2>1. Trie(c[x], l - 1, DOMAIN e) /\ Kept(c[x], DOMAIN e)
    <3>1. Trie(c[x], l - 1, DOMAIN e)
      BY <1>6, MoreKept
    <3>2. Kept(c[x], DOMAIN e)
      BY <1>6 DEF Kept
    <3> QED
      BY <3>1, <3>2
  <2>2. CASE x = i
    BY <1>6, <1>8, <2>1, <2>2
  <2>3. CASE x # i
    BY <1>8, <2>1, <2>3
  <2> QED
    BY <2>1, <2>2, <2>3
<1>10. (\A x \in Nibbles : IsNode(c[x])) /\ \A x \in Nibbles : IsNode(d[x])
  BY <1>9, TrieIsNode, Zenon
<1>11. InUse(y) # {}
  <2>1. PICK a, b \in InUse(n) : a # b
    BY DEF TwoInUse
  <2>2. PICK x \in InUse(n) : x # i
    BY <2>1
  <2>3. x \in Nibbles \/ x = ValueSlot
    BY <1>10, InUseBra
  <2>4. CASE x \in Nibbles
    <3>1. c[x] # Null
      BY <1>10, <2>4, InUseBra
    <3>2. d[x] # Null
      BY <1>8, <2>2, <2>4, <3>1
    <3>3. x \in InUse(y)
      BY <1>10, <2>4, <3>2, InUseBra
    <3> QED
      BY <3>3
  <2>5. CASE x = ValueSlot
    <3>1. u # NoValue
      BY <1>10, <2>5, InUseBra
    <3>2. ValueSlot \in InUse(y)
      BY <1>10, <3>1, InUseBra
    <3> QED
      BY <3>2
  <2> QED
    BY <2>3, <2>4, <2>5
<1> DEFINE r == Rejig(e, y, UniqueInUse(y, 255))
<1>12. Shrink(n, k, StreamChanged(p)) = r
  <2>1. n.kind = "branch"
    BY NullNotOthers
  <2> HIDE DEF y, r
  <2> QED
    BY <1>5, <1>7, <2>1, ShrinkChanged DEF t, e, r
<1>13. Tidied(e, y, l, r)
  <2> DEFINE x == UniqueInUse(y, 255)
  <2>1. x = UniqueInUse(y, 255) /\ y = Bra(d, u)
    OBVIOUS
  <2> HIDE DEF x, y
  <2>2. Tidied(e, y, l, Rejig(e, y, x))
    BY <1>6, <1>9, <1>11, <2>1, RejigIs
  <2> QED
    BY <2>2 DEF x
<1>14. ASSUME NEW x \in Seq(Nibbles) PROVE Find(y, x) = IF x = k THEN NoValue ELSE Find(n, x)
  <2>1. Find(y, x) = IF x # <<>> /\ Head(x) = i THEN Find(m, Tail(x)) ELSE Find(n, x)
    BY <1>8, <1>10, FindSwap
  <2>2. x = k <=> x # <<>> /\ Head(x) = i /\ Tail(x) = Tail(k)
    BY SameKey DEF i
  <2>3. CASE x # <<>> /\ Head(x) = i
    <3>1. Tail(x) \in Seq(Nibbles)
      BY <2>3, HeadAndTail
    <3>2. Find(m, Tail(x)) = IF Tail(x) = Tail(k) THEN NoValue ELSE Find(c[i], Tail(x))
      BY <1>1, <3>1
    <3>3. Find(Bra(c, u), x) = Find(c[Head(x)], Tail(x))
      BY <1>10, <2>3, FindBra
    <3> QED
      BY <2>1, <2>2, <2>3, <3>2, <3>3
  <2>4. CASE ~(x # <<>> /\ Head(x) = i)
    BY <2>1, <2>2, <2>4
  <2> QED
    BY <2>3, <2>4
<1>15. Tries(c, l - 1, DOMAIN e) /\ Tries(d, l - 1, DOMAIN e)
  BY <1>9 DEF Tries
<1>16. \A h : R(y, h) \in Nat
  BY <1>0, <1>15, RBra
<1>17. \A h : R(n, h) + S(m, h) = R(y, h) + S(c[i], h)
  BY <1>0, <1>8, <1>15, RSwap
<1> HIDE DEF y
<1>18. Books(db, n) => Clean(e) /\ \A h : Cnt(e, h) + S(n, h) = Cnt(db, h) + R(y, h)
  BY <1>2, <1>4, <1>5, <1>16, <1>17, Relinking
<1> HIDE DEF r
<1>19. Deleted(db, n, l, k, r)
  BY <1>2, <1>6, <1>13, <1>14, <1>16, <1>18, DeletedTidied
<1> QED
  BY <1>12, <1>19

\* An extension whose child was.
LEMMA ShrinkExt ==
    ASSUME NEW db, Store(db), NEW l \in Nat, NEW j \in Seq(Nibbles), j # <<>>, Len(j) <= l,
           NEW m, Trie(m, l - Len(j), DOMAIN db), m.kind = "branch", Kept(m, DOMAIN db),
           NEW n, n = Ext(j, m), NEW q \in Seq(Nibbles), NEW p,
           Deleted(db, m, l - Len(j), q, p), p.out = "changed"
    PROVE  Deleted(db, n, l, j \o q, Shrink(n, j \o q, StreamChanged(p)))
<1> DEFINE k == j \o q
           t == StreamNode(p)
           b == p.b
           e == KillNode(t.db, n)
           y == Ext(j, b)
           a == l - Len(j)
<1>1. /\ Changes(db, m, a, p) /\ b # Null
      /\ \A x \in Seq(Nibbles) : Find(b, x) = IF x = q THEN NoValue ELSE Find(m, x)
  BY DEF Deleted
<1>2. Trie(n, l, DOMAIN db)
  BY ExtTrie
<1>3. \A h : R(n, h) = S(m, h) /\ S(m, h) \in Nat
  BY RExt, SpotsFinite
<1>4. \A h : S(m, h) <= R(n, h)
  BY <1>3
<1>5. Trie(m, a, DOMAIN db) /\ a = l - Len(j)
  OBVIOUS
<1> HIDE DEF k, b, e, t, a
<1>6. Relinked(db, n, m, a, b, e) /\ t.slot = SlotFor(b) /\ t.out = p.out
  BY <1>1, <1>2, <1>4, <1>5, RelinkedIs DEF b, e, t
<1>7. Store(e) /\ DOMAIN db \subseteq DOMAIN e /\ Trie(b, a, DOMAIN e) /\ Kept(b, DOMAIN e)
  BY <1>6 DEF Relinked
<1>8. n.kind = "pair" /\ n.key = j
  BY Fields DEF Ext
<1>9. WithBelow(n, k, t.slot) = y
  BY <1>6, <1>8 DEF WithBelow, Ext
<1>10. IsTwoItemNode(e, t.slot) <=> b.kind = "pair"
  <2>1. IsNode(b)
    BY <1>7, TrieIsNode
  <2>2. Deref(e, t.slot) = b
    BY <1>6, <1>7, <2>1, DerefIs
  <2> QED
    BY <2>2 DEF IsTwoItemNode
<1> DEFINE r == IF b.kind = "pair" THEN Graft(e, y) ELSE Changed(y, e)
<1>11. Shrink(n, k, StreamChanged(p)) = r
  <2>1. n.kind # "branch"
    BY <1>8
  <2> HIDE DEF y
  <2>2. Shrink(n, k, StreamChanged(p)) = IF IsTwoItemNode(e, t.slot) THEN Graft(e, y) ELSE Changed(y, e)
    BY <1>6, <1>9, <2>1, ShrinkChanged DEF t, e
  <2> QED
    BY <1>10, <2>2
<1>12. Tidied(e, y, l, r)
  BY <1>1, <1>5, <1>7, ExtTidied
<1>13. ASSUME NEW x \in Seq(Nibbles) PROVE Find(y, x) = IF x = k THEN NoValue ELSE Find(n, x)
  <2>1. CASE Contains(x, j)
    <3>1. PICK z \in Seq(Nibbles) : x = j \o z
      BY <2>1, ContainsCut
    <3>2. Find(n, x) = Find(m, z) /\ Find(y, x) = Find(b, z)
      BY <1>7, <3>1, FindExtIn
    <3>3. x = k <=> z = q
      BY <3>1, SameAhead DEF k
    <3> QED
      BY <1>1, <3>2, <3>3
  <2>2. CASE ~Contains(x, j)
    <3>1. Find(n, x) = NoValue /\ Find(y, x) = NoValue
      BY <1>7, <2>2, FindExtOut
    <3> QED
      BY <3>1
  <2> QED
    BY <2>1, <2>2
<1>14. \A h : R(y, h) = S(b, h) /\ S(b, h) \in Nat
  BY <1>7, RExt, SpotsFinite
<1> HIDE DEF y, r
<1>15. Books(db, n) => Clean(e) /\ \A h : Cnt(e, h) + S(n, h) = Cnt(db, h) + R(y, h)
  <2>1. \A h : R(y, h) \in Nat
    BY <1>14
  <2>2. ASSUME NEW h PROVE R(n, h) + S(b, h) = R(y, h) + S(m, h)
    <3>1. R(n, h) = S(m, h) /\ R(y, h) = S(b, h) /\ S(m, h) \in Nat /\ S(b, h) \in Nat
      BY <1>3, <1>14
    <3> QED
      BY <3>1
  <2> QED
    BY <1>2, <1>5, <1>6, <2>1, <2>2, Relinking
<1>16. Deleted(db, n, l, k, r)
  BY <1>2, <1>7, <1>12, <1>13, <1>14, <1>15, DeletedTidied
<1> QED
  BY <1>11, <1>16 DEF k
\* What becomes of a node when the call for its child returns.
LEMMA ShrinkUp ==
    ASSUME NEW db, Store(db), NEW l, NEW n, Trie(n, l, DOMAIN db),
           NEW k \in Seq(Nibbles), Follows(n, k), NEW d \in Nat, Len(Ahead(n, k)) = Len(k) - d,
           NEW p, Deleted(db, Inner(Below(n, k)), l - d, Ahead(n, k), p)
    PROVE  Deleted(db, n, l, k, Shrink(n, k, StreamChanged(p)))
<1>0. l \in Nat /\ (n = Null \/ AsLeaf(n, l) \/ AsExt(n, l, DOMAIN db) \/ AsBra(n, l, DOMAIN db))
  BY TrieCases
<1>1. n # Null /\ ~AsLeaf(n, l)
  BY FollowsNot DEF AsLeaf
<1>2. CASE p.out # "changed"
  <2> DEFINE m == Inner(Below(n, k))
             q == Ahead(n, k)
             j == l - d
  <2>1. Find(n, k) = Find(m, q)
    BY ReachIs DEF Find
  <2>2. Deleted(db, m, j, q, p)
    OBVIOUS
  <2> HIDE DEF m, q, j
  <2> QED
    BY <1>2, <2>1, <2>2, ShrinkNot
<1>3. CASE p.out = "changed" /\ AsExt(n, l, DOMAIN db)
  <2>ext. PICK a \in Seq(Nibbles) : \E y :
         /\ a # <<>> /\ Len(a) <= l /\ Trie(y, l - Len(a), DOMAIN db)
         /\ y.kind = "branch" /\ Kept(y, DOMAIN db) /\ n = Ext(a, y)
    BY <1>3, Zenon DEF AsExt
  <2>1. PICK y :
         /\ a # <<>> /\ Len(a) <= l /\ Trie(y, l - Len(a), DOMAIN db)
         /\ y.kind = "branch" /\ Kept(y, DOMAIN db) /\ n = Ext(a, y)
    BY <2>ext, Zenon
  <2>2. PICK x \in Seq(Nibbles) : k = a \o x
    BY <2>1, ExtStops
  <2>3. IsNode(y)
    BY <2>1, TrieIsNode
  <2>4. Inner(Below(n, k)) = y /\ Ahead(n, k) = x
    BY <2>1, <2>2, <2>3, ExtFollows
  <2>5. d = Len(a)
    <3>1. Len(k) = Len(a) + Len(x) /\ Len(a) \in Nat /\ Len(x) \in Nat
      BY <2>2, Concatenated
    <3>2. Len(x) = Len(k) - d
      BY <2>4
    <3> QED
      BY <3>1, <3>2
  <2>6. Deleted(db, y, l - Len(a), x, p)
    BY <2>4, <2>5
  <2>7. Deleted(db, n, l, a \o x, Shrink(n, a \o x, StreamChanged(p)))
    BY <1>0, <1>3, <2>1, <2>6, ShrinkExt
  <2> QED
    BY <2>2, <2>7
<1>4. CASE p.out = "changed" /\ AsBra(n, l, DOMAIN db)
  <2>1. PICK c, u :
        /\ l > 0 /\ u \in Values \cup {NoValue}
        /\ \A i \in Nibbles : Trie(c[i], l - 1, DOMAIN db) /\ Kept(c[i], DOMAIN db)
        /\ n = Bra(c, u) /\ TwoInUse(n)
    BY <1>4, Zenon DEF AsBra
  <2>2. \A i \in Nibbles : IsNode(c[i])
    BY <2>1, TrieIsNode, Zenon
  <2>3. k # <<>>
    BY <2>1, <2>2, FollowsBra
  <2>4. Inner(Below(n, k)) = c[Head(k)] /\ Ahead(n, k) = Tail(k)
    BY <2>1, <2>2, <2>3, FollowsBra
  <2>5. d = 1
    <3>1. Len(Tail(k)) = Len(k) - 1 /\ Len(k) \in Nat
      BY <2>3, HeadAndTail
    <3>2. Len(Tail(k)) = Len(k) - d
      BY <2>4
    <3> QED
      BY <3>1, <3>2
  <2>6. Deleted(db, c[Head(k)], l - 1, Tail(k), p)
    BY <2>4, <2>5
  <2> QED
    BY <1>0, <1>4, <2>1, <2>3, <2>6, ShrinkBra
<1> QED
  BY <1>0, <1>1, <1>2, <1>3, <1>4

\* What deleteAt returns from its calls, counted from the last.
DeleteBack(db, rt, k) ==
    LET call == Calls(db, rt, k, FALSE)
        back[m \in Nat] ==
            LET c == call[Len(k) - m]
            IN  IF m = 0 THEN Take(c)
                ELSE IF GoesOn(c) THEN Shrink(NodeOf(c), c.key, StreamChanged(back[m - 1]))
                ELSE back[m - 1]
    IN  back

\* deleteAt returns what its first call does.
LEMMA DeleteAtIs ==
    ASSUME NEW db, NEW rt, NEW k
    PROVE  DeleteAt(db, rt, k) = DeleteBack(db, rt, k)[Len(k)]
BY DEF DeleteAt, DeleteBack

DeleteUpward(back, call, b) ==
    /\ back[0] = Take(call[b - 0])
    /\ \A m \in Nat : back[m + 1] =
          IF GoesOn(call[b - (m + 1)])
          THEN Shrink(NodeOf(call[b - (m + 1)]), call[b - (m + 1)].key, StreamChanged(back[m]))
          ELSE back[m]

\* The recursive function of what the calls of deleteAt return exists.
LEMMA DeleteBackIs ==
    ASSUME NEW db, NEW rt, NEW k
    PROVE  DeleteUpward(DeleteBack(db, rt, k), Calls(db, rt, k, FALSE), Len(k))
<1> DEFINE A(m) == Take(Calls(db, rt, k, FALSE)[Len(k) - m])
           G(m, u) == IF GoesOn(Calls(db, rt, k, FALSE)[Len(k) - m])
                      THEN Shrink(NodeOf(Calls(db, rt, k, FALSE)[Len(k) - m]),
                                  Calls(db, rt, k, FALSE)[Len(k) - m].key, StreamChanged(u))
                      ELSE u
           Eq(f) == f = [m \in Nat |-> IF m = 0 THEN A(m) ELSE G(m, f[m - 1])]
           Up(f, a) == f[0] = A(0) /\ \A m \in 0 .. (a - 1) : f[m + 1] = G(m + 1, f[m])
           w == CHOOSE f : Eq(f)
           Of(a) == CHOOSE f : Up(f, a)
           all == [a \in Nat |-> Of(a)[a]]
<1>1. DeleteBack(db, rt, k) = w
  BY Zenon DEF DeleteBack
<1> HIDE DEF A, G
<1>2. ASSUME NEW a \in Nat PROVE \E f : Up(f, a)
  <2> DEFINE Exists == {b \in Nat : \E f : Up(f, b)}
  <2>1. 0 \in Exists
    <3>1. Up([m \in Nat |-> A(0)], 0)
      OBVIOUS
    <3> QED
      BY <3>1
  <2>2. ASSUME NEW b \in Nat, b \in Exists PROVE b + 1 \in Exists
    <3>1. PICK f : Up(f, b)
      BY <2>2
    <3> DEFINE h == [m \in Nat |-> IF m <= b THEN f[m] ELSE G(b + 1, f[b])]
    <3>2. h[0] = A(0)
      BY <3>1
    <3>3. ASSUME NEW m \in 0 .. b PROVE h[m + 1] = G(m + 1, h[m])
      <4>1. h[m] = f[m] /\ m + 1 \in Nat
        OBVIOUS
      <4>2. CASE m = b
        <5>1. h[m + 1] = G(b + 1, f[b])
          BY <4>1, <4>2
        <5> QED
          BY <5>1, <4>1, <4>2
      <4>3. CASE m < b
        <5>1. h[m + 1] = f[m + 1] /\ m \in 0 .. (b - 1)
          BY <4>3
        <5> QED
          BY <5>1, <4>1, <3>1
      <4> QED
        BY <4>2, <4>3
    <3>4. 0 .. ((b + 1) - 1) = 0 .. b
      OBVIOUS
    <3> HIDE DEF h
    <3>5. Up(h, b + 1)
      BY <3>2, <3>3, <3>4
    <3> QED
      BY <3>5
  <2> HIDE DEF Exists
  <2>3. a \in Exists
    BY <2>1, <2>2, SetInduction
  <2> QED
    BY <2>3 DEF Exists
<1>3. ASSUME NEW a \in Nat PROVE Up(Of(a), a)
  <2> HIDE DEF Up
  <2> QED
    BY <1>2, Zenon
<1> HIDE DEF Of
<1>4. ASSUME NEW a \in Nat PROVE Of(a + 1)[a] = Of(a)[a]
  <2> DEFINE Same == {b \in Nat : b <= a => Of(a + 1)[b] = Of(a)[b]}
  <2>1. 0 \in Same
    BY <1>3
  <2>2. ASSUME NEW b \in Nat, b \in Same PROVE b + 1 \in Same
    <3> SUFFICES ASSUME b + 1 <= a PROVE Of(a + 1)[b + 1] = Of(a)[b + 1]
      OBVIOUS
    <3>1. b \in 0 .. (a - 1) /\ b \in 0 .. ((a + 1) - 1) /\ a + 1 \in Nat
      OBVIOUS
    <3>2. Of(a + 1)[b + 1] = G(b + 1, Of(a + 1)[b]) /\ Of(a)[b + 1] = G(b + 1, Of(a)[b])
      BY <1>3, <3>1, Zenon
    <3> QED
      BY <2>2, <3>2
  <2> HIDE DEF Same
  <2>3. a \in Same
    BY <2>1, <2>2, SetInduction
  <2> QED
    BY <2>3 DEF Same
<1>5. all[0] = A(0)
  BY <1>3
<1>6. ASSUME NEW a \in Nat PROVE all[a + 1] = G(a + 1, all[a])
  <2>1. a + 1 \in Nat /\ a \in 0 .. ((a + 1) - 1)
    OBVIOUS
  <2>2. Of(a + 1)[a + 1] = G(a + 1, Of(a + 1)[a])
    BY <1>3, <2>1, Zenon
  <2> QED
    BY <1>4, <2>1, <2>2
<1>7. ASSUME NEW m \in Nat PROVE all[m] = IF m = 0 THEN A(m) ELSE G(m, all[m - 1])
  <2>1. CASE m = 0
    BY <1>5, <2>1
  <2>2. CASE m # 0
    <3>1. m - 1 \in Nat /\ (m - 1) + 1 = m
      BY <2>2
    <3>2. all[(m - 1) + 1] = G((m - 1) + 1, all[m - 1])
      BY <1>6, <3>1, Zenon
    <3> HIDE DEF all
    <3> QED
      BY <2>2, <3>1, <3>2
  <2> QED
    BY <2>1, <2>2
<1>8. Eq(all)
  <2>1. all = [a \in Nat |-> all[a]]
    OBVIOUS
  <2> HIDE DEF all
  <2> QED
    BY <1>7, <2>1
<1>9. Eq(w)
  <2> HIDE DEF Eq, all
  <2> QED
    BY <1>8, Zenon
<1> HIDE DEF w
<1>10. w[0] = A(0) /\ \A m \in Nat : w[m + 1] = G(m + 1, w[m])
  <2>1. \A m \in Nat : m + 1 \in Nat /\ m + 1 # 0 /\ (m + 1) - 1 = m
    OBVIOUS
  <2> QED
    BY <1>9, <2>1
<1> QED
  BY <1>1, <1>10, Zenon DEF A, G, DeleteUpward

\* deleteAt deletes the key from the trie, finds nothing, or throws.
LEMMA DeleteAtDeletes ==
    ASSUME NEW db, Store(db), NEW rt \in DOMAIN db, NEW l, Trie(rt, l, DOMAIN db),
           NEW k \in Seq(Nibbles), Len(k) <= l
    PROVE  Deleted(db, rt, l, k, DeleteAt(db, rt, k))
<1> DEFINE call == Calls(db, rt, k, FALSE)
           back == DeleteBack(db, rt, k)
           b == Len(k)
           Done1(c, r) == \A n, j : CallAt(c, n, j) => Deleted(c.db, n, j, c.key, r)
           Good == {m \in Nat : m <= b => Done1(call[b - m], back[m])}
<1>0. Downward(call, Call(db, HashOf(rt), k), FALSE) /\ DeleteUpward(back, call, b)
  BY CallsAre, DeleteBackIs
<1>1. CallAt(Call(db, HashOf(rt), k), rt, l) /\ Call(db, HashOf(rt), k).key = k
  BY CallAtRoot, CallIs
<1>2. b \in Nat /\ ~GoesOn(call[b])
  <2> HIDE DEF call, back
  <2> QED
    BY <1>0, <1>1, CallsStop
<1>m. DeleteAt(db, rt, k) = back[b]
  BY DeleteAtIs
<1> HIDE DEF call, back, b
<1>3. 0 \in Good
  <2>1. b - 0 = b
    BY <1>2
  <2>2. back[0] = Take(call[b])
    BY <1>0, <2>1, Zenon DEF DeleteUpward
  <2>3. ASSUME NEW n, NEW j, CallAt(call[b], n, j) PROVE Deleted(call[b].db, n, j, call[b].key, back[0])
    <3> DEFINE c == call[b]
    <3>1. /\ Store(c.db) /\ Trie(n, j, DOMAIN c.db) /\ n = NodeOf(c)
          /\ c.key \in Seq(Nibbles) /\ Len(c.key) <= j
      BY <2>3 DEF CallAt
    <3>2. ~Follows(n, c.key)
      BY <1>2, <3>1 DEF GoesOn
    <3> HIDE DEF c
    <3>3. Deleted(c.db, n, j, c.key, Take(c))
      BY <3>1, <3>2, TakeIs
    <3> QED
      BY <2>2, <3>3 DEF c
  <2> QED
    BY <2>1, <2>3
<1>4. ASSUME NEW m \in Nat, m \in Good PROVE m + 1 \in Good
  <2> SUFFICES ASSUME m + 1 <= b PROVE Done1(call[b - (m + 1)], back[m + 1])
    OBVIOUS
  <2> DEFINE i == b - (m + 1)
             c == call[i]
             x == call[i + 1]
             p == back[m]
             r == back[m + 1]
  <2>1. i \in Nat /\ i + 1 = b - m /\ m <= b
    BY <1>2
  <2>2. Done1(x, p)
    <3>1. Done1(call[b - m], back[m])
      BY <1>4, <2>1
    <3> QED
      BY <2>1, <3>1
  <2>3. x = NextCall(c, FALSE)
    BY <1>0, <2>1 DEF Downward
  <2>4. r = IF GoesOn(c) THEN Shrink(NodeOf(c), c.key, StreamChanged(p)) ELSE p
    BY <1>0, Zenon DEF DeleteUpward
  <2> HIDE DEF i, c, x, p, r
  <2>5. ASSUME NEW n, NEW j, CallAt(c, n, j) PROVE Deleted(c.db, n, j, c.key, r)
    <3>1. /\ Store(c.db) /\ Trie(n, j, DOMAIN c.db) /\ n = NodeOf(c)
          /\ c.key \in Seq(Nibbles) /\ Len(c.key) <= j
      BY <2>5 DEF CallAt
    <3>2. CASE Follows(n, c.key)
      <4>1. /\ x.db = c.db
            /\ x.slot = Below(n, c.key) /\ x.key = Ahead(n, c.key)
        BY <2>3, <2>5, <3>2, NextCallGoes
      <4>2. PICK d \in 1 .. j : /\ CallAt(x, Inner(Below(n, c.key)), j - d)
                                /\ Len(x.key) = Len(c.key) - d
        <5>1. \E d \in 1 .. j : /\ CallAt(x, Inner(Below(n, c.key)), j - d)
                                /\ Len(x.key) = Len(c.key) - d
                                /\ x.slot = SlotFor(Inner(Below(n, c.key)))
          BY <2>3, <2>5, <3>2, NextCallAt
        <5> QED
          BY <5>1
      <4>3. Deleted(x.db, Inner(Below(n, c.key)), j - d, x.key, p)
        BY <2>2, <4>2, Zenon
      <4>4. GoesOn(c)
        BY <3>1, <3>2 DEF GoesOn
      <4>5. r = Shrink(n, c.key, StreamChanged(p))
        BY <2>4, <3>1, <4>4
      <4>6. d \in Nat /\ Len(Ahead(n, c.key)) = Len(c.key) - d
        BY <4>1, <4>2
      <4>7. Deleted(c.db, Inner(Below(n, c.key)), j - d, Ahead(n, c.key), p)
        BY <4>1, <4>3
      <4> QED
        BY <3>1, <3>2, <4>5, <4>6, <4>7, ShrinkUp
    <3>3. CASE ~Follows(n, c.key)
      <4>1. x = c /\ ~GoesOn(c)
        BY <2>3, <3>1, <3>3, NextCallStays
      <4> QED
        BY <2>2, <2>4, <2>5, <4>1, Zenon
    <3> QED
      BY <3>2, <3>3
  <2>6. Done1(c, r)
    BY <2>5, Zenon
  <2> QED
    BY <2>6 DEF c, r, i
<1>5. Done1(call[b - b], back[b])
  <2> HIDE DEF Done1
  <2>1. b \in Good
    <3> HIDE DEF Good
    <3> QED
      BY <1>2, <1>3, <1>4, SetInduction
  <2>2. b <= b
    BY <1>2
  <2> QED
    BY <2>1, <2>2
<1>6. call[b - b] = Call(db, HashOf(rt), k)
  <2>1. b - b = 0
    BY <1>2
  <2> QED
    BY <1>0, <2>1 DEF Downward
<1>7. Call(db, HashOf(rt), k).db = db /\ Call(db, HashOf(rt), k).key = k
  BY CallIs
<1>8. Deleted(db, rt, l, k, back[b])
  BY <1>1, <1>5, <1>6, <1>7, Zenon
<1> QED
  BY <1>m, <1>8

-----------------------------------------------------------------------------
(* The steps of the trie on its store. *)

\* The counts are those of a trie.
Exact(db, rt) == Clean(db) /\ \A h : Cnt(db, h) = One(rt, h) + R(rt, h)

Rooted(db, rt) == Store(db) /\ rt \in DOMAIN db /\ Trie(rt, Longest, DOMAIN db)

Reads(rt, c) ==
    /\ c \in [Keys -> Values \cup {NoValue}]
    /\ \A k \in Seq(Nibbles) : Find(rt, k) = IF k \in Keys THEN c[k] ELSE NoValue

\* Keys are nibbles, none too many.
LEMMA KeysAre == ASSUME NEW k \in Keys PROVE k \in Seq(Nibbles) /\ Len(k) <= Longest
BY KeysAssumption

\* A root stays one when more is stored.
LEMMA RootedMore ==
    ASSUME NEW db, NEW rt, Rooted(db, rt), NEW e, Store(e), DOMAIN db \subseteq DOMAIN e
    PROVE  Rooted(e, rt)
BY MoreKept DEF Rooted

\* The new store.
LEMMA FirstStore ==
    ASSUME NEW db, db = DbInsert(<<>>, Null)
    PROVE  Rooted(db, Null) /\ Exact(db, Null)
<1> DEFINE none == <<>>
<1>1. Store(none) /\ DOMAIN none = {}
  BY DEF Store
<1> HIDE DEF none
<1>2. IsNode(Null)
  BY Slots
<1>3. /\ Store(DbInsert(none, Null)) /\ DOMAIN DbInsert(none, Null) = DOMAIN none \cup {Null}
      /\ \A h : Cnt(DbInsert(none, Null), h) = Cnt(none, h) + One(Null, h)
  BY <1>1, <1>2, InsertIs
<1>4. Store(db) /\ DOMAIN db = {Null} /\ \A h : Cnt(db, h) = One(Null, h)
  <2>1. db = DbInsert(none, Null)
    BY DEF none
  <2>2. \A h : Cnt(none, h) = 0
    BY <1>1 DEF Cnt
  <2>3. \A h : One(Null, h) \in Nat
    BY OneNat
  <2> QED
    BY <1>1, <1>3, <2>1, <2>2, <2>3
<1>5. Trie(Null, Longest, DOMAIN db)
  BY KeysAssumption, NullTrie
<1>6. Rooted(db, Null)
  BY <1>4, <1>5 DEF Rooted
<1>7. Exact(db, Null)
  <2>1. \A h : R(Null, h) = 0
    BY RNone
  <2>2. \A h : One(Null, h) \in Nat
    BY OneNat
  <2>3. \A h : Cnt(db, h) = One(Null, h) + R(Null, h)
    BY <1>4, <2>1, <2>2
  <2>4. ASSUME NEW n, n.kind = "branch", Cnt(db, n) > 0 PROVE FALSE
    <3>1. n # Null
      BY <2>4, Fields
    <3>2. One(Null, n) = 0
      BY <3>1 DEF One
    <3> QED
      BY <1>4, <2>4, <3>2
  <2> QED
    BY <2>3, <2>4, Zenon DEF Exact, Clean
<1> QED
  BY <1>6, <1>7

\* The counts there are stand for what an operation of the root may use up.
LEMMA ExactBooks ==
    ASSUME NEW db, NEW rt, Rooted(db, rt), Exact(db, rt)
    PROVE  Books(db, rt)
<1>1. Clean(db) /\ \A h : Cnt(db, h) = One(rt, h) + R(rt, h)
  BY DEF Exact
<1>2. \A h : S(rt, h) = R(rt, h) + Self(rt, h) /\ R(rt, h) \in Nat
  BY SpotsFinite DEF Rooted
<1>3. ASSUME NEW h PROVE Cnt(db, h) >= S(rt, h)
  <2>1. One(rt, h) \in Nat /\ Self(rt, h) \in Nat
    BY OneNat
  <2>2. Self(rt, h) <= One(rt, h)
    <3>1. Self(rt, h) = 0 \/ Self(rt, h) = One(rt, h)
      BY DEF Self, One
    <3> QED
      BY <2>1, <3>1
  <2> DEFINE c == Cnt(db, h)
             o == One(rt, h)
             r == R(rt, h)
             s == S(rt, h)
             f == Self(rt, h)
  <2>3. c = o + r /\ s = r + f /\ f <= o /\ o \in Nat /\ f \in Nat /\ r \in Nat
    BY <1>1, <1>2, <2>1, <2>2, Zenon
  <2>4. c >= s
    <3> HIDE DEF c, o, r, s, f
    <3> QED
      BY <2>3
  <2> QED
    BY <2>4
<1> QED
  BY <1>1, <1>3, Zenon DEF Books

\* kill leaves no branch half empty.
LEMMA KillClean ==
    ASSUME NEW db, Store(db), NEW n, Clean(db)
    PROVE  Clean(DbKill(db, n))
<1>1. Store(DbKill(db, n)) /\ \A h : Cnt(DbKill(db, n), h) <= Cnt(db, h)
  BY KillIs
<1>2. \A h : Cnt(DbKill(db, n), h) \in Nat /\ Cnt(db, h) \in Nat
  BY <1>1, CntNat
<1>3. ASSUME NEW h, Cnt(DbKill(db, n), h) > 0 PROVE Cnt(db, h) > 0
  BY <1>1, <1>2, <1>3
<1> QED
  BY <1>3, Zenon DEF Clean

\* A root replaced by what an operation made of it.
LEMMA Rerooted ==
    ASSUME NEW db, NEW rt, Rooted(db, rt), NEW r, Changes(db, rt, Longest, r),
           NEW e, e = DbInsert(IF Fits(rt) THEN DbKill(r.db, rt) ELSE r.db, r.b)
    PROVE  /\ Rooted(e, r.b) /\ DOMAIN db \subseteq DOMAIN e
           /\ Exact(db, rt) => Exact(e, r.b)
<1> DEFINE b == r.b
           d == r.db
           f == IF Fits(rt) THEN DbKill(d, rt) ELSE d
<1>1. Store(d) /\ DOMAIN db \subseteq DOMAIN d /\ Trie(b, Longest, DOMAIN d) /\ Balanced(db, rt, r)
  BY DEF Changes
<1>2. Store(f) /\ DOMAIN f = DOMAIN d
  BY <1>1, KillIs
<1>3. IsNode(b)
  BY <1>1, TrieIsNode
<1>4. e = DbInsert(f, b)
  OBVIOUS
<1>5. Balanced(db, rt, r) /\ Books(db, rt) => /\ Clean(d)
                    /\ \A h : Cnt(d, h) + S(rt, h) = Cnt(db, h) + R(b, h)
  BY Zenon DEF Balanced
<1> HIDE DEF b, d, f
<1>6. /\ Store(e) /\ DOMAIN e = DOMAIN f \cup {b}
      /\ \A h : Cnt(e, h) = Cnt(f, h) + One(b, h)
  BY <1>2, <1>3, <1>4, InsertIs
<1>7. Trie(b, Longest, DOMAIN e)
  BY <1>1, <1>2, <1>6, MoreKept
<1>8. Rooted(e, b) /\ DOMAIN db \subseteq DOMAIN e
  BY <1>1, <1>2, <1>6, <1>7 DEF Rooted
<1>9. ASSUME Exact(db, rt) PROVE Exact(e, b)
  <2>1. Clean(d) /\ \A h : Cnt(d, h) + S(rt, h) = Cnt(db, h) + R(b, h)
    BY <1>1, <1>5, <1>9, ExactBooks
  <2>2. \A h : Cnt(db, h) = One(rt, h) + R(rt, h)
    BY <1>9 DEF Exact
  <2>3. \A h : S(rt, h) = R(rt, h) + Self(rt, h) /\ R(rt, h) \in Nat
    BY SpotsFinite DEF Rooted
  <2>4. \A h : R(b, h) \in Nat
    BY <1>1, SpotsFinite
  <2>5. \A h : One(rt, h) \in Nat /\ Self(rt, h) \in Nat /\ One(b, h) \in Nat
    BY OneNat
  <2>6. \A h : Cnt(d, h) \in Nat /\ Cnt(f, h) \in Nat
    BY <1>1, <1>2, CntNat
  <2>7. ASSUME NEW h PROVE Cnt(d, h) + Self(rt, h) = One(rt, h) + R(b, h)
    <3> DEFINE x == Cnt(d, h)
               s == S(rt, h)
               y == Cnt(db, h)
               u == R(b, h)
               o == One(rt, h)
               w == R(rt, h)
               z == Self(rt, h)
    <3>1. /\ x + s = y + u /\ y = o + w /\ s = w + z
          /\ x \in Nat /\ u \in Nat /\ o \in Nat /\ w \in Nat /\ z \in Nat
      BY <2>1, <2>2, <2>3, <2>4, <2>5, <2>6, Zenon
    <3>2. x + z = o + u
      <4> HIDE DEF x, s, y, u, o, w, z
      <4> QED
        BY <3>1
    <3> QED
      BY <3>2
  <2>8. Clean(f) /\ \A h : Cnt(f, h) = R(b, h)
    <3>1. CASE Fits(rt)
      <4>1. f = DbKill(d, rt)
        BY <3>1 DEF f
      <4>2. \A h : Self(rt, h) = 0
        BY <3>1, OneNat
      <4>3. \A h : Cnt(d, h) = One(rt, h) + R(b, h)
        BY <2>6, <2>7, <4>2
      <4>4. Cnt(d, rt) > 0
        <5>1. One(rt, rt) = 1
          BY OneNat
        <5> QED
          BY <2>4, <4>3, <5>1
      <4>5. \A h : Cnt(f, h) + One(rt, h) = Cnt(d, h)
        BY <1>1, <4>1, <4>4, KillIs
      <4>6. ASSUME NEW h PROVE Cnt(f, h) = R(b, h)
        <5>1. /\ Cnt(f, h) + One(rt, h) = Cnt(d, h) /\ Cnt(d, h) = One(rt, h) + R(b, h)
              /\ Cnt(f, h) \in Nat /\ One(rt, h) \in Nat /\ R(b, h) \in Nat
          BY <2>4, <2>5, <2>6, <4>3, <4>5, Zenon
        <5> QED
          BY <5>1
      <4>7. Clean(f)
        BY <1>1, <2>1, <4>1, KillClean
      <4> QED
        BY <4>6, <4>7, Zenon
    <3>2. CASE ~Fits(rt)
      <4>1. f = d
        BY <3>2 DEF f
      <4>2. \A h : Self(rt, h) = One(rt, h)
        BY <3>2, OneNat
      <4>3. ASSUME NEW h PROVE Cnt(d, h) = R(b, h)
        <5>1. /\ Cnt(d, h) + Self(rt, h) = One(rt, h) + R(b, h) /\ Self(rt, h) = One(rt, h)
              /\ Cnt(d, h) \in Nat /\ One(rt, h) \in Nat /\ R(b, h) \in Nat
          BY <2>4, <2>5, <2>6, <2>7, <4>2, Zenon
        <5> QED
          BY <5>1
      <4> QED
        BY <2>1, <4>1, <4>3, Zenon
    <3> QED
      BY <3>1, <3>2
  <2>9. ASSUME NEW h PROVE Cnt(e, h) = One(b, h) + R(b, h)
    <3>1. Cnt(e, h) = Cnt(f, h) + One(b, h) /\ Cnt(f, h) = R(b, h) /\ R(b, h) \in Nat /\ One(b, h) \in Nat
      BY <1>6, <2>4, <2>5, <2>8, Zenon
    <3> QED
      BY <3>1
  <2>10. ASSUME NEW n, n.kind = "branch", Cnt(e, n) > 0 PROVE TwoInUse(n)
    <3>1. CASE n = b
      <4>1. Trie(n, Longest, DOMAIN e)
        BY <1>7, <3>1
      <4> QED
        BY <2>10, <4>1, BranchTwo
    <3>2. CASE n # b
      <4>1. One(b, n) = 0
        BY <3>2, OneNat
      <4>2. Cnt(f, n) > 0
        BY <1>6, <2>6, <2>10, <4>1
      <4> QED
        BY <2>8, <2>10, <4>2 DEF Clean
    <3> QED
      BY <3>1, <3>2
  <2>11. Clean(e)
    BY <2>10, Zenon DEF Clean
  <2> QED
    BY <2>9, <2>11, Zenon DEF Exact
<1> QED
  BY <1>8, <1>9 DEF b
\* A trie stays one as long as what it refers to does.
Referred(n, E) == \A h : ~Fits(h) /\ R(n, h) # 0 => h \in E

\* What is referred to below is referred to above.
LEMMA ReferredBelow ==
    ASSUME NEW n, NEW E, Referred(n, E), NEW m, NEW l, NEW D, Trie(m, l, D),
           \A h : R(n, h) \in Nat, \A h : S(m, h) <= R(n, h)
    PROVE  Referred(m, E) /\ Kept(m, E)
<1>1. \A h : S(m, h) = R(m, h) + Self(m, h) /\ R(m, h) \in Nat
  BY SpotsFinite
<1>2. \A h : Self(m, h) \in Nat
  BY OneNat
<1>3. ASSUME NEW h, S(m, h) # 0, ~Fits(h) PROVE h \in E
  <2>1. S(m, h) \in Nat
    BY <1>1, <1>2
  <2>2. R(n, h) # 0
    <3> DEFINE x == S(m, h)
               y == R(n, h)
    <3>1. x \in Nat /\ y \in Nat /\ x <= y /\ x # 0
      BY <1>3, <2>1
    <3>2. y # 0
      <4> HIDE DEF x, y
      <4> QED
        BY <3>1
    <3> QED
      BY <3>2
  <2> QED
    BY <1>3, <2>2 DEF Referred
<1>4. ASSUME NEW h, ~Fits(h), R(m, h) # 0 PROVE h \in E
  <2>1. S(m, h) # 0
    <3> DEFINE x == S(m, h)
               y == R(m, h)
               z == Self(m, h)
    <3>1. x = y + z /\ y \in Nat /\ z \in Nat /\ y # 0
      BY <1>1, <1>2, <1>4
    <3>2. x # 0
      <4> HIDE DEF x, y, z
      <4> QED
        BY <3>1
    <3> QED
      BY <3>2
  <2> QED
    BY <1>3, <1>4, <2>1
<1>5. ASSUME ~Fits(m) PROVE m \in E
  <2>1. Self(m, m) = 1
    BY <1>5, OneNat
  <2>2. S(m, m) # 0
    BY <1>1, <2>1
  <2> QED
    BY <1>3, <1>5, <2>2
<1> QED
  BY <1>4, <1>5 DEF Referred, Kept

\* A trie stays one when what it does not refer to goes.
LEMMA FewerNodes ==
    ASSUME NEW D, NEW E, NEW l \in Nat
    PROVE  \A n : Trie(n, l, D) /\ Referred(n, E) => Trie(n, l, E)
<1> DEFINE Holds(j) == \A n : Trie(n, j, D) /\ Referred(n, E) => Trie(n, j, E)
           Good == {j \in Nat : Holds(j)}
<1>1. ASSUME NEW j \in Nat, 0 .. (j - 1) \subseteq Good PROVE j \in Good
  <2>0. ASSUME NEW i \in Nat, i < j, NEW m, Trie(m, i, D), Referred(m, E) PROVE Trie(m, i, E)
    <3>1. i \in 0 .. (j - 1)
      BY <2>0
    <3>2. Holds(i)
      BY <1>1, <3>1
    <3> QED
      BY <2>0, <3>2
  <2> SUFFICES ASSUME NEW n, Trie(n, j, D), Referred(n, E) PROVE Trie(n, j, E)
    OBVIOUS
  <2>1. n = Null \/ AsLeaf(n, j) \/ AsExt(n, j, D) \/ AsBra(n, j, D)
    BY TrieCases
  <2>n. \A h : R(n, h) \in Nat
    BY SpotsFinite
  <2>2. CASE n = Null
    BY <2>2, NullTrie
  <2>3. CASE AsLeaf(n, j)
    BY <2>3, LeafTrie DEF AsLeaf
  <2>4. CASE AsExt(n, j, D)
    <3>ext. PICK k \in Seq(Nibbles) : \E m :
           /\ k # <<>> /\ Len(k) <= j /\ Trie(m, j - Len(k), D)
           /\ m.kind = "branch" /\ n = Ext(k, m)
      BY <2>4, Zenon DEF AsExt
    <3>1. PICK m :
           /\ k # <<>> /\ Len(k) <= j /\ Trie(m, j - Len(k), D)
           /\ m.kind = "branch" /\ n = Ext(k, m)
      BY <3>ext, Zenon
    <3>2. \A h : R(n, h) = S(m, h)
      BY <3>1, RExt
    <3>3. \A h : S(m, h) <= R(n, h)
      BY <2>n, <3>2
    <3>4. Referred(m, E) /\ Kept(m, E)
      BY <2>n, <3>1, <3>3, ReferredBelow
    <3>5. j - Len(k) \in Nat /\ j - Len(k) < j
      <4>1. Len(k) \in Nat /\ Len(k) # 0
        BY <3>1, EmptyIs
      <4> QED
        BY <3>1, <4>1
    <3>6. Trie(m, j - Len(k), E)
      BY <2>0, <3>1, <3>4, <3>5
    <3> QED
      BY <3>1, <3>4, <3>6, ExtTrie
  <2>5. CASE AsBra(n, j, D)
    <3>1. PICK c, u :
          /\ j > 0 /\ u \in Values \cup {NoValue}
          /\ \A i \in Nibbles : Trie(c[i], j - 1, D) /\ Kept(c[i], D)
          /\ n = Bra(c, u) /\ TwoInUse(n)
      BY <2>5, Zenon DEF AsBra
    <3>2. Tries(c, j - 1, D)
      BY <3>1 DEF Tries
    <3>3. ASSUME NEW i \in Nibbles PROVE Trie(c[i], j - 1, E) /\ Kept(c[i], E)
      <4>1. ASSUME NEW h PROVE S(c[i], h) <= R(n, h)
        <5> DEFINE x == S(c[i], h)
                   w == Rest(c, i, h)
        <5>1. R(n, h) = x + w /\ x \in Nat /\ w \in Nat
          BY <3>1, <3>2, RBra
        <5>2. x <= x + w
          <6> HIDE DEF x, w
          <6> QED
            BY <5>1
        <5> QED
          BY <5>1, <5>2
      <4>2. Referred(c[i], E) /\ Kept(c[i], E)
        BY <2>n, <3>1, <4>1, ReferredBelow
      <4>3. j - 1 \in Nat /\ j - 1 < j
        BY <3>1
      <4> QED
        BY <2>0, <3>1, <4>2, <4>3
    <3> QED
      BY <3>1, <3>3, BraTrie
  <2> QED
    BY <2>1, <2>2, <2>3, <2>4, <2>5
<1>2. l \in Good
  <2> HIDE DEF Good
  <2> QED
    BY <1>1, LessInduction
<1> QED
  BY <1>2

\* A purge keeps what is counted.
LEMMA Purged ==
    ASSUME NEW db, NEW rt, Rooted(db, rt), Exact(db, rt), NEW e, e = DbPurge(db)
    PROVE  Rooted(e, rt) /\ Exact(e, rt)
<1>1. Store(db) /\ rt \in DOMAIN db /\ Trie(rt, Longest, DOMAIN db)
  BY DEF Rooted
<1>2. Clean(db) /\ \A h : Cnt(db, h) = One(rt, h) + R(rt, h)
  BY DEF Exact
<1>3. DOMAIN e = {n \in DOMAIN db : db[n] > 0} /\ \A n \in DOMAIN e : e[n] = db[n]
  BY DEF DbPurge, DbKeys
<1>4. Store(e)
  <2>1. e = [n \in DOMAIN e |-> e[n]]
    BY DEF DbPurge
  <2>2. \A n \in DOMAIN e : e[n] \in Nat /\ IsNode(n)
    BY <1>1, <1>3 DEF Store
  <2> QED
    BY <2>1, <2>2 DEF Store
<1>5. ASSUME NEW h PROVE Cnt(e, h) = Cnt(db, h)
  <2>1. \A n \in DOMAIN db : db[n] \in Nat
    BY <1>1 DEF Store
  <2>2. CASE h \in DOMAIN e
    BY <1>3, <2>2 DEF Cnt
  <2>3. CASE h \in DOMAIN db /\ h \notin DOMAIN e
    <3>1. db[h] = 0
      BY <1>3, <2>1, <2>3
    <3> QED
      BY <2>3, <3>1 DEF Cnt
  <2>4. CASE h \notin DOMAIN db
    BY <1>3, <2>4 DEF Cnt
  <2> QED
    BY <2>2, <2>3, <2>4
<1>6. ASSUME NEW h, Cnt(db, h) # 0 PROVE h \in DOMAIN e
  <2>1. h \in DOMAIN db /\ db[h] # 0
    BY <1>6 DEF Cnt
  <2>2. db[h] \in Nat
    BY <1>1, <2>1 DEF Store
  <2> QED
    BY <1>3, <2>1, <2>2
<1>7. \A h : R(rt, h) \in Nat
  BY <1>1, SpotsFinite
<1>8. \A h : One(rt, h) \in Nat /\ One(rt, rt) = 1
  BY OneNat
<1>9. rt \in DOMAIN e
  <2>1. Cnt(db, rt) # 0
    BY <1>2, <1>7, <1>8
  <2> QED
    BY <1>6, <2>1
<1>10. Referred(rt, DOMAIN e)
  <2>1. ASSUME NEW h, R(rt, h) # 0 PROVE h \in DOMAIN e
    <3>1. Cnt(db, h) # 0
      BY <1>2, <1>7, <1>8, <2>1
    <3> QED
      BY <1>6, <3>1
  <2> QED
    BY <2>1 DEF Referred
<1>11. Trie(rt, Longest, DOMAIN e)
  <2>1. Longest \in Nat
    BY KeysAssumption
  <2> QED
    BY <1>1, <1>10, <2>1, FewerNodes
<1>12. Exact(e, rt)
  <2>1. \A h : Cnt(e, h) = One(rt, h) + R(rt, h)
    BY <1>2, <1>5
  <2>2. Clean(e)
    <3>1. \A n : n.kind = "branch" /\ Cnt(e, n) > 0 => TwoInUse(n)
      BY <1>2, <1>5 DEF Clean
    <3> QED
      BY <3>1 DEF Clean
  <2> QED
    BY <2>1, <2>2 DEF Exact
<1> QED
  BY <1>4, <1>9, <1>11, <1>12 DEF Rooted
-----------------------------------------------------------------------------
(* The invariant: the store has the trie of the root and that of the        *)
(* iterator, each reads its contents, and the counts are those of the root. *)

IterHolds == iter.open => Rooted(main, iter.root) /\ Reads(iter.root, iter.from)

Inv ==
    /\ Rooted(main, root)
    /\ Reads(root, contents)
    /\ exact \in BOOLEAN /\ (exact => Exact(main, root))
    /\ unpurged \in 0 .. MaxUnpurged
    /\ DOMAIN iter = {"open", "root", "from", "trail", "seen"}
    /\ IterHolds

\* Nothing holds no contents.
LEMMA EmptyReads == Reads(Null, Empty)
BY FindNull DEF Reads, Empty

\* Without an iterator.
LEMMA NoIterIs ==
    /\ DOMAIN NoIter = {"open", "root", "from", "trail", "seen"} /\ NoIter.open = FALSE
BY DEF NoIter

\* The invariant holds in the new store.
LEMMA InitInv == Init => Inv
<1> SUFFICES ASSUME Init PROVE Inv
  OBVIOUS
<1>1. Rooted(main, root) /\ Exact(main, root)
  BY FirstStore DEF Init
<1>2. Reads(root, contents)
  BY EmptyReads DEF Init
<1>3. exact \in BOOLEAN /\ unpurged \in 0 .. MaxUnpurged
  BY MaxUnpurgedAssumption DEF Init
<1>4. DOMAIN iter = {"open", "root", "from", "trail", "seen"} /\ iter.open = FALSE
  BY NoIterIs DEF Init
<1> QED
  BY <1>1, <1>2, <1>3, <1>4 DEF Inv, IterHolds

\* The contents with k changed, and the trie that reads so.
LEMMA ReadsChanged ==
    ASSUME NEW rt, NEW c, Reads(rt, c), NEW k \in Keys, NEW v \in Values \cup {NoValue}, NEW b,
           \A j \in Seq(Nibbles) : Find(b, j) = IF j = k THEN v ELSE Find(rt, j)
    PROVE  Reads(b, [c EXCEPT ![k] = v])
<1>1. c \in [Keys -> Values \cup {NoValue}]
  BY DEF Reads
<1>2. [c EXCEPT ![k] = v] \in [Keys -> Values \cup {NoValue}]
  BY <1>1
<1>3. ASSUME NEW j \in Seq(Nibbles)
      PROVE  Find(b, j) = IF j \in Keys THEN [c EXCEPT ![k] = v][j] ELSE NoValue
  <2>1. Find(rt, j) = IF j \in Keys THEN c[j] ELSE NoValue
    BY DEF Reads
  <2>2. j \in Keys => [c EXCEPT ![k] = v][j] = IF j = k THEN v ELSE c[j]
    BY <1>1
  <2> QED
    BY <2>1, <2>2
<1> QED
  BY <1>2, <1>3 DEF Reads

\* The iterator's root stays readable when more is stored.
LEMMA IterStays ==
    ASSUME IterHolds, Store(main'), DOMAIN main \subseteq DOMAIN main', UNCHANGED iter
    PROVE  IterHolds'
<1>1. CASE iter.open
  <2>1. Rooted(main, iter.root) /\ Reads(iter.root, iter.from)
    BY <1>1 DEF IterHolds
  <2>2. Rooted(main', iter.root)
    BY <2>1, RootedMore
  <2>3. Rooted(main', iter'.root) /\ Reads(iter'.root, iter'.from)
    BY <2>1, <2>2
  <2> QED
    BY <2>3 DEF IterHolds
<1>2. CASE ~iter.open
  BY <1>2 DEF IterHolds
<1> QED
  BY <1>1, <1>2

\* A change of the trie keeps the invariant.
LEMMA RerootInv ==
    ASSUME Inv, NEW r, Changes(main, root, Longest, r), Reroot(r), UNCHANGED iter, UNCHANGED exact,
           unpurged < MaxUnpurged, unpurged' = unpurged + 1, Reads(r.b, contents')
    PROVE  Inv'
<1>1. Rooted(main, root) /\ (exact => Exact(main, root)) /\ IterHolds
  BY DEF Inv
<1>2. main' = DbInsert(IF Fits(root) THEN DbKill(r.db, root) ELSE r.db, r.b) /\ root' = r.b
  BY DEF Reroot
<1>3. /\ Rooted(main', r.b) /\ DOMAIN main \subseteq DOMAIN main'
      /\ Exact(main, root) => Exact(main', r.b)
  BY <1>1, <1>2, Rerooted
<1>4. Rooted(main', root') /\ (exact' => Exact(main', root')) /\ Reads(root', contents')
  BY <1>1, <1>2, <1>3
<1>5. IterHolds'
  <2>1. Store(main')
    BY <1>3 DEF Rooted
  <2> QED
    BY <1>1, <1>3, <2>1, IterStays
<1>6. unpurged' \in 0 .. MaxUnpurged
  BY MaxUnpurgedAssumption DEF Inv
<1>7. exact' \in BOOLEAN /\ DOMAIN iter' = {"open", "root", "from", "trail", "seen"}
  BY DEF Inv
<1> QED
  BY <1>4, <1>5, <1>6, <1>7 DEF Inv

\* insert keeps the invariant.
LEMMA InsertInv ==
    ASSUME Inv, NEW k \in Keys, NEW v \in Values, Insert(k, v)
    PROVE  Inv'
<1> DEFINE r == MergeAt(main, root, k, v)
<1>1. Store(main) /\ root \in DOMAIN main /\ Trie(root, Longest, DOMAIN main) /\ Reads(root, contents)
  BY DEF Inv, Rooted
<1>2. Merged(main, root, Longest, k, v, r)
  BY <1>1, KeysAre, MergeAtMerges
<1>3. Reroot(r) /\ contents' = [contents EXCEPT ![k] = v]
  BY DEF Insert
<1> HIDE DEF r
<1>4. /\ Changes(main, root, Longest, r)
      /\ \A j \in Seq(Nibbles) : Find(r.b, j) = IF j = k THEN v ELSE Find(root, j)
  BY <1>2 DEF Merged
<1>5. Reads(r.b, contents')
  BY <1>1, <1>3, <1>4, ReadsChanged
<1>6. unpurged < MaxUnpurged /\ unpurged' = unpurged + 1 /\ UNCHANGED <<exact, iter>>
  BY DEF Insert
<1> QED
  BY <1>3, <1>4, <1>5, <1>6, RerootInv

\* remove keeps the invariant, when it throws too.
LEMMA RemoveInv ==
    ASSUME Inv, NEW k \in Keys, Remove(k)
    PROVE  Inv'
<1> DEFINE r == DeleteAt(main, root, k)
<1>1. Store(main) /\ root \in DOMAIN main /\ Trie(root, Longest, DOMAIN main) /\ Reads(root, contents)
  BY DEF Inv, Rooted
<1>2. Deleted(main, root, Longest, k, r)
  BY <1>1, KeysAre, DeleteAtDeletes
<1>3. /\ unpurged < MaxUnpurged /\ UNCHANGED iter
      /\ \/ /\ r.out = "changed" /\ Reroot(r) /\ contents' = [contents EXCEPT ![k] = NoValue]
            /\ unpurged' = unpurged + 1 /\ UNCHANGED exact
         \/ UNCHANGED <<main, root, contents, exact, unpurged>>
         \/ /\ r.out = "threw" /\ main' = r.db /\ exact' = (exact /\ r.db = main)
            /\ unpurged' = (IF r.db = main THEN unpurged ELSE unpurged + 1)
            /\ UNCHANGED <<root, contents>>
  BY DEF Remove
<1> HIDE DEF r
<1>4. CASE /\ r.out = "changed" /\ Reroot(r) /\ contents' = [contents EXCEPT ![k] = NoValue]
           /\ unpurged' = unpurged + 1 /\ UNCHANGED exact
  <2>1. /\ Changes(main, root, Longest, r)
        /\ \A j \in Seq(Nibbles) : Find(r.b, j) = IF j = k THEN NoValue ELSE Find(root, j)
    BY <1>2, <1>4 DEF Deleted
  <2>2. NoValue \in Values \cup {NoValue}
    OBVIOUS
  <2>3. Reads(r.b, contents')
    BY <1>1, <1>4, <2>1, <2>2, ReadsChanged
  <2> QED
    BY <1>3, <1>4, <2>1, <2>3, RerootInv
<1>5. CASE UNCHANGED <<main, root, contents, exact, unpurged>>
  BY <1>3, <1>5 DEF Inv, IterHolds
<1>6. CASE /\ r.out = "threw" /\ main' = r.db /\ exact' = (exact /\ r.db = main)
           /\ unpurged' = (IF r.db = main THEN unpurged ELSE unpurged + 1)
           /\ UNCHANGED <<root, contents>>
  <2>1. Store(main') /\ DOMAIN main \subseteq DOMAIN main'
    BY <1>2, <1>6 DEF Deleted
  <2>2. IterHolds'
    BY <1>3, <2>1, IterStays DEF Inv
  <2>3. Rooted(main', root')
    <3>1. Rooted(main, root)
      BY DEF Inv
    <3>2. Rooted(main', root)
      BY <2>1, <3>1, RootedMore
    <3> QED
      BY <1>6, <3>2
  <2>4. Reads(root', contents')
    BY <1>1, <1>6
  <2>5. unpurged' \in 0 .. MaxUnpurged
    <3>1. unpurged \in 0 .. MaxUnpurged
      BY DEF Inv
    <3>2. unpurged' = unpurged \/ unpurged' = unpurged + 1
      BY <1>6
    <3> QED
      BY <1>3, <3>1, <3>2, MaxUnpurgedAssumption
  <2>6. exact \in BOOLEAN /\ (exact => Exact(main, root))
    BY DEF Inv
  <2>7. exact' \in BOOLEAN /\ (exact' => exact /\ main' = main)
    BY <1>6, <2>6
  <2>8. exact' => Exact(main', root')
    BY <1>6, <2>6, <2>7
  <2>9. DOMAIN iter' = {"open", "root", "from", "trail", "seen"}
    BY <1>3 DEF Inv
  <2> QED
    BY <2>2, <2>3, <2>4, <2>5, <2>7, <2>8, <2>9 DEF Inv
<1> QED
  BY <1>3, <1>4, <1>5, <1>6

\* purge keeps the invariant: the counts are exact and no iterator is out.
LEMMA PurgeInv == ASSUME Inv, Purge PROVE Inv'
<1>1. Rooted(main, root) /\ Exact(main, root)
  BY DEF Inv, Purge
<1>2. main' = DbPurge(main) /\ unpurged' = 0 /\ ~iter.open /\ UNCHANGED <<root, contents, exact, iter>>
  BY DEF Purge
<1>3. Rooted(main', root') /\ Exact(main', root')
  BY <1>1, <1>2, Purged
<1>4. IterHolds'
  BY <1>2 DEF IterHolds
<1>5. unpurged' \in 0 .. MaxUnpurged
  BY <1>2, MaxUnpurgedAssumption
<1>6. /\ Reads(root', contents') /\ exact' \in BOOLEAN
      /\ DOMAIN iter' = {"open", "root", "from", "trail", "seen"}
  BY <1>2 DEF Inv
<1> QED
  BY <1>3, <1>4, <1>5, <1>6 DEF Inv

\* A step of the iterator changes nothing else.
LEMMA IterInv ==
    ASSUME Inv, UNCHANGED <<main, root, contents, exact, unpurged>>,
           DOMAIN iter' = {"open", "root", "from", "trail", "seen"}, IterHolds'
    PROVE  Inv'
BY DEF Inv

\* An iterator begins with the contents of now.
LEMMA BeginInv == ASSUME Inv, Begin PROVE Inv'
<1> DEFINE t == NextEntry(main, RootTrail(main, root))
           s == IF t = <<>> THEN {} ELSE {EntryKey(t)}
<1>1. /\ iter' = [open |-> TRUE, root |-> root, from |-> contents, trail |-> t, seen |-> s]
      /\ UNCHANGED <<main, root, contents, exact, unpurged>>
  BY DEF Begin
<1> HIDE DEF t, s
<1>2. /\ DOMAIN iter' = {"open", "root", "from", "trail", "seen"}
      /\ iter'.root = root /\ iter'.from = contents
  BY <1>1
<1>3. IterHolds'
  BY <1>1, <1>2 DEF Inv, IterHolds
<1> QED
  BY <1>1, <1>2, <1>3, IterInv

\* The iterator goes on.
LEMMA AdvanceInv == ASSUME Inv, Advance PROVE Inv'
<1> DEFINE t == NextEntry(main, iter.trail)
           s == IF t = <<>> THEN iter.seen ELSE iter.seen \cup {EntryKey(t)}
<1>1. /\ iter' = [[iter EXCEPT !.trail = t] EXCEPT !.seen = s]
      /\ UNCHANGED <<main, root, contents, exact, unpurged>>
  BY DEF Advance
<1> HIDE DEF t, s
<1>2. DOMAIN iter = {"open", "root", "from", "trail", "seen"}
  BY DEF Inv
<1>3. /\ DOMAIN iter' = {"open", "root", "from", "trail", "seen"}
      /\ iter'.root = iter.root /\ iter'.from = iter.from /\ iter'.open = iter.open
  BY <1>1, <1>2
<1>4. IterHolds'
  BY <1>1, <1>3 DEF Inv, IterHolds
<1> QED
  BY <1>1, <1>3, <1>4, IterInv

\* The iterator is closed.
LEMMA CloseInv == ASSUME Inv, Close PROVE Inv'
<1>1. iter' = NoIter /\ UNCHANGED <<main, root, contents, exact, unpurged>>
  BY DEF Close
<1>2. DOMAIN iter' = {"open", "root", "from", "trail", "seen"} /\ iter'.open = FALSE
  BY <1>1, NoIterIs
<1>3. IterHolds'
  BY <1>2 DEF IterHolds
<1> QED
  BY <1>1, <1>2, <1>3, IterInv

\* The old root is still readable; its counts are not exact.
LEMMA SetRootInv == ASSUME Inv, SetRoot PROVE Inv'
<1>1. Rooted(main, iter.root) /\ Reads(iter.root, iter.from)
  BY DEF Inv, IterHolds, SetRoot
<1> QED
  BY <1>1 DEF Inv, IterHolds, SetRoot

\* A new store again.
LEMMA ReopenInv == ASSUME Inv, Reopen PROVE Inv'
<1>1. /\ root' = Null /\ main' = DbInsert(<<>>, Null) /\ contents' = Empty /\ exact' = TRUE
      /\ unpurged' = 0 /\ ~iter.open /\ iter' = iter
  BY DEF Reopen
<1>2. Rooted(main', Null) /\ Exact(main', Null)
  BY <1>1, FirstStore
<1>3. Rooted(main', root') /\ Exact(main', root') /\ Reads(root', contents')
  BY <1>1, <1>2, EmptyReads
<1>4. IterHolds' /\ DOMAIN iter' = {"open", "root", "from", "trail", "seen"}
  BY <1>1 DEF IterHolds, Inv
<1>5. unpurged' \in 0 .. MaxUnpurged /\ exact' \in BOOLEAN
  BY <1>1, MaxUnpurgedAssumption
<1> QED
  BY <1>3, <1>4, <1>5 DEF Inv

\* Every step keeps the invariant.
LEMMA NextInv == Inv /\ [Next]_vars => Inv'
<1> SUFFICES ASSUME Inv, [Next]_vars PROVE Inv'
  OBVIOUS
<1>1. ASSUME NEW k \in Keys, NEW v \in Values, Insert(k, v) PROVE Inv'
  BY <1>1, InsertInv
<1>2. ASSUME NEW k \in Keys, Remove(k) PROVE Inv'
  BY <1>2, RemoveInv
<1>3. CASE Purge
  BY <1>3, PurgeInv
<1>4. CASE Begin
  BY <1>4, BeginInv
<1>5. CASE Advance
  BY <1>5, AdvanceInv
<1>6. CASE Close
  BY <1>6, CloseInv
<1>7. CASE SetRoot
  BY <1>7, SetRootInv
<1>8. CASE Reopen
  BY <1>8, ReopenInv
<1>9. CASE UNCHANGED vars
  BY <1>9 DEF Inv, IterHolds, vars
<1> QED
  BY <1>1, <1>2, <1>3, <1>4, <1>5, <1>6, <1>7, <1>8, <1>9 DEF Next

\* So it always holds.
LEMMA SpecInv == Spec => []Inv
BY InitInv, NextInv, PTL DEF Spec
-----------------------------------------------------------------------------
(* What the invariant gives. *)

\* The parts have their types and the root's node is in the store, after
\* every sequence of insertions, removals, purges and returns to an old root.
THEOREM TrieTypes == Spec => []TypeOK
<1>1. Inv => TypeOK
  <2> SUFFICES ASSUME Inv PROVE TypeOK
    OBVIOUS
  <2>1. Store(main) /\ root \in DOMAIN main
    BY DEF Inv, Rooted
  <2>2. \A n \in DOMAIN main : main[n] \in Nat /\ n.kind \in {"null", "pair", "branch"}
    BY <2>1 DEF Store, IsNode
  <2> QED
    BY <2>1, <2>2 DEF Inv, Reads, TypeOK
<1> QED
  BY <1>1, SpecInv, PTL

\* at() reads the contents at a root that holds them.
LEMMA AtReads ==
    ASSUME NEW db, NEW rt, Rooted(db, rt), NEW c, Reads(rt, c), NEW k \in Keys
    PROVE  At(db, rt, k) = c[k]
<1>1. k \in Seq(Nibbles) /\ Len(k) <= Longest
  BY KeysAre
<1>2. At(db, rt, k) = Find(rt, k)
  BY <1>1, AtIs DEF Rooted
<1> QED
  BY <1>1, <1>2 DEF Reads

\* at() reads back what insert() and remove() left: a trie that goes through
\* every shape of node still answers as the function it stores.
THEOREM TrieReads == Spec => []ReadsContents
<1>1. Inv => ReadsContents
  BY AtReads DEF Inv, ReadsContents
<1> QED
  BY <1>1, SpecInv, PTL

\* A root an iterator was begun at reads back the contents of then, since no
\* change before the purge takes a node away.
THEOREM TrieSnapshots == Spec => []SnapshotIsRead
<1>1. Inv => SnapshotIsRead
  BY AtReads DEF Inv, IterHolds, SnapshotIsRead
<1> QED
  BY <1>1, SpecInv, PTL

\* Exact counts are the references the property counts.
LEMMA CountsHold ==
    ASSUME NEW db, NEW rt, Rooted(db, rt), Exact(db, rt)
    PROVE  /\ Reached(db, rt) \subseteq DOMAIN db
           /\ \A n \in DOMAIN db : db[n] = RefsTo(db, rt, n)
           /\ DbKeys(db) \subseteq Reached(db, rt)
           /\ rt = Null \/ \A p \in Places :
                SlotAt(db, rt, p) # Null => DescendEntry(db, SlotAt(db, rt, p))
<1>1. Store(db) /\ rt \in DOMAIN db /\ Trie(rt, Longest, DOMAIN db)
  BY DEF Rooted
<1>2. /\ Reached(db, rt) \subseteq DOMAIN db
      /\ \A h : RefsTo(db, rt, h) # 0 => h \in Reached(db, rt)
  BY <1>1, ReachedAre
<1>3. ASSUME NEW n \in DOMAIN db PROVE db[n] = RefsTo(db, rt, n)
  <2>1. Cnt(db, n) = One(rt, n) + R(rt, n)
    BY DEF Exact
  <2>2. RefsTo(db, rt, n) = One(rt, n) + R(rt, n)
    BY <1>1, RefsAre
  <2> QED
    BY <2>1, <2>2 DEF Cnt
<1>4. DbKeys(db) \subseteq Reached(db, rt)
  <2>1. ASSUME NEW n \in DOMAIN db, db[n] > 0 PROVE n \in Reached(db, rt)
    <3>1. RefsTo(db, rt, n) # 0
      BY <1>3, <2>1
    <3> QED
      BY <1>2, <3>1
  <2> QED
    BY <2>1 DEF DbKeys
<1>5. ASSUME rt # Null, NEW p \in Places, SlotAt(db, rt, p) # Null
      PROVE  DescendEntry(db, SlotAt(db, rt, p))
  BY <1>1, <1>5, DescendsAll
<1> QED
  BY <1>2, <1>3, <1>4, <1>5

\* Each count is the number of references there are, as long as no removal
\* threw half way and no old root was returned to: so a purge deletes exactly
\* what nothing uses, and check(true) holds.
THEOREM TrieCounts == Spec => []CountsAreExact
<1>1. Inv => CountsAreExact
  <2> SUFFICES ASSUME Inv, exact PROVE CountsAreExact
    BY DEF CountsAreExact
  <2>1. Rooted(main, root) /\ Exact(main, root)
    BY DEF Inv
  <2>2. /\ Reached(main, root) \subseteq DOMAIN main
        /\ \A n \in DOMAIN main : main[n] = RefsTo(main, root, n)
    BY <2>1, CountsHold
  <2>3. Check
    BY <2>1, CountsHold DEF Check
  <2> QED
    BY <2>2, <2>3 DEF CountsAreExact
<1> QED
  BY <1>1, SpecInv, PTL
=============================================================================
