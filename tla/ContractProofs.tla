--------------------------- MODULE ContractProofs ---------------------------
(***************************************************************************)
(* TypeOK, TailsAreFound, AnswerDecodes, ErrorTells and SelectorIsDeclared *)
(* of Contract, for any interfaces and arguments.                          *)
(*                                                                         *)
(* The invariant says that the offset an encoder keeps is the number of    *)
(* bytes the heads will take and the tails take so far.  It rests on what  *)
(* an argument appends to the tails being a sequence, however long its     *)
(* items are: FlattenSeq is a recursive function, so this is proved by     *)
(* induction, over sets of numbers.                                        *)
(***************************************************************************)
EXTENDS Contract, TLAPS, WellFoundedInduction, SequenceTheorems, FiniteSetTheorems

(* Induction over a set of numbers. *)
Below == {ss \in Nat \X Nat : ss[1] < ss[2]}

LEMMA BelowIsWellFounded == IsWellFoundedOn(Below, Nat)
  <1>1. OpToRel(<, Nat) = Below
    BY DEF OpToRel, Below
  <1> QED
    BY <1>1, NatLessThanWellFounded, Zenon

LEMMA LeastNumber ==
    ASSUME NEW T \in SUBSET Nat, NEW n \in T
    PROVE  \E m \in T : \A k \in T : m <= k
  <1>1. PICK x \in T : \A y \in T : ~ (<<y, x>> \in Below)
    BY BelowIsWellFounded, WFMin, Zenon
  <1>2. \A y \in T : ~ (y < x)
    BY <1>1 DEF Below
  <1>3. \A y \in T : x <= y
    BY <1>2
  <1> QED
    BY <1>3, Zenon

LEMMA SetInduction ==
    ASSUME NEW S, 0 \in S, \A n \in Nat : n \in S => n + 1 \in S
    PROVE  Nat \subseteq S
  <1> SUFFICES ASSUME NEW n \in Nat \ S PROVE FALSE
    OBVIOUS
  <1>1. PICK m \in Nat \ S : \A k \in Nat \ S : m <= k
    BY LeastNumber
  <1>2. m # 0 /\ m - 1 \in Nat /\ m = (m - 1) + 1
    BY <1>1
  <1>3. m - 1 \in S
    BY <1>1, <1>2
  <1> QED
    BY <1>1, <1>2, <1>3

(* A function defined by recursion over 0 .. n exists. *)
Steps(F, n, S) == \A k \in 1 .. n : \A v \in S : F[k][v] \in S
Recurs(f, F, n, S, b) ==
    f \in [0 .. n -> S] /\ f[0] = b /\ \A k \in 1 .. n : f[k] = F[k][f[k - 1]]

LEMMA Recursion ==
    ASSUME NEW n \in Nat, NEW S, NEW b \in S, NEW F, Steps(F, n, S)
    PROVE  \E f : Recurs(f, F, n, S, b)
  <1> DEFINE Step(f, k) == IF k = 0 THEN b ELSE F[k][f[k - 1]]
             Some(m) == \E f \in [0 .. m -> S] : \A k \in 0 .. m : f[k] = Step(f, k)
             Reached == {m \in Nat : m <= n => Some(m)}
  <1>0. \A k \in 1 .. n : \A v \in S : F[k][v] \in S
    BY DEF Steps
  <1>1. 0 \in Reached
    <2>1. [k \in 0 .. 0 |-> b] \in [0 .. 0 -> S]
      OBVIOUS
    <2>2. \A k \in 0 .. 0 : k = 0 /\ [l \in 0 .. 0 |-> b][k] = b
      OBVIOUS
    <2>3. Some(0)
      BY <2>1, <2>2
    <2> HIDE DEF Some
    <2> QED
      BY <2>3
  <1>2. ASSUME NEW m \in Nat, m \in Reached PROVE m + 1 \in Reached
    <2>1. ASSUME m + 1 <= n PROVE Some(m + 1)
      <3>1. m <= n
        BY <2>1
      <3>2. PICK f \in [0 .. m -> S] : \A k \in 0 .. m : f[k] = Step(f, k)
        BY <1>2, <3>1
      <3> DEFINE h == [k \in 0 .. m + 1 |-> IF k <= m THEN f[k] ELSE F[m + 1][f[m]]]
      <3>3. h \in [0 .. m + 1 -> S]
        BY <1>0, <2>1
      <3>4. ASSUME NEW k \in 0 .. m + 1 PROVE h[k] = Step(h, k)
        <4>1. CASE k <= m
          <5>1. k \in 0 .. m
            BY <4>1
          <5>2. f[k] = Step(f, k)
            <6> HIDE DEF Step
            <6> QED
              BY <3>2, <5>1
          <5>3. k # 0 => h[k - 1] = f[k - 1]
            BY <4>1
          <5> QED
            BY <5>2, <5>3, <4>1
        <4>2. CASE k = m + 1
          <5>1. h[k - 1] = f[m]
            BY <4>2
          <5> QED
            BY <5>1, <4>2
        <4> QED
          BY <4>1, <4>2
      <3> QED
        BY <3>3, <3>4
    <2> HIDE DEF Some
    <2> QED
      BY <2>1
  <1> HIDE DEF Reached
  <1>3. Nat \subseteq Reached
    BY <1>1, <1>2, SetInduction, Zenon
  <1>4. Some(n)
    BY <1>3 DEF Reached
  <1>5. PICK f \in [0 .. n -> S] : \A k \in 0 .. n : f[k] = Step(f, k)
    BY <1>4
  <1>6. Recurs(f, F, n, S, b)
    BY <1>5 DEF Recurs
  <1> QED
    BY <1>6

(* What each part of a sequence of sequences keeps, its concatenation has: G[i] is where the     *)
(* first i parts put together belong.                                                             *)
LEMMA FlattenInvariant ==
    ASSUME NEW W, NEW ss \in Seq(Seq(W)), Len(ss) # 0,
           NEW G, ss[1] \in G[1],
           \A i \in 1 .. Len(ss) : i + 1 <= Len(ss) => \A g \in G[i] : g \o ss[i + 1] \in G[i + 1]
    PROVE  FlattenSeq(ss) \in G[Len(ss)]
  <1> DEFINE Step(g, i) == IF i = 1 THEN ss[i] ELSE g[i - 1] \o ss[i]
             Some(n) == \E g \in [1 .. n -> Seq(W)] : \A i \in 1 .. n : g[i] = Step(g, i)
             Reached == {n \in Nat : n <= Len(ss) => Some(n)}
  <1>1. 0 \in Reached
    <2>1. [i \in 1 .. 0 |-> <<>>] \in [1 .. 0 -> Seq(W)]
      OBVIOUS
    <2>2. 1 .. 0 = {}
      OBVIOUS
    <2>3. Some(0)
      <3> HIDE DEF Step
      <3> QED
        BY <2>1, <2>2, Zenon
    <2> HIDE DEF Some
    <2> QED
      BY <2>3
  <1>2. ASSUME NEW n \in Nat, n \in Reached PROVE n + 1 \in Reached
    <2>1. ASSUME n + 1 <= Len(ss) PROVE Some(n + 1)
      <3>1. n <= Len(ss)
        BY <2>1
      <3>2. PICK g \in [1 .. n -> Seq(W)] : \A i \in 1 .. n : g[i] = Step(g, i)
        BY <1>2, <3>1
      <3> DEFINE h == [i \in 1 .. n + 1 |-> IF i <= n THEN g[i] ELSE Step(g, i)]
      <3>3. n + 1 # 1 => g[n] \in Seq(W)
        OBVIOUS
      <3>4. ss[n + 1] \in Seq(W)
        BY <2>1
      <3>5. h \in [1 .. n + 1 -> Seq(W)]
        BY <3>3, <3>4
      <3>6. ASSUME NEW i \in 1 .. n + 1 PROVE h[i] = Step(h, i)
        <4>1. CASE i <= n
          <5>1. i \in 1 .. n
            BY <4>1
          <5>2. g[i] = Step(g, i)
            <6> HIDE DEF Step
            <6> QED
              BY <3>2, <5>1
          <5>3. ASSUME i # 1 PROVE h[i - 1] = g[i - 1]
            <6>1. i - 1 \in 1 .. n + 1 /\ i - 1 <= n
              BY <4>1, <5>3
            <6> HIDE DEF Step
            <6> QED
              BY <6>1
          <5> QED
            BY <5>2, <5>3, <4>1
        <4>2. CASE i = n + 1
          <5>1. i # 1 => h[i - 1] = g[i - 1]
            BY <4>2
          <5> QED
            BY <5>1, <4>2
        <4> QED
          BY <4>1, <4>2
      <3> QED
        BY <3>5, <3>6
    <2> HIDE DEF Some
    <2> QED
      BY <2>1
  <1> HIDE DEF Reached
  <1>3. Len(ss) \in Reached
    <2>1. Nat \subseteq Reached
      BY <1>1, <1>2, SetInduction, Zenon
    <2>2. Len(ss) \in Nat
      OBVIOUS
    <2> QED
      BY <2>1, <2>2
  <1> USE DEF Reached
  <1> DEFINE f == CHOOSE g : g = [i \in 1 .. Len(ss) |-> Step(g, i)]
  <1>4. \E g : g = [i \in 1 .. Len(ss) |-> Step(g, i)]
    <2>1. PICK g \in [1 .. Len(ss) -> Seq(W)] : \A i \in 1 .. Len(ss) : g[i] = Step(g, i)
      <3>1. Some(Len(ss))
        <4> HIDE DEF Some
        <4> QED
          BY <1>3
      <3> QED
        BY <3>1, Zenon
    <2>2. g = [i \in 1 .. Len(ss) |-> Step(g, i)]
      <3> HIDE DEF Step
      <3> QED
        BY <2>1
    <2> QED
      BY <2>2, Zenon
  <1>5. f = [i \in 1 .. Len(ss) |-> Step(f, i)]
    BY <1>4, Zenon
  <1>6. FlattenSeq(ss) = f[Len(ss)]
    BY DEF FlattenSeq
  <1> HIDE DEF f
  <1>7. \A i \in 1 .. Len(ss) : f[i] = Step(f, i)
    BY <1>5
  <1> DEFINE Good == {n \in Nat : n + 1 \in 1 .. Len(ss) => f[n + 1] \in G[n + 1]}
  <1>8. 0 \in Good
    BY <1>7
  <1>9. ASSUME NEW n \in Nat, n \in Good PROVE n + 1 \in Good
    <2>1. ASSUME n + 2 \in 1 .. Len(ss) PROVE f[n + 2] \in G[n + 2]
      <3>1. (n + 2) - 1 = n + 1 /\ n + 2 # 1 /\ (n + 1) + 1 = n + 2 /\ n + 1 \in 1 .. Len(ss)
        BY <2>1
      <3>2. f[n + 2] = f[n + 1] \o ss[n + 2]
        BY <1>7, <2>1, <3>1
      <3>3. f[n + 1] \in G[n + 1]
        BY <1>9, <3>1
      <3>4. f[n + 1] \o ss[n + 2] \in G[n + 2]
        <4>1. \A g \in G[n + 1] : g \o ss[(n + 1) + 1] \in G[(n + 1) + 1]
          <5>1. (n + 1) + 1 <= Len(ss)
            BY <2>1, <3>1
          <5> QED
            BY <3>1, <5>1, Zenon
        <4> QED
          BY <3>1, <3>3, <4>1, Zenon
      <3> QED
        BY <3>2, <3>4
    <2>2. n + 1 + 1 = n + 2
      OBVIOUS
    <2> QED
      BY <2>1, <2>2
  <1>10. Len(ss) - 1 \in Nat /\ Len(ss) - 1 + 1 = Len(ss)
    OBVIOUS
  <1> HIDE DEF Good
  <1>11. Len(ss) - 1 \in Good
    BY <1>8, <1>9, <1>10, SetInduction
  <1> USE DEF Good
  <1> QED
    BY <1>6, <1>10, <1>11

LEMMA FlattenIsSeq ==
    ASSUME NEW W, NEW ss \in Seq(Seq(W))
    PROVE  FlattenSeq(ss) \in Seq(W)
  <1>1. CASE Len(ss) = 0
    BY <1>1 DEF FlattenSeq
  <1>2. CASE Len(ss) # 0
    <2> DEFINE G == [i \in 1 .. Len(ss) |-> Seq(W)]
    <2>1. ss[1] \in G[1]
      BY <1>2
    <2>2. ASSUME NEW i \in 1 .. Len(ss), i + 1 <= Len(ss), NEW g \in G[i]
          PROVE  g \o ss[i + 1] \in G[i + 1]
      <3>1. g \in Seq(W) /\ i + 1 \in 1 .. Len(ss) /\ ss[i + 1] \in Seq(W)
        BY <2>2
      <3>2. g \o ss[i + 1] \in Seq(W)
        BY <3>1
      <3> QED
        BY <3>1, <3>2
    <2>3. G[Len(ss)] = Seq(W)
      BY <1>2
    <2> HIDE DEF G
    <2> QED
      BY <1>2, <2>1, <2>2, <2>3, FlattenInvariant
  <1> QED
    BY <1>1, <1>2

(* Parts of at most one element are at most that many. *)
LEMMA FlattenIsShort ==
    ASSUME NEW W, NEW ss \in Seq(Seq(W)), \A i \in 1 .. Len(ss) : Len(ss[i]) <= 1
    PROVE  Len(FlattenSeq(ss)) <= Len(ss)
  <1>1. CASE Len(ss) = 0
    BY <1>1 DEF FlattenSeq
  <1>2. CASE Len(ss) # 0
    <2> DEFINE G == [i \in 1 .. Len(ss) |-> {s \in Seq(W) : Len(s) <= i}]
    <2>1. ss[1] \in G[1]
      BY <1>2
    <2>2. ASSUME NEW i \in 1 .. Len(ss), i + 1 <= Len(ss), NEW g \in G[i]
          PROVE  g \o ss[i + 1] \in G[i + 1]
      <3>1. g \in Seq(W) /\ Len(g) <= i
        OBVIOUS
      <3>2. ss[i + 1] \in Seq(W) /\ Len(ss[i + 1]) <= 1
        BY <2>2
      <3>3. g \o ss[i + 1] \in Seq(W) /\ Len(g \o ss[i + 1]) <= i + 1
        BY <3>1, <3>2
      <3>4. i + 1 \in 1 .. Len(ss)
        BY <2>2
      <3>5. G[i + 1] = {s \in Seq(W) : Len(s) <= i + 1}
        BY <3>4, Zenon
      <3> QED
        BY <3>3, <3>5, Zenon
    <2>3. G[Len(ss)] = {s \in Seq(W) : Len(s) <= Len(ss)}
      BY <1>2
    <2> HIDE DEF G
    <2>4. FlattenSeq(ss) \in G[Len(ss)]
      BY <1>2, <2>1, <2>2, FlattenInvariant
    <2> QED
      BY <2>3, <2>4
  <1> QED
    BY <1>1, <1>2

-----------------------------------------------------------------------------
(* Words, and a content found in them at an offset. *)
Word == {Num(n) : n \in Nat} \union {Val(x) : x \in Value}
            \union {Part(x, k) : x \in Text, k \in Nat}

FoundIn(s, offset, content) ==
    \E q \in Nat : /\ offset = 32 * q /\ q + Len(content) <= Len(s)
                   /\ \A m \in 1 .. Len(content) : s[q + m] = content[m]

LEMMA StaysFound ==
    ASSUME NEW W, NEW s \in Seq(W), NEW t \in Seq(W), NEW content \in Seq(W), NEW offset,
           FoundIn(s, offset, content)
    PROVE  FoundIn(s \o t, offset, content)
  <1>1. PICK q \in Nat : /\ offset = 32 * q /\ q + Len(content) <= Len(s)
                         /\ \A m \in 1 .. Len(content) : s[q + m] = content[m]
    BY DEF FoundIn
  <1>2. Len(s \o t) = Len(s) + Len(t)
    OBVIOUS
  <1>3. ASSUME NEW m \in 1 .. Len(content) PROVE (s \o t)[q + m] = content[m]
    <2>1. q + m \in 1 .. Len(s)
      BY <1>1
    <2>2. (s \o t)[q + m] = s[q + m]
      BY <2>1
    <2> QED
      BY <1>1, <2>2
  <1> QED
    BY <1>1, <1>2, <1>3 DEF FoundIn

LEMMA FoundBehind ==
    ASSUME NEW W, NEW s \in Seq(W), NEW t \in Seq(W), NEW content \in Seq(W), NEW offset,
           FoundIn(t, offset, content)
    PROVE  FoundIn(s \o t, 32 * Len(s) + offset, content)
  <1>1. PICK q \in Nat : /\ offset = 32 * q /\ q + Len(content) <= Len(t)
                         /\ \A m \in 1 .. Len(content) : t[q + m] = content[m]
    BY DEF FoundIn
  <1>2. Len(s \o t) = Len(s) + Len(t)
    OBVIOUS
  <1> DEFINE r == Len(s) + q
  <1>3. ASSUME NEW m \in 1 .. Len(content) PROVE (s \o t)[r + m] = content[m]
    <2>1. q + m \in 1 .. Len(t) /\ r + m \in Len(s) + 1 .. Len(s) + Len(t) /\ (r + m) - Len(s) = q + m
      BY <1>1
    <2>2. (s \o t)[r + m] = t[q + m]
      BY <2>1
    <2> QED
      BY <1>1, <2>2
  <1>4. r \in Nat /\ 32 * Len(s) + offset = 32 * r /\ r + Len(content) <= Len(s \o t)
    BY <1>1, <1>2
  <1> HIDE DEF r
  <1> QED
    BY <1>3, <1>4 DEF FoundIn

LEMMA FoundAtEnd ==
    ASSUME NEW W, NEW s \in Seq(W), NEW content \in Seq(W)
    PROVE  FoundIn(s \o content, 32 * Len(s), content)
  <1>1. FoundIn(content, 32 * 0, content)
    BY DEF FoundIn
  <1>2. 32 * Len(s) + 32 * 0 = 32 * Len(s)
    OBVIOUS
  <1> QED
    BY <1>1, <1>2, FoundBehind

-----------------------------------------------------------------------------
(* One content: its length and its parts. *)
LEMMA CompletedText ==
    ASSUME NEW x \in Text
    PROVE  /\ Completed(x) \in Text /\ Completed(x).digits % 2 = 0
           /\ Completed(x).id = x.id /\ (x.digits % 2 = 0 => Completed(x) = x)
  BY DEF Text, Completed

LEMMA SizedWords ==
    ASSUME NEW op, NEW x \in Text
    PROVE  /\ Sized(op, x) \in Seq(Word)
           /\ Room(op, x.digits) \in Nat /\ WordsFor(x.digits) <= Room(op, x.digits)
           /\ Len(Sized(op, x)) = 1 + Room(op, x.digits)
           /\ Sized(op, x)[1] = Num(x.digits \div 2)
           /\ \A k \in 1 .. Room(op, x.digits) : Sized(op, x)[1 + k] = Part(x, k)
  <1>1. x.digits \in Nat /\ x.digits \div 2 \in Nat
    BY DEF Text
  <1>2. Room(op, x.digits) \in Nat /\ WordsFor(x.digits) \in Nat /\ WordsFor(x.digits) <= Room(op, x.digits)
    BY <1>1 DEF Room, WordsFor
  <1> DEFINE r == Room(op, x.digits)
  <1>3. Parts(op, x) = [k \in 1 .. r |-> Part(x, k)]
    BY DEF Parts
  <1>4. Num(x.digits \div 2) \in Word /\ \A k \in 1 .. r : Part(x, k) \in Word
    BY <1>1, <1>2 DEF Word
  <1> HIDE DEF r
  <1>5. r \in Nat
    BY <1>2 DEF r
  <1>6. Parts(op, x) \in Seq(Word) /\ Len(Parts(op, x)) = r
    BY <1>3, <1>4, <1>5
  <1>7. <<Num(x.digits \div 2)>> \in Seq(Word) /\ Len(<<Num(x.digits \div 2)>>) = 1
    BY <1>4
  <1>8. Sized(op, x) = <<Num(x.digits \div 2)>> \o Parts(op, x)
    BY DEF Sized
  <1> DEFINE n == Num(x.digits \div 2)
  <1> HIDE DEF n
  <1>9. <<n>> \in Seq(Word) /\ Sized(op, x) = <<n>> \o Parts(op, x)
    BY <1>7, <1>8 DEF n
  <1>10. Sized(op, x) \in Seq(Word) /\ Len(Sized(op, x)) = 1 + r /\ Sized(op, x)[1] = n
    BY <1>6, <1>9
  <1>11. ASSUME NEW k \in 1 .. r PROVE Sized(op, x)[1 + k] = Part(x, k)
    <2>1. Sized(op, x)[1 + k] = Parts(op, x)[k]
      BY <1>5, <1>6, <1>9
    <2> QED
      BY <2>1, <1>3
  <1> QED
    BY <1>2, <1>10, <1>11 DEF r, n

-----------------------------------------------------------------------------
(* The offsets of the items of an array, by recursion in both encoders. *)
LEMMA PaddingsSum ==
    ASSUME NEW items \in Seq(Text)
    PROVE  /\ Paddings(items) \in [0 .. Len(items) -> Nat]
           /\ Paddings(items)[0] = 0
           /\ \A k \in 1 .. Len(items) :
                  Paddings(items)[k] = Paddings(items)[k - 1] + Room("packMulti", Completed(items[k]).digits)
  <1> DEFINE n == Len(items)
             R == [k \in 1 .. n |-> Room("packMulti", Completed(items[k]).digits)]
             F == [k \in 1 .. n |-> [m \in Nat |-> m + R[k]]]
             Is(f) == f = [k \in 0 .. n |-> IF k = 0 THEN 0 ELSE f[k - 1] + R[k]]
  <1>1. n \in Nat
    OBVIOUS
  <1>2. R \in [1 .. n -> Nat]
    <2>1. ASSUME NEW k \in 1 .. n PROVE Room("packMulti", Completed(items[k]).digits) \in Nat
      <3>1. items[k] \in Text
        OBVIOUS
      <3> QED
        BY <3>1, CompletedText, SizedWords
    <2> QED
      BY <2>1
  <1> HIDE DEF R, n
  <1>3. F \in [1 .. n -> [Nat -> Nat]]
    BY <1>2
  <1> HIDE DEF F
  <1>4. PICK f : Recurs(f, F, n, Nat, 0)
    <2>1. Steps(F, n, Nat)
      BY <1>3 DEF Steps
    <2> QED
      BY <1>1, <2>1, Recursion
  <1> USE DEF F
  <1>5. Is(f)
    <2>1. ASSUME NEW k \in 0 .. n, k # 0 PROVE F[k][f[k - 1]] = f[k - 1] + R[k]
      <3>1. k \in 1 .. n /\ k - 1 \in 0 .. n
        BY <2>1, <1>1
      <3>2. f[k - 1] \in Nat
        BY <1>4, <3>1 DEF Recurs
      <3> QED
        BY <3>1, <3>2
    <2>2. ASSUME NEW k \in 0 .. n PROVE f[k] = IF k = 0 THEN 0 ELSE f[k - 1] + R[k]
      <3>1. k # 0 => k \in 1 .. n
        BY <1>1
      <3>2. k # 0 => f[k] = F[k][f[k - 1]]
        BY <1>4, <3>1 DEF Recurs
      <3>3. f[0] = 0
        BY <1>4 DEF Recurs
      <3> QED
        BY <2>1, <3>2, <3>3
    <2> QED
      BY <1>4, <2>2 DEF Recurs
  <1> DEFINE g == CHOOSE h : Is(h)
  <1>6. Is(g)
    BY <1>5
  <1>7. Paddings(items) = g
    BY DEF Paddings, R, n
  <1> HIDE DEF g
  <1>8. g[0] = 0 /\ \A k \in 1 .. n : g[k] = g[k - 1] + R[k]
    BY <1>1, <1>6
  <1> DEFINE Good == {k \in Nat : k \in 0 .. n => g[k] \in Nat}
  <1>9. 0 \in Good
    BY <1>8
  <1>10. ASSUME NEW k \in Nat, k \in Good PROVE k + 1 \in Good
    <2>1. ASSUME k + 1 \in 0 .. n PROVE g[k + 1] \in Nat
      <3>1. k \in 0 .. n /\ k + 1 \in 1 .. n /\ (k + 1) - 1 = k
        BY <2>1, <1>1
      <3> QED
        BY <1>2, <1>8, <1>10, <3>1
    <2> QED
      BY <2>1
  <1> HIDE DEF Good
  <1>11. Nat \subseteq Good
    BY <1>9, <1>10, SetInduction, Zenon
  <1>12. g \in [0 .. n -> Nat]
    <2>1. \A k \in 0 .. n : g[k] \in Nat
      BY <1>1, <1>11 DEF Good
    <2>2. g = [k \in 0 .. n |-> g[k]]
      BY <1>6
    <2> QED
      BY <2>1, <2>2
  <1> QED
    BY <1>7, <1>8, <1>12 DEF R, n

LEMMA RoundedSum ==
    ASSUME NEW items \in Seq(Text)
    PROVE  /\ RoundedOffsets(items) \in [0 .. Len(items) -> Nat]
           /\ RoundedOffsets(items)[0] = 32 * Len(items)
           /\ \A k \in 1 .. Len(items) :
                  RoundedOffsets(items)[k] =
                      32 * ((RoundedOffsets(items)[k - 1] + 32 + (Completed(items[k]).digits \div 2) + 31) \div 32)
  <1> DEFINE n == Len(items)
             R == [k \in 1 .. n |-> Completed(items[k]).digits \div 2]
             F == [k \in 1 .. n |-> [m \in Nat |-> 32 * ((m + 32 + R[k] + 31) \div 32)]]
             Is(f) == f = [k \in 0 .. n |-> IF k = 0 THEN 32 * n ELSE 32 * ((f[k - 1] + 32 + R[k] + 31) \div 32)]
  <1>1. n \in Nat
    OBVIOUS
  <1>2. R \in [1 .. n -> Nat]
    <2>1. ASSUME NEW k \in 1 .. n PROVE Completed(items[k]).digits \div 2 \in Nat
      <3>1. items[k] \in Text
        OBVIOUS
      <3>2. Completed(items[k]).digits \in Nat
        BY <3>1, CompletedText DEF Text
      <3> QED
        BY <3>2
    <2> QED
      BY <2>1
  <1> HIDE DEF R, n
  <1>3. F \in [1 .. n -> [Nat -> Nat]]
    <2>1. ASSUME NEW k \in 1 .. n, NEW m \in Nat PROVE 32 * ((m + 32 + R[k] + 31) \div 32) \in Nat
      <3>1. R[k] \in Nat
        BY <1>2
      <3> QED
        BY <3>1
    <2> QED
      BY <2>1
  <1> HIDE DEF F
  <1>4. PICK f : Recurs(f, F, n, Nat, 32 * n)
    <2>1. 32 * n \in Nat
      BY <1>1
    <2>2. Steps(F, n, Nat)
      BY <1>3 DEF Steps
    <2> QED
      BY <1>1, <2>1, <2>2, Recursion
  <1> USE DEF F
  <1>5. Is(f)
    <2>1. ASSUME NEW k \in 0 .. n, k # 0 PROVE F[k][f[k - 1]] = 32 * ((f[k - 1] + 32 + R[k] + 31) \div 32)
      <3>1. k \in 1 .. n /\ k - 1 \in 0 .. n
        BY <2>1, <1>1
      <3>2. f[k - 1] \in Nat
        BY <1>4, <3>1 DEF Recurs
      <3> QED
        BY <3>1, <3>2
    <2>2. ASSUME NEW k \in 0 .. n PROVE f[k] = IF k = 0 THEN 32 * n ELSE 32 * ((f[k - 1] + 32 + R[k] + 31) \div 32)
      <3>1. k # 0 => k \in 1 .. n
        BY <1>1
      <3>2. k # 0 => f[k] = F[k][f[k - 1]]
        BY <1>4, <3>1 DEF Recurs
      <3>3. f[0] = 32 * n
        BY <1>4 DEF Recurs
      <3> QED
        BY <2>1, <3>2, <3>3
    <2> QED
      BY <1>4, <2>2 DEF Recurs
  <1> DEFINE g == CHOOSE h : Is(h)
  <1>6. Is(g)
    BY <1>5
  <1>7. RoundedOffsets(items) = g
    BY DEF RoundedOffsets, R, n
  <1> HIDE DEF g
  <1>8. g[0] = 32 * n /\ \A k \in 1 .. n : g[k] = 32 * ((g[k - 1] + 32 + R[k] + 31) \div 32)
    BY <1>1, <1>6
  <1> DEFINE Good == {k \in Nat : k \in 0 .. n => g[k] \in Nat}
  <1>9. 0 \in Good
    BY <1>1, <1>8
  <1>10. ASSUME NEW k \in Nat, k \in Good PROVE k + 1 \in Good
    <2>1. ASSUME k + 1 \in 0 .. n PROVE g[k + 1] \in Nat
      <3>1. k \in 0 .. n /\ k + 1 \in 1 .. n /\ (k + 1) - 1 = k
        BY <2>1, <1>1
      <3>2. g[k] \in Nat /\ R[k + 1] \in Nat
        BY <1>2, <1>10, <3>1
      <3>3. g[k + 1] = 32 * ((g[k] + 32 + R[k + 1] + 31) \div 32)
        BY <1>8, <3>1
      <3> QED
        BY <3>2, <3>3
    <2> QED
      BY <2>1
  <1> HIDE DEF Good
  <1>11. Nat \subseteq Good
    BY <1>9, <1>10, SetInduction, Zenon
  <1>12. g \in [0 .. n -> Nat]
    <2>1. \A k \in 0 .. n : g[k] \in Nat
      BY <1>1, <1>11 DEF Good
    <2>2. g = [k \in 0 .. n |-> g[k]]
      BY <1>6
    <2> QED
      BY <2>1, <2>2
  <1> QED
    BY <1>7, <1>8, <1>12 DEF R, n

\* From one item to the next an offset moves by what the item takes, its length's word included.
LEMMA ItemOffsetsAdvance ==
    ASSUME NEW op, NEW items \in Seq(Text), NEW k \in 1 .. Len(items)
    PROVE  /\ ItemOffset(op, items, k) \in Nat
           /\ ItemOffset(op, items, 1) = 32 * Len(items)
           /\ k + 1 <= Len(items) =>
                  ItemOffset(op, items, k + 1) =
                      ItemOffset(op, items, k) + 32 * Len(Sized(op, Completed(items[k])))
  <1> DEFINE d == Completed(items[k]).digits
  <1>1. items[k] \in Text /\ k \in Nat /\ k - 1 \in 0 .. Len(items) /\ 0 \in 0 .. Len(items) /\ Len(items) \in Nat
    OBVIOUS
  <1>2. d \in Nat /\ d % 2 = 0 /\ Len(Sized(op, Completed(items[k]))) = 1 + Room(op, d)
    <2>1. Completed(items[k]) \in Text /\ d % 2 = 0
      BY <1>1, CompletedText
    <2> QED
      BY <2>1, SizedWords DEF Text
  <1>3. CASE op = "older"
    <2> DEFINE R == RoundedOffsets(items)
    <2>1. /\ R \in [0 .. Len(items) -> Nat] /\ R[0] = 32 * Len(items)
          /\ \A l \in 1 .. Len(items) : R[l] = 32 * ((R[l - 1] + 32 + (Completed(items[l]).digits \div 2) + 31) \div 32)
      BY RoundedSum
    <2> HIDE DEF R
    <2>2. \A l : ItemOffset(op, items, l) = R[l - 1]
      BY <1>3 DEF ItemOffset, R
    <2>3. ItemOffset(op, items, 1) = 32 * Len(items) /\ ItemOffset(op, items, k) \in Nat
      <3>1. 1 - 1 = 0
        OBVIOUS
      <3>2. ItemOffset(op, items, 1) = R[0] /\ ItemOffset(op, items, k) = R[k - 1]
        BY <2>2, <3>1
      <3>3. R[k - 1] \in Nat
        BY <2>1, <1>1
      <3> QED
        BY <2>1, <3>2, <3>3
    <2>4. R[k] = 32 * ((R[k - 1] + 32 + (d \div 2) + 31) \div 32)
      BY <2>1
    <2>5. ItemOffset(op, items, k + 1) = R[k] /\ ItemOffset(op, items, k) = R[k - 1]
      <3>1. (k + 1) - 1 = k
        BY <1>1
      <3> QED
        BY <2>2, <3>1
    <2>6. \E q \in Nat : R[k - 1] = 32 * q
      <3>1. CASE k = 1
        BY <2>1, <3>1
      <3>2. CASE k # 1
        <4>1. k - 1 \in 1 .. Len(items) /\ (k - 1) - 1 \in 0 .. Len(items) /\ items[k - 1] \in Text
          BY <3>2, <1>1
        <4> DEFINE e == Completed(items[k - 1]).digits
                   q == (R[(k - 1) - 1] + 32 + (e \div 2) + 31) \div 32
        <4>2. e \in Nat
          BY <4>1, CompletedText DEF Text
        <4>3. R[(k - 1) - 1] \in Nat
          BY <2>1, <4>1
        <4>4. q \in Nat
          <5> HIDE DEF e
          <5> QED
            BY <4>2, <4>3
        <4>5. R[k - 1] = 32 * q
          BY <2>1, <4>1
        <4> QED
          BY <4>4, <4>5
      <3> QED
        BY <3>1, <3>2
    <2>7. Room(op, d) = (d + 63) \div 64
      BY <1>3 DEF Room, WordsFor
    <2>8. R[k] = R[k - 1] + 32 * (1 + Room(op, d))
      <3> HIDE DEF d
      <3>1. PICK q \in Nat : R[k - 1] = 32 * q
        BY <2>6
      <3>2. PICK h \in Nat : d = 2 * h
        BY <1>2
      <3>3. d \div 2 = h /\ (d + 63) \div 64 = (h + 31) \div 32
        BY <3>2
      <3>4. (32 * q + 32 + h + 31) \div 32 = q + 1 + ((h + 31) \div 32)
        BY <3>1, <3>2
      <3> QED
        BY <2>4, <2>7, <3>1, <3>2, <3>3, <3>4
    <2> QED
      BY <1>2, <2>3, <2>5, <2>8
  <1>4. CASE op # "older"
    <2> DEFINE P == Paddings(items)
    <2>1. /\ P \in [0 .. Len(items) -> Nat] /\ P[0] = 0
          /\ \A l \in 1 .. Len(items) : P[l] = P[l - 1] + Room("packMulti", Completed(items[l]).digits)
      BY PaddingsSum
    <2> HIDE DEF P
    <2>2. \A l : ItemOffset(op, items, l) = 32 * Len(items) + 32 * (l - 1) + 32 * P[l - 1]
      BY <1>4 DEF ItemOffset, P
    <2>3. ItemOffset(op, items, 1) = 32 * Len(items)
      BY <2>1, <2>2, <1>1
    <2>4. P[k] = P[k - 1] + Room(op, d) /\ P[k - 1] \in Nat
      <3>1. Room(op, d) = Room("packMulti", d)
        BY <1>4 DEF Room
      <3> QED
        BY <2>1, <3>1, <1>1
    <2>5. Room(op, d) \in Nat
      BY <1>1, CompletedText, SizedWords
    <2>6. ItemOffset(op, items, k) = 32 * Len(items) + 32 * (k - 1) + 32 * P[k - 1]
      BY <2>2
    <2>7. ItemOffset(op, items, k + 1) = 32 * Len(items) + 32 * k + 32 * P[k]
      <3>1. (k + 1) - 1 = k
        BY <1>1
      <3> QED
        BY <2>2, <3>1
    <2> HIDE DEF d
    <2>8. ItemOffset(op, items, k + 1) = ItemOffset(op, items, k) + 32 * (1 + Room(op, d))
      BY <1>1, <2>4, <2>5, <2>6, <2>7
    <2>9. ItemOffset(op, items, k) \in Nat
      BY <1>1, <2>4, <2>6
    <2> QED
      BY <1>2, <2>3, <2>8, <2>9 DEF d
  <1> QED
    BY <1>3, <1>4

LEMMA WordBefore ==
    ASSUME NEW W, NEW w \in W, NEW t \in Seq(W)
    PROVE  /\ <<w>> \o t \in Seq(W) /\ Len(<<w>> \o t) = 1 + Len(t)
           /\ (<<w>> \o t)[1] = w /\ Tail(<<w>> \o t) = t
           /\ \A k \in 1 .. Len(t) : (<<w>> \o t)[1 + k] = t[k]
  <1>1. <<w>> \in Seq(W) /\ Len(<<w>>) = 1 /\ <<w>>[1] = w
    OBVIOUS
  <1> DEFINE s == <<w>> \o t
  <1>2. s \in Seq(W) /\ Len(s) = 1 + Len(t) /\ s[1] = w
    BY <1>1
  <1>3. ASSUME NEW k \in 1 .. Len(t) PROVE s[1 + k] = t[k]
    BY <1>1
  <1> HIDE DEF s
  <1>4. Tail(s) \in Seq(W) /\ Len(Tail(s)) = Len(t) /\ \A k \in 1 .. Len(t) : Tail(s)[k] = s[1 + k]
    BY <1>2
  <1>5. Tail(s) = t
    BY <1>3, <1>4
  <1> QED
    BY <1>2, <1>3, <1>5 DEF s

LEMMA WordsAssociate ==
    ASSUME NEW s \in Seq(Word), NEW t \in Seq(Word), NEW u \in Seq(Word)
    PROVE  s \o (t \o u) = (s \o t) \o u
  <1> QED
    BY ConcatAssociative

\* Each item of a packed array is found at its offset, counted from behind the size.
LEMMA ItemsAreFound ==
    ASSUME NEW op, NEW items \in Seq(Text)
    PROVE  /\ PackedItems(op, items) \in Seq(Word)
           /\ PackedItems(op, items)[1] = Num(Len(items))
           /\ 1 + Len(items) <= Len(PackedItems(op, items))
           /\ \A k \in 1 .. Len(items) :
                  /\ PackedItems(op, items)[1 + k] = Num(ItemOffset(op, items, k))
                  /\ FoundIn(Tail(PackedItems(op, items)), ItemOffset(op, items, k), Sized(op, Completed(items[k])))
  <1> DEFINE n == Len(items)
             sized == [k \in 1 .. n |-> Sized(op, Completed(items[k]))]
             offsets == [k \in 1 .. n |-> Num(ItemOffset(op, items, k))]
             H(i) == {s \in Seq(Word) : /\ i + 1 <= n => 32 * (n + Len(s)) = ItemOffset(op, items, i + 1)
                                        /\ \A k \in 1 .. i : FoundIn(offsets \o s, ItemOffset(op, items, k), sized[k])}
             G == [i \in 1 .. n |-> H(i)]
  <1>1. n \in Nat
    OBVIOUS
  <1>2. ASSUME NEW k \in 1 .. n
        PROVE  sized[k] \in Seq(Word) /\ ItemOffset(op, items, k) \in Nat /\ Num(ItemOffset(op, items, k)) \in Word
    <2>1. items[k] \in Text
      OBVIOUS
    <2>2. sized[k] \in Seq(Word)
      BY <2>1, CompletedText, SizedWords
    <2>3. ItemOffset(op, items, k) \in Nat
      BY ItemOffsetsAdvance
    <2> QED
      BY <2>2, <2>3 DEF Word
  <1>3. sized \in Seq(Seq(Word)) /\ Len(sized) = n
    BY <1>1, <1>2
  <1>4. offsets \in Seq(Word) /\ Len(offsets) = n /\ \A k \in 1 .. n : offsets[k] = Num(ItemOffset(op, items, k))
    BY <1>1, <1>2
  <1>5. \A k \in 1 .. n : k + 1 <= n => ItemOffset(op, items, k + 1) = ItemOffset(op, items, k) + 32 * Len(sized[k])
    BY ItemOffsetsAdvance
  <1>6. n # 0 => ItemOffset(op, items, 1) = 32 * n
    BY ItemOffsetsAdvance
  <1> DEFINE flat == FlattenSeq(sized)
  <1>7. flat \in Seq(Word)
    <2> HIDE DEF sized
    <2> QED
      BY <1>3, FlattenIsSeq
  <1> HIDE DEF sized, offsets
  <1>8. ASSUME NEW k \in 1 .. n PROVE FoundIn(offsets \o flat, ItemOffset(op, items, k), sized[k])
    <2>0. ASSUME NEW i \in 1 .. n PROVE G[i] = H(i)
      OBVIOUS
    <2> HIDE DEF G
    <2>1. sized[1] \in G[1]
      <3>1. 1 \in 1 .. n
        BY <1>1
      <3>2. 1 + 1 <= n => 32 * (n + Len(sized[1])) = ItemOffset(op, items, 1 + 1)
        BY <1>1, <1>2, <1>5, <1>6, <3>1
      <3>3. FoundIn(offsets \o sized[1], ItemOffset(op, items, 1), sized[1])
        <4>1. sized[1] \in Seq(Word)
          BY <1>2, <3>1
        <4>2. FoundIn(offsets \o sized[1], 32 * Len(offsets), sized[1])
          BY <1>4, <4>1, FoundAtEnd
        <4>3. 32 * Len(offsets) = ItemOffset(op, items, 1)
          BY <1>1, <1>4, <1>6, <3>1
        <4> QED
          BY <4>2, <4>3
      <3>4. \A l \in 1 .. 1 : FoundIn(offsets \o sized[1], ItemOffset(op, items, l), sized[l])
        BY <3>3
      <3>5. sized[1] \in Seq(Word)
        BY <1>2, <3>1
      <3>6. sized[1] \in H(1)
        BY <3>2, <3>4, <3>5
      <3> QED
        BY <2>0, <3>1, <3>6
    <2>2. ASSUME NEW i \in 1 .. n, i + 1 <= n, NEW g \in G[i] PROVE g \o sized[i + 1] \in G[i + 1]
      <3>1. /\ g \in Seq(Word) /\ 32 * (n + Len(g)) = ItemOffset(op, items, i + 1)
            /\ \A l \in 1 .. i : FoundIn(offsets \o g, ItemOffset(op, items, l), sized[l])
        <4>1. g \in H(i)
          BY <2>0, <2>2
        <4> QED
          BY <4>1, <2>2
      <3>2. i + 1 \in 1 .. n /\ sized[i + 1] \in Seq(Word)
        BY <2>2, <1>1, <1>2
      <3> DEFINE h == g \o sized[i + 1]
      <3>3. h \in Seq(Word) /\ Len(h) = Len(g) + Len(sized[i + 1])
        BY <3>1, <3>2
      <3>4. offsets \o g \in Seq(Word) /\ Len(offsets \o g) = n + Len(g) /\ offsets \o h = (offsets \o g) \o sized[i + 1]
        <4>1. offsets \o g \in Seq(Word) /\ Len(offsets \o g) = n + Len(g)
          BY <1>4, <3>1
        <4>2. offsets \o (g \o sized[i + 1]) = (offsets \o g) \o sized[i + 1]
          <5>1. offsets \in Seq(Word) /\ g \in Seq(Word) /\ sized[i + 1] \in Seq(Word)
            BY <1>4, <3>1, <3>2
          <5> QED
            BY <5>1, WordsAssociate
        <4> QED
          BY <4>1, <4>2
      <3>5. (i + 1) + 1 <= n => 32 * (n + Len(h)) = ItemOffset(op, items, (i + 1) + 1)
        <4>1. Len(sized[i + 1]) \in Nat /\ Len(g) \in Nat
          BY <3>1, <3>2
        <4>2. (i + 1) + 1 <= n =>
                  ItemOffset(op, items, (i + 1) + 1) = ItemOffset(op, items, i + 1) + 32 * Len(sized[i + 1])
          BY <1>5, <3>2
        <4>3. i + 1 <= n
          BY <2>2
        <4> QED
          BY <1>1, <3>1, <3>3, <4>1, <4>2, <4>3
      <3>6. ASSUME NEW l \in 1 .. i + 1 PROVE FoundIn(offsets \o h, ItemOffset(op, items, l), sized[l])
        <4>1. CASE l = i + 1
          <5>1. FoundIn((offsets \o g) \o sized[i + 1], 32 * Len(offsets \o g), sized[i + 1])
            BY <3>2, <3>4, FoundAtEnd
          <5> QED
            BY <4>1, <5>1, <3>1, <3>4
        <4>2. CASE l # i + 1
          <5>1. l \in 1 .. i /\ sized[l] \in Seq(Word)
            BY <4>2, <2>2, <1>1, <1>2
          <5>2. FoundIn(offsets \o g, ItemOffset(op, items, l), sized[l])
            BY <5>1, <3>1
          <5>3. FoundIn((offsets \o g) \o sized[i + 1], ItemOffset(op, items, l), sized[l])
            BY <5>1, <5>2, <3>2, <3>4, StaysFound
          <5> QED
            BY <5>3, <3>4
        <4> QED
          BY <4>1, <4>2
      <3> HIDE DEF h
      <3>7. h \in H(i + 1)
        BY <3>3, <3>5, <3>6
      <3>8. h \in G[i + 1]
        BY <2>0, <3>2, <3>7
      <3> QED
        BY <3>8 DEF h
    <2>3. n \in 1 .. n /\ n # 0
      BY <1>1
    <2>4. flat \in G[n]
      BY <1>1, <1>3, <2>1, <2>2, <2>3, FlattenInvariant
    <2>5. flat \in H(n)
      BY <2>0, <2>3, <2>4
    <2> QED
      BY <2>5
  <1> DEFINE packed == PackedItems(op, items)
             size == <<Num(n)>>
  <1>9. packed = size \o offsets \o flat
    <2>1. DOMAIN items = 1 .. n
      OBVIOUS
    <2> QED
      BY <2>1, Zenon DEF PackedItems, offsets, sized
  <1>10. size \in Seq(Word) /\ Len(size) = 1 /\ size[1] = Num(n)
    BY <1>1 DEF Word
  <1> HIDE DEF flat
  <1> DEFINE rest == offsets \o flat
  <1>11. rest \in Seq(Word) /\ Len(rest) >= n /\ \A k \in 1 .. n : rest[k] = offsets[k]
    BY <1>1, <1>4, <1>7
  <1>12. packed = size \o rest
    BY <1>4, <1>7, <1>9, <1>10, ConcatAssociative
  <1> HIDE DEF rest
  <1>13. /\ packed \in Seq(Word) /\ Len(packed) = 1 + Len(rest) /\ packed[1] = Num(n) /\ Tail(packed) = rest
         /\ \A k \in 1 .. Len(rest) : packed[1 + k] = rest[k]
    <2>1. Num(n) \in Word
      BY <1>1 DEF Word
    <2> QED
      BY <1>11, <1>12, <2>1, WordBefore
  <1> HIDE DEF packed
  <1>14. 1 + n <= Len(packed) /\ \A k \in 1 .. n : packed[1 + k] = Num(ItemOffset(op, items, k))
    <2>1. 1 + n <= Len(packed)
      BY <1>1, <1>11, <1>13
    <2>2. ASSUME NEW k \in 1 .. n PROVE packed[1 + k] = Num(ItemOffset(op, items, k))
      <3>1. k \in 1 .. Len(rest)
        BY <1>1, <1>11
      <3>2. packed[1 + k] = rest[k] /\ rest[k] = offsets[k]
        BY <1>11, <1>13, <3>1
      <3> QED
        BY <1>4, <3>2
    <2> QED
      BY <2>1, <2>2
  <1> QED
    BY <1>8, <1>13, <1>14 DEF packed, sized, rest

-----------------------------------------------------------------------------
(* An argument that passes the checks is made of texts. *)
LEMMA ItemsType ==
    ASSUME NEW v \in Value
    PROVE  /\ ItemsOf(v) \in Seq(Text \union {Number})
           /\ v.json # "array" /\ v # Number => v \in Text /\ ItemsOf(v) = <<v>>
  <1>1. CASE v.json = "array"
    <2>1. v.items \in Seq(Text \union {Number})
      BY <1>1 DEF Value, Text, Number
    <2> QED
      BY <1>1, <2>1 DEF ItemsOf
  <1>2. CASE v.json # "array"
    <2>1. v \in Text \union {Number}
      BY <1>2 DEF Value
    <2> QED
      BY <1>2, <2>1 DEF ItemsOf
  <1> QED
    BY <1>1, <1>2

LEMMA NoTrouble ==
    ASSUME NEW op, NEW t, NEW items \in Seq(Text \union {Number}), FirstTrouble(op, t, items) = 0
    PROVE  items \in Seq(Text)
  <1> DEFINE wrong == {k \in DOMAIN items : Trouble(op, t, items[k]) # 0}
             first == CHOOSE k \in wrong : \A l \in wrong : k <= l
  <1>1. wrong = {}
    <2> SUFFICES ASSUME wrong # {} PROVE FALSE
      OBVIOUS
    <2>1. wrong \in SUBSET Nat
      OBVIOUS
    <2>2. \E k \in wrong : \A l \in wrong : k <= l
      <3> HIDE DEF wrong
      <3> QED
        BY <2>1, LeastNumber
    <2>3. first \in wrong
      BY <2>2
    <2>4. FirstTrouble(op, t, items) = Trouble(op, t, items[first])
      BY DEF FirstTrouble
    <2> HIDE DEF first
    <2> QED
      BY <2>3, <2>4
  <1>2. ASSUME NEW k \in DOMAIN items PROVE items[k] \in Text
    <2>1. Trouble(op, t, items[k]) = 0
      BY <1>1
    <2>2. items[k] # Number
      BY <2>1 DEF Trouble, Throws
    <2> QED
      BY <2>2
  <1> QED
    BY <1>2

\* What an encoder may pack.
Sound(a) ==
    /\ a.type \in Types \union {Uninitialised}
    /\ ItemsOf(a.value) \in Seq(Text)
    /\ ~ a.type.arr => a.value \in Text /\ ItemsOf(a.value) = <<a.value>>

LEMMA MultiCheckIsSound ==
    ASSUME NEW a \in Argument, MultiCheck(a) = 0
    PROVE  Sound(a) /\ a.type \in Types
  <1>1. a.value \in Value /\ a.type \in Types \union {Uninitialised, Missing}
    BY DEF Argument
  <1>2. a.type \in Types
    <2>1. a.type # Missing
      BY DEF MultiCheck
    <2> QED
      BY <2>1 DEF MultiCheck
  <1>3. /\ a.type.arr \/ a.value.json # "array"
        /\ FirstTrouble("packMulti", a.type, ItemsOf(a.value)) = 0
    <2>1. a.type # Missing /\ a.type \in Types
      BY <1>2, AbiAssumption
    <2> QED
      BY <2>1 DEF MultiCheck, Throws
  <1>4. ItemsOf(a.value) \in Seq(Text)
    BY <1>1, <1>3, ItemsType, NoTrouble
  <1>5. ~ a.type.arr => a.value \in Text /\ ItemsOf(a.value) = <<a.value>>
    <2> SUFFICES ASSUME ~ a.type.arr PROVE a.value \in Text /\ ItemsOf(a.value) = <<a.value>>
      OBVIOUS
    <2>1. a.value.json # "array"
      BY <1>3
    <2>2. a.value \in Text \union {Number}
      BY <1>1, <2>1 DEF Value
    <2>3. ItemsOf(a.value) = <<a.value>>
      BY <2>1 DEF ItemsOf
    <2>4. <<a.value>>[1] \in Text
      BY <1>4, <2>3
    <2> QED
      BY <2>3, <2>4
  <1> QED
    BY <1>2, <1>4, <1>5 DEF Sound

LEMMA OlderCheckIsSound ==
    ASSUME NEW a \in Argument, a.type \in Types \union {Uninitialised}, 0 \in OlderCheck(a)
    PROVE  Sound(a)
  <1>1. a.value \in Value
    BY DEF Argument
  <1> DEFINE items == ItemsOf(a.value)
  <1>2. items \in Seq(Text \union {Number})
    BY <1>1, ItemsType
  <1>3. CASE ~ a.type.arr
    <2>1. a.value.json = "text"
      BY <1>3 DEF OlderCheck, Throws
    <2>2. a.value \in Text
      BY <1>1, <2>1 DEF Value, Number
    <2>3. items = <<a.value>>
      BY <2>1 DEF ItemsOf
    <2> QED
      BY <1>3, <2>2, <2>3 DEF Sound
  <1>4. CASE a.type.arr
    <2>1. items \in Seq(Text)
      <3>1. CASE items = <<>>
        BY <3>1
      <3>2. CASE items # <<>>
        <4>1. a.type.base \notin {"uint256", "bool"}
          BY <1>4, <3>2 DEF OlderCheck, Throws
        <4>2. FirstTrouble("older", a.type, items) = 0
          BY <1>4, <3>2, <4>1 DEF OlderCheck, Throws
        <4> QED
          BY <1>2, <4>2, NoTrouble
      <3> QED
        BY <3>1, <3>2
    <2> QED
      BY <1>4, <2>1 DEF Sound
  <1> QED
    BY <1>3, <1>4

LEMMA ChecksAreSound ==
    ASSUME NEW c, NEW a \in Argument, 0 \in Checks(c, a),
           c.op = "older" => a.type \in Types \union {Uninitialised}
    PROVE  Sound(a)
  BY MultiCheckIsSound, OlderCheckIsSound DEF Checks

-----------------------------------------------------------------------------
(* What an argument appends, and what a decoder finds of it. *)
LEMMA ValuesWords ==
    ASSUME NEW items \in Seq(Text)
    PROVE  /\ PackedValues(items) \in Seq(Word) /\ Len(PackedValues(items)) = 1 + Len(items)
           /\ PackedValues(items)[1] = Num(Len(items))
           /\ \A k \in 1 .. Len(items) : PackedValues(items)[1 + k] = Val(items[k])
  <1> DEFINE vals == [k \in 1 .. Len(items) |-> Val(items[k])]
  <1>1. vals \in Seq(Word) /\ Len(vals) = Len(items) /\ \A k \in 1 .. Len(items) : vals[k] = Val(items[k])
    <2>1. ASSUME NEW k \in 1 .. Len(items) PROVE Val(items[k]) \in Word
      <3>1. items[k] \in Value
        BY DEF Value
      <3> QED
        BY <3>1 DEF Word
    <2>2. Len(items) \in Nat
      OBVIOUS
    <2> QED
      BY <2>1, <2>2
  <1>2. Num(Len(items)) \in Word
    <2>1. Len(items) \in Nat
      OBVIOUS
    <2> QED
      BY <2>1 DEF Word
  <1>3. PackedValues(items) = <<Num(Len(items))>> \o vals
    <2>1. DOMAIN items = 1 .. Len(items)
      OBVIOUS
    <2> QED
      BY <2>1, Zenon DEF PackedValues
  <1> HIDE DEF vals
  <1> QED
    BY <1>1, <1>2, <1>3, WordBefore

LEMMA BodyWords ==
    ASSUME NEW op, NEW a \in Argument, Sound(a)
    PROVE  /\ Body(op, a) \in Seq(Word)
           /\ Advance(op, a) \in Nat
           /\ a.type.arr /\ ~ Contents(a.type) /\ op # "older" =>
                  Advance(op, a) = 64 * a.members /\ Len(Body(op, a)) = 1 + Len(ItemsOf(a.value))
           /\ ~ (a.type.arr /\ ~ Contents(a.type) /\ op # "older") => Advance(op, a) = 32 * Len(Body(op, a))
  <1> DEFINE items == ItemsOf(a.value)
             array == a.type.arr /\ ~ Contents(a.type)
  <1>1. items \in Seq(Text) /\ a.members \in Nat
    BY DEF Sound, Argument
  <1>2. Body(op, a) \in Seq(Word) /\ (array => Len(Body(op, a)) = 1 + Len(items))
    <2>1. CASE ~ Dynamic(a.type)
      BY <2>1 DEF Body, Dynamic
    <2>2. CASE Dynamic(a.type) /\ ~ a.type.arr
      <3>1. a.value \in Text /\ Completed(a.value) \in Text
        BY <2>2, CompletedText DEF Sound
      <3> QED
        BY <2>2, <3>1, SizedWords DEF Body
    <2>3. CASE array
      BY <1>1, <2>3, ValuesWords DEF Body, Dynamic
    <2>4. CASE a.type.arr /\ Contents(a.type)
      <3>1. PackedItems(op, items) \in Seq(Word)
        BY <1>1, ItemsAreFound
      <3> QED
        BY <2>4, <3>1 DEF Body, Dynamic
    <2> QED
      BY <2>1, <2>2, <2>3, <2>4
  <1>3. Len(Body(op, a)) \in Nat /\ Len(items) \in Nat
    BY <1>1, <1>2
  <1>4. CASE array /\ op # "older"
    <2>1. Advance(op, a) = 64 * a.members
      BY <1>4 DEF Advance
    <2> QED
      BY <1>1, <1>2, <1>4, <2>1
  <1>5. CASE array /\ op = "older"
    <2>1. Advance(op, a) = 32 + 32 * Len(items)
      BY <1>5 DEF Advance
    <2> QED
      BY <1>2, <1>3, <1>5, <2>1
  <1>6. CASE ~ array
    <2>1. Advance(op, a) = 32 * Len(Body(op, a))
      BY <1>6 DEF Advance
    <2> QED
      BY <1>2, <1>3, <1>6, <2>1
  <1> QED
    BY <1>4, <1>5, <1>6

LEMMA ContentFound ==
    ASSUME NEW op, NEW x \in Text, NEW ws \in Seq(Word), NEW q \in Nat,
           q + Len(Sized(op, x)) <= Len(ws),
           \A m \in 1 .. Len(Sized(op, x)) : ws[q + m] = Sized(op, x)[m]
    PROVE  ContentAt(ws, q + 1, x)
  <1> DEFINE s == Sized(op, x)
             r == Room(op, x.digits)
             l == WordsFor(x.digits)
  <1>1. /\ s \in Seq(Word) /\ r \in Nat /\ l <= r /\ Len(s) = 1 + r /\ s[1] = Num(x.digits \div 2)
        /\ \A k \in 1 .. r : s[1 + k] = Part(x, k)
    BY SizedWords
  <1>2. l \in Nat
    <2>1. x.digits \in Nat
      BY DEF Text
    <2> QED
      BY <2>1 DEF WordsFor
  <1>3. \A m \in 1 .. Len(s) : ws[q + m] = s[m] /\ q + m \in DOMAIN ws
    BY <1>1
  <1> HIDE DEF s, r, l
  <1>4. WordAt(ws, q + 1) = Num(x.digits \div 2)
    BY <1>1, <1>3 DEF WordAt
  <1>5. ASSUME NEW k \in 1 .. l PROVE WordAt(ws, (q + 1) + k) = Part(x, k)
    <2>1. k \in 1 .. r /\ 1 + k \in 1 .. Len(s) /\ (q + 1) + k = q + (1 + k)
      BY <1>1, <1>2
    <2>2. ws[q + (1 + k)] = s[1 + k] /\ q + (1 + k) \in DOMAIN ws
      BY <1>3, <2>1
    <2>3. s[1 + k] = Part(x, k)
      BY <1>1, <2>1
    <2> QED
      BY <2>1, <2>2, <2>3 DEF WordAt
  <1> QED
    BY <1>4, <1>5 DEF ContentAt, l

\* A decoder at the k-th head finds the argument, if its offset or its value is there.
LEMMA ArgumentFound ==
    ASSUME NEW op, NEW a \in Argument, Sound(a), a.type \in Types, NEW ws \in Seq(Word), NEW k \in 1 .. Len(ws),
           Dynamic(a.type) => \E p \in Nat : ws[k] = Num(32 * p) /\ FoundIn(ws, 32 * p, Body(op, a)),
           ~ Dynamic(a.type) => ws[k] = Val(a.value),
           a.type.arr => ~ (op = "older" /\ Contents(a.type) /\ ItemsOf(a.value) = <<>>),
           Contents(a.type) /\ ~ a.type.arr => op = "older" \/ a.value.digits % 2 = 0
    PROVE  ArgumentAt(ws, k, a)
  <1> DEFINE items == ItemsOf(a.value)
             body == Body(op, a)
  <1>1. items \in Seq(Text) /\ body \in Seq(Word)
    BY BodyWords DEF Sound
  <1>2. CASE ~ Dynamic(a.type)
    BY <1>2 DEF ArgumentAt, Dynamic
  <1>3. CASE Dynamic(a.type)
    <2>1. PICK p \in Nat : ws[k] = Num(32 * p) /\ FoundIn(ws, 32 * p, body)
      BY <1>3
    <2>2. p + Len(body) <= Len(ws) /\ \A m \in 1 .. Len(body) : ws[p + m] = body[m]
      <3>1. PICK q \in Nat : /\ 32 * p = 32 * q /\ q + Len(body) <= Len(ws)
                             /\ \A m \in 1 .. Len(body) : ws[q + m] = body[m]
        BY <2>1 DEF FoundIn
      <3>2. q = p
        BY <3>1
      <3> QED
        BY <3>1, <3>2
    <2>3. Len(body) \in Nat /\ Len(ws) \in Nat /\ p \in 0 .. Len(ws)
      BY <1>1, <2>2
    <2>4. CASE ~ a.type.arr
      <3> DEFINE x == Completed(a.value)
      <3>1. x \in Text /\ Contents(a.type) /\ body = Sized(op, x)
        <4>1. a.value \in Text /\ Contents(a.type)
          BY <1>3, <2>4 DEF Sound, Dynamic
        <4>2. op # "older" => x = a.value
          BY <2>4, <4>1, CompletedText
        <4>3. x \in Text
          BY <4>1, CompletedText
        <4> QED
          BY <1>3, <2>4, <4>1, <4>2, <4>3 DEF Body
      <3>2. ContentAt(ws, p + 1, x)
        BY <2>2, <3>1, ContentFound
      <3>3. p + 1 = 1 + p
        BY <2>1
      <3>4. PointsAtContent(ws, 1, k, x)
        BY <2>1, <2>3, <3>2, <3>3 DEF PointsAtContent
      <3> QED
        BY <2>4, <3>1, <3>4 DEF ArgumentAt
    <2>5. CASE a.type.arr
      <3> DEFINE N == 1 + p
      <3>1. CASE ~ Contents(a.type)
        <4>1. body = PackedValues(items)
          BY <1>3, <2>5, <3>1 DEF Body
        <4>2. /\ Len(body) = 1 + Len(items) /\ body[1] = Num(Len(items))
              /\ \A i \in 1 .. Len(items) : body[1 + i] = Val(items[i])
          BY <1>1, <4>1, ValuesWords
        <4>3. N + Len(items) <= Len(ws) /\ N \in DOMAIN ws /\ ws[N] = Num(Len(items))
          BY <1>1, <2>2, <2>3, <4>2
        <4>4. ASSUME NEW i \in DOMAIN items PROVE ws[N + i] = Val(items[i])
          <5>1. i \in 1 .. Len(items) /\ Len(items) \in Nat
            BY <1>1
          <5>2. 1 + i \in 1 .. Len(body) /\ N + i = p + (1 + i)
            <6>1. Len(body) = 1 + Len(items)
              BY <4>2
            <6> DEFINE l == Len(items)
                       v == Len(body)
            <6> HIDE DEF l, v
            <6>2. i \in 1 .. l /\ l \in Nat /\ v = 1 + l
              BY <5>1, <6>1 DEF l, v
            <6>3. 1 + i \in 1 .. v /\ (1 + p) + i = p + (1 + i)
              BY <6>2
            <6> QED
              BY <6>3 DEF v
          <5> QED
            BY <2>2, <4>2, <5>1, <5>2
        <4> HIDE DEF N
        <4>5. ArrayAt(ws, N, a.type, items)
          BY <3>1, <4>3, <4>4 DEF ArrayAt, WordAt
        <4> QED
          BY <2>1, <2>3, <2>5, <4>5 DEF ArgumentAt, N
      <3>2. CASE Contents(a.type)
        <4>1. body = PackedItems(op, items)
          BY <1>3, <2>5, <3>2 DEF Body
        <4>2. /\ body[1] = Num(Len(items)) /\ 1 + Len(items) <= Len(body)
              /\ \A i \in 1 .. Len(items) :
                     /\ body[1 + i] = Num(ItemOffset(op, items, i))
                     /\ FoundIn(Tail(body), ItemOffset(op, items, i), Sized(op, Completed(items[i])))
          BY <1>1, <4>1, ItemsAreFound
        <4>3. N + Len(items) <= Len(ws) /\ N \in DOMAIN ws /\ ws[N] = Num(Len(items))
          BY <1>1, <2>2, <2>3, <4>2
        <4>4. ASSUME NEW i \in DOMAIN items PROVE PointsAtContent(ws, N + 1, N + i, Completed(items[i]))
          <5> DEFINE x == Completed(items[i])
          <5>1. i \in 1 .. Len(items) /\ 1 + i \in 1 .. Len(body) /\ N + i = p + (1 + i) /\ items[i] \in Text
            <6>1. i \in 1 .. Len(items) /\ items[i] \in Text /\ Len(items) \in Nat
              BY <1>1
            <6>2. 1 + Len(items) <= Len(body)
              BY <4>2
            <6>3. 1 + i \in 1 .. Len(body)
              BY <2>3, <6>1, <6>2
            <6>4. N + i = p + (1 + i)
              BY <2>1, <6>1
            <6> QED
              BY <6>1, <6>3, <6>4
          <5>2. ws[N + i] = Num(ItemOffset(op, items, i))
            BY <2>2, <4>2, <5>1
          <5>3. x \in Text /\ Sized(op, x) \in Seq(Word)
            BY <5>1, CompletedText, SizedWords
          <5>4. PICK q \in Nat : /\ ItemOffset(op, items, i) = 32 * q /\ q + Len(Sized(op, x)) <= Len(Tail(body))
                                 /\ \A m \in 1 .. Len(Sized(op, x)) : Tail(body)[q + m] = Sized(op, x)[m]
            BY <4>2, <5>1 DEF FoundIn
          <5>5. Len(Tail(body)) = Len(body) - 1 /\ \A m \in 1 .. Len(Tail(body)) : Tail(body)[m] = body[1 + m]
            BY <1>1, <2>3, <5>1
          <5> HIDE DEF x
          <5>6. N + q + Len(Sized(op, x)) <= Len(ws) /\ N + q \in Nat
            <6> DEFINE l == Len(Sized(op, x))
                       b == Len(Tail(body))
                       w == Len(ws)
                       v == Len(body)
            <6>1. l \in Nat /\ q + l <= b /\ b = v - 1 /\ v \in Nat /\ w \in Nat /\ p + v <= w
              BY <2>2, <2>3, <5>3, <5>4, <5>5
            <6> HIDE DEF l, b, w, v
            <6>2. N + q + l <= w /\ N + q \in Nat
              BY <6>1
            <6> QED
              BY <6>2 DEF l, w
          <5>7. ASSUME NEW m \in 1 .. Len(Sized(op, x)) PROVE ws[(N + q) + m] = Sized(op, x)[m]
            <6>1. q + m \in 1 .. Len(Tail(body)) /\ 1 + (q + m) \in 1 .. Len(body) /\ p + (1 + (q + m)) = (N + q) + m
              BY <2>1, <2>3, <5>3, <5>4, <5>5
            <6>2. ws[p + (1 + (q + m))] = body[1 + (q + m)]
              BY <2>2, <6>1
            <6>3. body[1 + (q + m)] = Sized(op, x)[m]
              BY <5>4, <5>5, <6>1
            <6> QED
              BY <6>1, <6>2, <6>3
          <5>8. ContentAt(ws, (N + q) + 1, x)
            BY <5>3, <5>6, <5>7, ContentFound
          <5>9. (N + q) + 1 = (N + 1) + q /\ q \in 0 .. Len(ws)
            BY <2>1, <2>3, <5>3, <5>4, <5>6
          <5>10. ws[N + i] = Num(32 * q)
            BY <5>2, <5>4
          <5> QED
            BY <5>8, <5>9, <5>10 DEF PointsAtContent, x
        <4> HIDE DEF N
        <4>5. ArrayAt(ws, N, a.type, items)
          BY <3>2, <4>3, <4>4 DEF ArrayAt, WordAt
        <4> QED
          BY <2>1, <2>3, <2>5, <4>5 DEF ArgumentAt, N
      <3> QED
        BY <3>1, <3>2
    <2> QED
      BY <2>4, <2>5
  <1> QED
    BY <1>2, <1>3

-----------------------------------------------------------------------------
(* The invariant of a call that is being packed. *)
IsCall(c) ==
    c = [op |-> c.op, fn |-> c.fn, selector |-> c.selector, args |-> c.args, heads |-> c.heads, tails |-> c.tails,
         next |-> c.next, error |-> c.error, fresh |-> c.fresh, starts |-> c.starts]

CallType(c) ==
    /\ IsCall(c) /\ c.op \in {"packMulti", "older", "sha3"}
    /\ c.args \in Seq(Argument)
    /\ c.op = "older" => \A k \in 1 .. Len(c.args) : c.args[k].type \in Types \union {Uninitialised}
    /\ c.heads \in Seq(Word) /\ c.tails \in Seq(Word) /\ c.next \in Nat
    /\ c.starts \in Seq(Nat) /\ Len(c.starts) <= Len(c.args)
    /\ c.fresh => c.error = Unset

\* The first n arguments got the room they take.
Clear(c, n) == \A k \in 1 .. n : ~ Misplaced(c, c.args[k])
\* The offset counts the bytes of the heads to be and of the tails that are.
OffsetCounts(c) == Clear(c, Len(c.starts)) => c.next = 32 * (Len(c.args) + Len(c.tails))
TailIs(c, j) == Sound(c.args[j]) /\ FoundIn(c.tails, 32 * c.starts[j], Body(c.op, c.args[j]))
HeadIs(c, j) ==
    /\ ~ Dynamic(c.args[j].type) => c.heads[j] = Val(c.args[j].value)
    /\ Dynamic(c.args[j].type) /\ Clear(c, j - 1) => c.heads[j] = Num(32 * (Len(c.args) + c.starts[j]))

CallInv(c) ==
    /\ CallType(c) /\ OffsetCounts(c)
    /\ \A j \in 1 .. Len(c.starts) : TailIs(c, j)
    /\ Whole(c) => Len(c.heads) = Len(c.starts) /\ \A j \in 1 .. Len(c.starts) : HeadIs(c, j)

LEMMA PackedFields ==
    ASSUME NEW c, IsCall(c)
    PROVE  /\ IsCall(Packed(c))
           /\ Packed(c).op = c.op /\ Packed(c).fn = c.fn /\ Packed(c).selector = c.selector
           /\ Packed(c).args = c.args /\ Packed(c).error = c.error /\ Packed(c).fresh = c.fresh
           /\ Packed(c).heads = c.heads \o HeadOf(At(c), c.next)
           /\ Packed(c).tails = c.tails \o Body(c.op, At(c))
           /\ Packed(c).next = c.next + Advance(c.op, At(c))
           /\ Packed(c).starts = Append(c.starts, Len(c.tails))
  <1> DEFINE a == At(c)
             h == c.heads \o HeadOf(a, c.next)
             t == c.tails \o Body(c.op, a)
             n == c.next + Advance(c.op, a)
             s == Append(c.starts, Len(c.tails))
  <1>1. Packed(c) = [c EXCEPT !.heads = h, !.tails = t, !.next = n, !.starts = s]
    <2>1. c = [op |-> c.op, fn |-> c.fn, selector |-> c.selector, args |-> c.args, heads |-> c.heads, tails |-> c.tails,
               next |-> c.next, error |-> c.error, fresh |-> c.fresh, starts |-> c.starts]
      BY DEF IsCall
    <2> QED
      BY <2>1 DEF Packed
  <1> HIDE DEF h, t, n, s
  <1>2. Packed(c) = [op |-> c.op, fn |-> c.fn, selector |-> c.selector, args |-> c.args, heads |-> h, tails |-> t,
                     next |-> n, error |-> c.error, fresh |-> c.fresh, starts |-> s]
    BY <1>1 DEF IsCall
  <1>3. /\ Packed(c).op = c.op /\ Packed(c).fn = c.fn /\ Packed(c).selector = c.selector
        /\ Packed(c).args = c.args /\ Packed(c).error = c.error /\ Packed(c).fresh = c.fresh
        /\ Packed(c).heads = h /\ Packed(c).tails = t /\ Packed(c).next = n /\ Packed(c).starts = s
    BY <1>2
  <1>4. IsCall(Packed(c))
    BY <1>2 DEF IsCall
  <1> QED
    BY <1>3, <1>4 DEF h, t, n, s

\* What packing the argument behind the last packed one appends.
LEMMA PackedParts ==
    ASSUME NEW c, CallInv(c), Len(c.starts) < Len(c.args), Sound(At(c))
    PROVE  /\ At(c) = c.args[Len(c.starts) + 1] /\ At(c) \in Argument
           /\ Body(c.op, At(c)) \in Seq(Word) /\ Advance(c.op, At(c)) \in Nat
           /\ ~ Misplaced(c, At(c)) => Advance(c.op, At(c)) = 32 * Len(Body(c.op, At(c)))
           /\ HeadOf(At(c), c.next) \in Seq(Word)
           /\ At(c).type # Uninitialised => Len(HeadOf(At(c), c.next)) = 1
           /\ At(c).type # Uninitialised /\ Dynamic(At(c).type) => HeadOf(At(c), c.next)[1] = Num(c.next)
           /\ At(c).type # Uninitialised /\ ~ Dynamic(At(c).type) => HeadOf(At(c), c.next)[1] = Val(At(c).value)
  <1> DEFINE a == At(c)
             b == Body(c.op, a)
             n == Len(c.starts)
  <1>1. n + 1 \in 1 .. Len(c.args) /\ c.args \in Seq(Argument) /\ c.next \in Nat
    BY DEF CallInv, CallType
  <1>2. a = c.args[n + 1] /\ a \in Argument
    BY <1>1 DEF At
  <1> HIDE DEF a
  <1>3. /\ b \in Seq(Word) /\ Advance(c.op, a) \in Nat
        /\ a.type.arr /\ ~ Contents(a.type) /\ c.op # "older" =>
               Advance(c.op, a) = 64 * a.members /\ Len(b) = 1 + Len(ItemsOf(a.value))
        /\ ~ (a.type.arr /\ ~ Contents(a.type) /\ c.op # "older") => Advance(c.op, a) = 32 * Len(b)
    BY <1>2, BodyWords DEF a
  <1>4. ASSUME ~ Misplaced(c, a) PROVE Advance(c.op, a) = 32 * Len(b)
    <2>1. CASE a.type.arr /\ ~ Contents(a.type) /\ c.op # "older"
      <3>1. 2 * a.members = Len(ItemsOf(a.value)) + 1
        BY <1>4, <2>1 DEF Misplaced
      <3>2. Advance(c.op, a) = 64 * a.members /\ Len(b) = 1 + Len(ItemsOf(a.value)) /\ a.members \in Nat
        BY <1>2, <1>3, <2>1 DEF Argument
      <3>3. ItemsOf(a.value) \in Seq(Text) /\ Len(ItemsOf(a.value)) \in Nat
        BY DEF Sound, a
      <3> HIDE DEF b
      <3> QED
        BY <3>1, <3>2, <3>3
    <2>2. CASE ~ (a.type.arr /\ ~ Contents(a.type) /\ c.op # "older")
      BY <1>3, <2>2
    <2> QED
      BY <2>1, <2>2
  <1>5. a.value \in Value
    BY <1>2 DEF Argument
  <1>6. Num(c.next) \in Word /\ Val(a.value) \in Word
    BY <1>1, <1>5 DEF Word
  <1> DEFINE u == Num(c.next)
             v == Val(a.value)
  <1> HIDE DEF u, v
  <1>7. HeadOf(a, c.next) = IF a.type = Uninitialised THEN <<>> ELSE IF Dynamic(a.type) THEN <<u>> ELSE <<v>>
    BY DEF HeadOf, u, v
  <1>8. u \in Word /\ v \in Word
    BY <1>6 DEF u, v
  <1>9. /\ HeadOf(a, c.next) \in Seq(Word)
        /\ a.type # Uninitialised => Len(HeadOf(a, c.next)) = 1
        /\ a.type # Uninitialised /\ Dynamic(a.type) => HeadOf(a, c.next)[1] = u
        /\ a.type # Uninitialised /\ ~ Dynamic(a.type) => HeadOf(a, c.next)[1] = v
    <2>1. CASE a.type = Uninitialised
      BY <1>7, <2>1
    <2>2. CASE a.type # Uninitialised /\ Dynamic(a.type)
      BY <1>7, <1>8, <2>2
    <2>3. CASE a.type # Uninitialised /\ ~ Dynamic(a.type)
      BY <1>7, <1>8, <2>3
    <2> QED
      BY <2>1, <2>2, <2>3
  <1> QED
    BY <1>2, <1>3, <1>4, <1>9 DEF a, u, v

LEMMA PackedKeepsType ==
    ASSUME NEW c, CallInv(c), Len(c.starts) < Len(c.args), Sound(At(c))
    PROVE  /\ CallType(Packed(c)) /\ Len(Packed(c).starts) = Len(c.starts) + 1
           /\ \A j \in 1 .. Len(c.starts) : Packed(c).starts[j] = c.starts[j]
           /\ Packed(c).starts[Len(c.starts) + 1] = Len(c.tails)
  <1> DEFINE d == Packed(c)
             a == At(c)
  <1>1. /\ IsCall(d) /\ d.op = c.op /\ d.args = c.args /\ d.error = c.error /\ d.fresh = c.fresh
        /\ d.heads = c.heads \o HeadOf(a, c.next) /\ d.tails = c.tails \o Body(c.op, a)
        /\ d.next = c.next + Advance(c.op, a) /\ d.starts = Append(c.starts, Len(c.tails))
    BY PackedFields DEF CallInv, CallType
  <1>2. Body(c.op, a) \in Seq(Word) /\ Advance(c.op, a) \in Nat /\ HeadOf(a, c.next) \in Seq(Word)
    BY PackedParts
  <1> HIDE DEF d, a
  <1>3. /\ c.heads \in Seq(Word) /\ c.tails \in Seq(Word) /\ c.next \in Nat /\ c.starts \in Seq(Nat)
        /\ c.args \in Seq(Argument)
    BY DEF CallInv, CallType
  <1>4. d.heads \in Seq(Word)
    BY <1>1, <1>2, <1>3
  <1>5. d.tails \in Seq(Word)
    BY <1>1, <1>2, <1>3
  <1>6. d.next \in Nat
    BY <1>1, <1>2, <1>3
  <1>7. /\ d.starts \in Seq(Nat) /\ Len(d.starts) = Len(c.starts) + 1 /\ d.starts[Len(c.starts) + 1] = Len(c.tails)
        /\ \A j \in 1 .. Len(c.starts) : d.starts[j] = c.starts[j]
    <2>1. Len(c.tails) \in Nat
      BY <1>3
    <2> DEFINE m == Len(c.tails)
               s == c.starts
    <2> HIDE DEF m, s
    <2>2. d.starts = Append(s, m) /\ s \in Seq(Nat) /\ m \in Nat
      BY <1>1, <1>3, <2>1 DEF m, s
    <2>3. /\ d.starts \in Seq(Nat) /\ Len(d.starts) = Len(s) + 1 /\ d.starts[Len(s) + 1] = m
          /\ \A j \in 1 .. Len(s) : d.starts[j] = s[j]
      BY <2>2
    <2> QED
      BY <2>3 DEF m, s
  <1>8. Len(d.starts) <= Len(d.args)
    BY <1>1, <1>3, <1>7
  <1>9. /\ d.op \in {"packMulti", "older", "sha3"} /\ (d.fresh => d.error = Unset)
        /\ d.op = "older" => \A k \in 1 .. Len(d.args) : d.args[k].type \in Types \union {Uninitialised}
    BY <1>1 DEF CallInv, CallType
  <1> QED
    BY <1>1, <1>3, <1>4, <1>5, <1>6, <1>7, <1>8, <1>9 DEF CallType, d

LEMMA OneBehind ==
    ASSUME NEW W, NEW s \in Seq(W), NEW t \in Seq(W), Len(t) = 1
    PROVE  /\ Len(s \o t) = Len(s) + 1 /\ (s \o t)[Len(s) + 1] = t[1]
           /\ \A j \in 1 .. Len(s) : (s \o t)[j] = s[j]
  <1> DEFINE n == Len(s)
             m == Len(t)
             u == s \o t
  <1>1. n \in Nat /\ m = 1
    BY LenProperties
  <1>2. Len(u) = n + m /\ \A i \in 1 .. n + m : u[i] = IF i <= n THEN s[i] ELSE t[i - n]
    BY ConcatProperties, Zenon
  <1> HIDE DEF n, m, u
  <1>3. n + 1 \in 1 .. n + m /\ (n + 1) - n = 1 /\ ~ (n + 1 <= n)
    BY <1>1
  <1>4. u[n + 1] = t[1]
    BY <1>2, <1>3
  <1>5. ASSUME NEW j \in 1 .. n PROVE u[j] = s[j]
    BY <1>1, <1>2
  <1>6. Len(u) = n + 1
    BY <1>1, <1>2
  <1> QED
    BY <1>4, <1>5, <1>6 DEF n, u

\* A step of an encoder keeps the invariant of its call.
LEMMA PackedKeepsInv ==
    ASSUME NEW c, CallInv(c), Len(c.starts) < Len(c.args), Sound(At(c))
    PROVE  CallInv(Packed(c))
  <1> DEFINE d == Packed(c)
             a == At(c)
             b == Body(c.op, a)
             h == HeadOf(a, c.next)
             n == Len(c.starts)
  <1>1. /\ d.op = c.op /\ d.args = c.args
        /\ d.heads = c.heads \o h /\ d.tails = c.tails \o b /\ d.next = c.next + Advance(c.op, a)
    BY PackedFields DEF CallInv, CallType
  <1>2. /\ CallType(d) /\ Len(d.starts) = n + 1 /\ d.starts[n + 1] = Len(c.tails)
        /\ \A j \in 1 .. n : d.starts[j] = c.starts[j]
    BY PackedKeepsType
  <1>3. /\ a = c.args[n + 1] /\ b \in Seq(Word) /\ Advance(c.op, a) \in Nat /\ h \in Seq(Word)
        /\ ~ Misplaced(c, a) => Advance(c.op, a) = 32 * Len(b)
        /\ a.type # Uninitialised => Len(h) = 1
        /\ a.type # Uninitialised /\ Dynamic(a.type) => h[1] = Num(c.next)
        /\ a.type # Uninitialised /\ ~ Dynamic(a.type) => h[1] = Val(a.value)
    BY PackedParts
  <1>4. Sound(a)
    OBVIOUS
  <1> HIDE DEF d, a, h, b
  <1>5. /\ c.heads \in Seq(Word) /\ c.tails \in Seq(Word) /\ c.next \in Nat /\ c.starts \in Seq(Nat)
        /\ c.args \in Seq(Argument) /\ n \in Nat /\ n + 1 \in 1 .. Len(c.args)
    BY DEF CallInv, CallType
  <1>6. \A m : Clear(d, m) <=> Clear(c, m)
    BY <1>1 DEF Clear, Misplaced
  <1>7. Clear(c, n + 1) => Clear(c, n) /\ ~ Misplaced(c, a)
    <2>1. n + 1 \in 1 .. n + 1 /\ 1 .. n \subseteq 1 .. n + 1
      BY <1>5
    <2> QED
      BY <1>3, <2>1, Zenon DEF Clear
  <1>8. Clear(c, n) => c.next = 32 * (Len(c.args) + Len(c.tails))
    BY DEF CallInv, OffsetCounts
  <1>9. OffsetCounts(d)
    <2> SUFFICES ASSUME Clear(d, Len(d.starts)) PROVE d.next = 32 * (Len(d.args) + Len(d.tails))
      BY DEF OffsetCounts
    <2>1. Clear(c, n + 1)
      BY <1>2, <1>6
    <2>2. c.next = 32 * (Len(c.args) + Len(c.tails)) /\ Advance(c.op, a) = 32 * Len(b)
      BY <1>3, <1>7, <1>8, <2>1
    <2>3. Len(d.tails) = Len(c.tails) + Len(b)
      BY <1>1, <1>3, <1>5
    <2>4. Len(c.args) \in Nat /\ Len(c.tails) \in Nat /\ Len(b) \in Nat
      BY <1>3, <1>5
    <2> DEFINE l == Len(c.args)
               t == Len(c.tails)
               u == Len(b)
    <2> HIDE DEF l, t, u
    <2>5. 32 * (l + t) + 32 * u = 32 * (l + (t + u))
      <3>1. l \in Nat /\ t \in Nat /\ u \in Nat
        BY <2>4 DEF l, t, u
      <3> QED
        BY <3>1
    <2> QED
      BY <1>1, <2>2, <2>3, <2>5 DEF l, t, u
  <1>10. ASSUME NEW j \in 1 .. n + 1 PROVE TailIs(d, j)
    <2>1. CASE j = n + 1
      <3>1. FoundIn(c.tails \o b, 32 * Len(c.tails), b)
        BY <1>3, <1>5, FoundAtEnd
      <3>2. d.starts[j] = Len(c.tails) /\ d.args[j] = a
        BY <1>1, <1>2, <1>3, <2>1
      <3> QED
        BY <1>1, <1>4, <3>1, <3>2 DEF TailIs, b
    <2>2. CASE j # n + 1
      <3>1. j \in 1 .. n /\ j \in 1 .. Len(c.args)
        BY <1>5, <2>2
      <3>2. TailIs(c, j) /\ c.args[j] \in Argument
        BY <1>5, <3>1 DEF CallInv
      <3>3. Body(c.op, c.args[j]) \in Seq(Word)
        BY <3>2, BodyWords DEF TailIs
      <3>4. FoundIn(c.tails \o b, 32 * c.starts[j], Body(c.op, c.args[j]))
        BY <1>3, <1>5, <3>2, <3>3, StaysFound DEF TailIs
      <3> QED
        BY <1>1, <1>2, <3>1, <3>2, <3>4 DEF TailIs
    <2> QED
      BY <2>1, <2>2
  <1>11. ASSUME Whole(d)
         PROVE  Len(d.heads) = Len(d.starts) /\ \A j \in 1 .. Len(d.starts) : HeadIs(d, j)
    <2>1. Whole(c) /\ a.type # Uninitialised
      <3>1. Whole(c)
        BY <1>1, <1>11 DEF Whole
      <3>2. n + 1 \in DOMAIN c.args
        BY <1>5
      <3> QED
        BY <1>3, <3>1, <3>2 DEF Whole
    <2>2. Len(c.heads) = n /\ \A j \in 1 .. n : HeadIs(c, j)
      BY <2>1 DEF CallInv
    <2>3. Len(h) = 1
      BY <1>3, <2>1
    <2>4. /\ Len(d.heads) = n + 1 /\ d.heads[n + 1] = h[1]
          /\ \A j \in 1 .. n : d.heads[j] = c.heads[j]
      <3>1. /\ Len(c.heads \o h) = Len(c.heads) + 1 /\ (c.heads \o h)[Len(c.heads) + 1] = h[1]
            /\ \A j \in 1 .. Len(c.heads) : (c.heads \o h)[j] = c.heads[j]
        BY <1>3, <1>5, <2>3, OneBehind
      <3> QED
        BY <1>1, <2>2, <3>1
    <2>5. ASSUME NEW j \in 1 .. n + 1 PROVE HeadIs(d, j)
      <3>1. CASE j = n + 1
        <4>1. d.args[j] = a /\ d.heads[j] = h[1] /\ d.starts[j] = Len(c.tails) /\ j - 1 = n
          <5>1. j - 1 = n
            BY <1>5, <3>1
          <5> QED
            BY <1>1, <1>2, <1>3, <2>4, <3>1, <5>1
        <4>2. Clear(d, j - 1) => c.next = 32 * (Len(d.args) + d.starts[j])
          BY <1>1, <1>6, <1>8, <4>1
        <4> QED
          BY <1>3, <2>1, <4>1, <4>2 DEF HeadIs
      <3>2. CASE j # n + 1
        <4>1. j \in 1 .. n
          BY <1>5, <3>2
        <4>2. HeadIs(c, j) /\ d.heads[j] = c.heads[j] /\ d.starts[j] = c.starts[j] /\ d.args = c.args
          BY <1>1, <1>2, <2>2, <2>4, <4>1
        <4> QED
          BY <1>6, <4>2 DEF HeadIs
      <3> QED
        BY <3>1, <3>2
    <2> QED
      BY <1>2, <2>4, <2>5
  <1>12. CallInv(d)
    BY <1>2, <1>9, <1>10, <1>11 DEF CallInv
  <1> QED
    BY <1>12 DEF d

LEMMA BegunInv ==
    ASSUME NEW op \in {"packMulti", "older", "sha3"}, NEW f, NEW selector, NEW args \in Seq(Argument), NEW e,
           op = "older" => \A k \in 1 .. Len(args) : args[k].type \in Types \union {Uninitialised}
    PROVE  CallInv(Begun(op, f, selector, args, e))
  <1> DEFINE c == Begun(op, f, selector, args, e)
  <1>1. /\ IsCall(c) /\ c.op = op /\ c.args = args /\ c.heads = <<>> /\ c.tails = <<>> /\ c.starts = <<>>
        /\ c.next = 32 * Len(args) /\ c.error = e /\ c.fresh = (e = Unset)
    BY DEF Begun, IsCall
  <1> HIDE DEF c
  <1>2. <<>> \in Seq(Word) /\ <<>> \in Seq(Nat) /\ Len(<<>>) = 0 /\ Len(args) \in Nat /\ 1 .. 0 = {}
    OBVIOUS
  <1>3. 32 * Len(args) \in Nat /\ 32 * Len(args) = 32 * (Len(args) + 0) /\ 0 <= Len(args)
    BY <1>2
  <1>4. CallType(c)
    BY <1>1, <1>2, <1>3 DEF CallType
  <1>5. OffsetCounts(c)
    BY <1>1, <1>2, <1>3 DEF OffsetCounts
  <1> QED
    BY <1>1, <1>2, <1>4, <1>5 DEF CallInv, c

-----------------------------------------------------------------------------
(* What a Contract keeps of its interface, and what is passed to a call. *)
Named == Types \union {Uninitialised}

LEMMA ParamsOfIsSeq ==
    ASSUME NEW i \in Interface, NEW f
    PROVE  ParamsOf(i, f) \in Seq(Declared)
  <1> DEFINE ss == [k \in DOMAIN i |-> IF i[k].name = f THEN i[k].inputs ELSE <<>>]
  <1>1. i \in Seq([name : STRING, inputs : Seq(Declared)])
    BY DEF Interface
  <1>2. ASSUME NEW k \in DOMAIN i PROVE (IF i[k].name = f THEN i[k].inputs ELSE <<>>) \in Seq(Declared)
    <2> DEFINE R == [name : STRING, inputs : Seq(Declared)]
    <2>1. i[k] \in R
      <3> HIDE DEF R, ss
      <3>1. i \in Seq(R)
        BY <1>1 DEF R
      <3> QED
        BY <3>1
    <2>2. <<>> \in Seq(Declared)
      OBVIOUS
    <2> QED
      BY <2>1, <2>2
  <1>3. ss \in Seq(Seq(Declared))
    <2>1. DOMAIN i = 1 .. Len(i) /\ Len(i) \in Nat
      BY <1>1
    <2>2. ss \in [1 .. Len(i) -> Seq(Declared)]
      BY <1>2, <2>1
    <2> HIDE DEF ss
    <2> QED
      BY <2>1, <2>2
  <1> HIDE DEF ss
  <1>4. FlattenSeq(ss) \in Seq(Declared)
    BY <1>3, FlattenIsSeq
  <1> QED
    BY <1>4 DEF ParamsOf, ss

LEMMA KnownIsType ==
    ASSUME NEW d \in Declared, d # Uninitialised
    PROVE  Known(d) \in Types
  <1>1. CASE d.base = "uint8"
    BY <1>1 DEF Known, Declared, Types, Bases
  <1>2. CASE d.base = "bytes32"
    BY <1>2 DEF Known, Declared, Types, Bases
  <1>3. CASE d.base # "uint8" /\ d.base # "bytes32"
    <2>1. d \in Types
      BY <1>3 DEF Declared
    <2>2. Known(d) = d
      BY <1>3 DEF Known
    <2> QED
      BY <2>1, <2>2
  <1> QED
    BY <1>1, <1>2, <1>3

LEMMA MethodsAreNamed ==
    ASSUME NEW i \in Interface, NEW m \in Methods(i), NEW f \in DOMAIN m
    PROVE  m[f] \in Seq(Named)
  <1> DEFINE ps == ParamsOf(i, f)
  <1>1. PICK garbage \in [Unknown(i) -> Named] :
            m = [g \in WithParams(i) |-> [k \in DOMAIN ParamsOf(i, g) |->
                    IF ParamsOf(i, g)[k] = Uninitialised THEN garbage[<<g, k>>] ELSE Known(ParamsOf(i, g)[k])]]
    BY DEF Methods, Named
  <1>2. f \in WithParams(i)
    BY <1>1
  <1>3. m[f] = [k \in DOMAIN ps |-> IF ps[k] = Uninitialised THEN garbage[<<f, k>>] ELSE Known(ps[k])]
    BY <1>1, <1>2
  <1>4. ps \in Seq(Declared)
    BY ParamsOfIsSeq
  <1>5. ASSUME NEW k \in DOMAIN ps
        PROVE  (IF ps[k] = Uninitialised THEN garbage[<<f, k>>] ELSE Known(ps[k])) \in Named
    <2>1. CASE ps[k] = Uninitialised
      <3>1. <<f, k>> \in Unknown(i)
        BY <1>2, <2>1 DEF Unknown
      <3>2. garbage[<<f, k>>] \in Named
        BY <1>1, <3>1
      <3> QED
        BY <2>1, <3>2
    <2>2. CASE ps[k] # Uninitialised
      <3>1. ps[k] \in Declared
        BY <1>4
      <3>2. Known(ps[k]) \in Types
        BY <2>2, <3>1, KnownIsType
      <3> QED
        BY <2>2, <3>2 DEF Named
    <2> QED
      BY <2>1, <2>2
  <1>6. DOMAIN ps = 1 .. Len(ps) /\ Len(ps) \in Nat
    BY <1>4
  <1> HIDE DEF ps
  <1>7. m[f] \in [1 .. Len(ps) -> Named]
    BY <1>3, <1>5, <1>6
  <1> QED
    BY <1>6, <1>7

ContractInv ==
    /\ contract.options \in Interface
    /\ contract = [options |-> contract.options, methods |-> contract.methods,
                   functors |-> contract.functors, own |-> contract.own]
    /\ \A f \in DOMAIN contract.methods : contract.methods[f] \in Seq(Named)

LEMMA StreamlinedIsShort ==
    ASSUME NEW f \in DOMAIN contract.methods, ContractInv
    PROVE  /\ Streamlined(f) \in Seq(Named)
           /\ Len(Streamlined(f)) <= Len(contract.methods[f])
  <1> DEFINE ts == contract.methods[f]
             ss == [k \in DOMAIN ts |-> IF ts[k] = Uninitialised THEN <<>> ELSE <<ts[k]>>]
  <1>1. ts \in Seq(Named)
    BY DEF ContractInv
  <1>2. DOMAIN ts = 1 .. Len(ts) /\ Len(ts) \in Nat
    BY <1>1
  <1>3. Streamlined(f) = FlattenSeq(ss)
    BY DEF Streamlined
  <1> HIDE DEF ts
  <1>4. ASSUME NEW k \in DOMAIN ts
        PROVE  /\ (IF ts[k] = Uninitialised THEN <<>> ELSE <<ts[k]>>) \in Seq(Named)
               /\ Len(IF ts[k] = Uninitialised THEN <<>> ELSE <<ts[k]>>) <= 1
    <2>1. ts[k] \in Named
      BY <1>1
    <2> DEFINE t == ts[k]
    <2> HIDE DEF t
    <2>2. <<>> \in Seq(Named) /\ Len(<<>>) <= 1 /\ <<t>> \in Seq(Named) /\ Len(<<t>>) <= 1
      BY <2>1 DEF t
    <2> QED
      BY <2>2 DEF t
  <1>5. ss \in [1 .. Len(ts) -> Seq(Named)] /\ \A k \in 1 .. Len(ts) : Len(ss[k]) <= 1
    BY <1>2, <1>4
  <1> HIDE DEF ss
  <1>6. ss \in Seq(Seq(Named)) /\ Len(ss) = Len(ts)
    BY <1>2, <1>5
  <1>7. FlattenSeq(ss) \in Seq(Named) /\ Len(FlattenSeq(ss)) <= Len(ss)
    BY <1>5, <1>6, FlattenIsSeq, FlattenIsShort
  <1> QED
    BY <1>3, <1>6, <1>7 DEF ts

LEMMA MountedIsSeq ==
    ASSUME NEW f, NEW vs \in Passed(f), Refusal(f, vs) = 0, ContractInv,
           NEW ts \in Seq(Named), Len(ts) <= Len(contract.methods[f])
    PROVE  /\ Mounted(ts, vs) \in Seq(Argument)
           /\ \A k \in 1 .. Len(Mounted(ts, vs)) : Mounted(ts, vs)[k].type \in Named
  <1> DEFINE ps == contract.methods[f]
             args == Mounted(ts, vs)
  <1>1. f \in DOMAIN contract.methods /\ vs # Missing /\ Len(vs) = Len(ps)
    BY DEF Refusal
  <1>2. ps \in Seq(Named) /\ DOMAIN ps = 1 .. Len(ps)
    BY <1>1 DEF ContractInv
  <1>3. ASSUME NEW k \in 1 .. Len(ts) PROVE vs[k] \in Value
    <2>1. k \in DOMAIN ps /\ Len(ps) # 0
      BY <1>2
    <2>2. vs # <<>>
      BY <1>1, <2>1
    <2>3. vs[k] \in ValuesOf(ps[k]) /\ DOMAIN vs = DOMAIN ps
      BY <1>1, <2>1, <2>2 DEF Passed
    <2>4. PICK a \in Arguments : vs[k] = a.value
      BY <2>3 DEF ValuesOf
    <2>5. a \in Argument
      BY AbiAssumption
    <2> QED
      BY <2>4, <2>5 DEF Argument
  <1>4. ASSUME NEW k \in 1 .. Len(ts)
        PROVE  [members |-> 2, type |-> ts[k], value |-> vs[k]] \in Argument /\ ts[k] \in Named
    <2>1. vs[k] \in Value /\ ts[k] \in Named
      BY <1>3
    <2> QED
      BY <2>1 DEF Argument, Named
  <1>5. args = [k \in 1 .. Len(ts) |-> [members |-> 2, type |-> ts[k], value |-> vs[k]]]
    <2>1. DOMAIN ts = 1 .. Len(ts)
      OBVIOUS
    <2> QED
      BY <2>1, Zenon DEF Mounted
  <1> HIDE DEF args
  <1>6. args \in [1 .. Len(ts) -> Argument] /\ \A k \in 1 .. Len(ts) : args[k].type \in Named
    BY <1>4, <1>5
  <1>7. Len(ts) \in Nat
    OBVIOUS
  <1>8. args \in Seq(Argument) /\ Len(args) = Len(ts)
    BY <1>6, <1>7
  <1> QED
    BY <1>6, <1>8 DEF args

-----------------------------------------------------------------------------
(* The invariant of the specification. *)
AnswerInv ==
    answer.packed = "yes" => CallInv(answer.call) /\ Len(answer.call.starts) = Len(answer.call.args)
Inv ==
    /\ ContractInv
    /\ call # NoCall => CallInv(call)
    /\ AnswerInv

LEMMA BuiltInv ==
    ASSUME NEW i \in Interface, NEW options \in Interface, contract \in Built(i, options)
    PROVE  ContractInv
  <1>1. PICK m \in Methods(i) :
            contract = [options |-> options, methods |-> m, functors |-> Functors(i), own |-> options = i]
    BY DEF Built
  <1>2. contract.options = options /\ contract.methods = m
    BY <1>1
  <1>3. \A f \in DOMAIN m : m[f] \in Seq(Named)
    BY MethodsAreNamed
  <1>4. contract = [options |-> contract.options, methods |-> contract.methods,
                    functors |-> contract.functors, own |-> contract.own]
    BY <1>1
  <1> QED
    BY <1>2, <1>3, <1>4 DEF ContractInv

LEMMA NothingIsDefined == \A f : f \notin DOMAIN (<<>>)
  OBVIOUS

LEMMA InitInv == Init => Inv
  <1> SUFFICES ASSUME Init PROVE Inv
    OBVIOUS
  <1>1. ContractInv
    <2>1. CASE contract = NoContract
      <3>1. contract.options = <<>> /\ contract.methods = <<>>
        BY <2>1 DEF NoContract
      <3>2. <<>> \in Interface
        BY DEF Interface
      <3>3. contract = [options |-> contract.options, methods |-> contract.methods,
                        functors |-> contract.functors, own |-> contract.own]
        BY <2>1 DEF NoContract
      <3> QED
        BY <3>1, <3>2, <3>3, NothingIsDefined DEF ContractInv
    <2>2. CASE \E i, options \in Interfaces : contract \in Built(i, options)
      BY <2>2, AbiAssumption, BuiltInv
    <2> QED
      BY <2>1, <2>2 DEF Init
  <1>2. call = NoCall /\ answer.packed # "yes"
    BY DEF Init, NoAnswer
  <1> QED
    BY <1>1, <1>2 DEF Inv, AnswerInv

LEMMA CallMultiInv == Inv /\ CallMulti => Inv'
  <1> SUFFICES ASSUME Inv, CallMulti PROVE Inv'
    OBVIOUS
  <1>1. PICK f \in Functions, e \in Errors : \E vs \in Passed(f) :
           IF Refusal(f, vs) # 0 THEN Refuse("packMulti", f, e, Refusal(f, vs))
           ELSE IF Streamlined(f) = <<>> THEN Refuse("packMulti", f, e, 30)
           ELSE Begin(Begun("packMulti", f, Signature(f, Streamlined(f)), Mounted(Streamlined(f), vs), e))
    BY DEF CallMulti
  <1>2. PICK vs \in Passed(f) :
           IF Refusal(f, vs) # 0 THEN Refuse("packMulti", f, e, Refusal(f, vs))
           ELSE IF Streamlined(f) = <<>> THEN Refuse("packMulti", f, e, 30)
           ELSE Begin(Begun("packMulti", f, Signature(f, Streamlined(f)), Mounted(Streamlined(f), vs), e))
    BY <1>1
  <1>3. ASSUME NEW code, Refuse("packMulti", f, e, code) PROVE Inv'
    <2>1. answer'.packed = "refused" /\ UNCHANGED <<contract, call>>
      BY <1>3 DEF Refuse, Answered
    <2> QED
      BY <2>1 DEF Inv, AnswerInv, ContractInv
  <1>4. CASE Refusal(f, vs) = 0 /\ Begin(Begun("packMulti", f, Signature(f, Streamlined(f)), Mounted(Streamlined(f), vs), e))
    <2>1. f \in DOMAIN contract.methods
      BY <1>4 DEF Refusal
    <2>2. Mounted(Streamlined(f), vs) \in Seq(Argument)
      <3>1. Streamlined(f) \in Seq(Named) /\ Len(Streamlined(f)) <= Len(contract.methods[f])
        BY <2>1, StreamlinedIsShort DEF Inv
      <3> QED
        BY <1>4, <3>1, MountedIsSeq DEF Inv
    <2>3. CallInv(Begun("packMulti", f, Signature(f, Streamlined(f)), Mounted(Streamlined(f), vs), e))
      BY <2>2, BegunInv
    <2>4. CallInv(call') /\ UNCHANGED <<contract, answer>>
      BY <1>4, <2>3 DEF Begin
    <2> QED
      BY <2>4 DEF Inv, AnswerInv, ContractInv
  <1> QED
    BY <1>2, <1>3, <1>4

LEMMA CallOlderInv == Inv /\ CallOlder => Inv'
  <1> SUFFICES ASSUME Inv, CallOlder PROVE Inv'
    OBVIOUS
  <1>1. PICK f \in Functions, e \in Errors : \E vs \in Passed(f) :
           IF Refusal(f, vs) # 0 THEN Refuse("older", f, e, Refusal(f, vs))
           ELSE Begin(Begun("older", f, contract.functors[f], Mounted(contract.methods[f], vs), e))
    BY DEF CallOlder
  <1>2. PICK vs \in Passed(f) :
           IF Refusal(f, vs) # 0 THEN Refuse("older", f, e, Refusal(f, vs))
           ELSE Begin(Begun("older", f, contract.functors[f], Mounted(contract.methods[f], vs), e))
    BY <1>1
  <1>3. CASE Refuse("older", f, e, Refusal(f, vs))
    <2>1. answer'.packed = "refused" /\ UNCHANGED <<contract, call>>
      BY <1>3 DEF Refuse, Answered
    <2> QED
      BY <2>1 DEF Inv, AnswerInv, ContractInv
  <1>4. CASE Refusal(f, vs) = 0 /\ Begin(Begun("older", f, contract.functors[f], Mounted(contract.methods[f], vs), e))
    <2>1. contract.methods[f] \in Seq(Named)
      BY <1>4 DEF Refusal, Inv, ContractInv
    <2>2. /\ Mounted(contract.methods[f], vs) \in Seq(Argument)
          /\ \A k \in 1 .. Len(Mounted(contract.methods[f], vs)) : Mounted(contract.methods[f], vs)[k].type \in Named
      BY <1>4, <2>1, MountedIsSeq DEF Inv
    <2>3. CallInv(Begun("older", f, contract.functors[f], Mounted(contract.methods[f], vs), e))
      BY <2>2, BegunInv DEF Named
    <2>4. CallInv(call') /\ UNCHANGED <<contract, answer>>
      BY <1>4, <2>3 DEF Begin
    <2> QED
      BY <2>4 DEF Inv, AnswerInv, ContractInv
  <1> QED
    BY <1>2, <1>3, <1>4

LEMMA NextInv == Inv /\ [Next]_vars => Inv'
  <1> SUFFICES ASSUME Inv, [Next]_vars PROVE Inv'
    OBVIOUS
  <1>1. CASE Clone
    <2>1. ContractInv' /\ UNCHANGED <<call, answer>>
      <3>1. contract.options \in Interface
        BY DEF Inv, ContractInv
      <3>2. contract' \in Built(contract.options, contract.options) /\ UNCHANGED <<call, answer>>
        BY <1>1 DEF Clone
      <3> DEFINE i == contract.options
      <3>3. PICK m \in Methods(i) : contract' = [options |-> i, methods |-> m, functors |-> Functors(i), own |-> TRUE]
        BY <3>2 DEF Built
      <3>4. \A f \in DOMAIN m : m[f] \in Seq(Named)
        BY <3>1, MethodsAreNamed
      <3> QED
        BY <3>1, <3>2, <3>3, <3>4 DEF ContractInv
    <2> QED
      BY <2>1 DEF Inv, AnswerInv
  <1>2. CASE AssignOptions
    <2>1. PICK i \in Interfaces : contract' = [contract EXCEPT !.options = i, !.own = @ /\ i = contract.options]
      BY <1>2 DEF AssignOptions
    <2>2. contract = [options |-> contract.options, methods |-> contract.methods,
                      functors |-> contract.functors, own |-> contract.own]
      BY DEF Inv, ContractInv
    <2>3. contract'.options = i /\ contract'.methods = contract.methods /\ contract'.functors = contract.functors
      BY <2>1, <2>2
    <2>4. contract' = [options |-> contract'.options, methods |-> contract'.methods,
                       functors |-> contract'.functors, own |-> contract'.own]
      BY <2>1, <2>2
    <2>5. i \in Interface
      BY AbiAssumption
    <2>6. ContractInv'
      BY <2>3, <2>4, <2>5 DEF Inv, ContractInv
    <2> QED
      BY <1>2, <2>6 DEF AssignOptions, Inv, AnswerInv
  <1>3. CASE CallMulti
    BY <1>3, CallMultiInv
  <1>4. CASE CallOlder
    BY <1>4, CallOlderInv
  <1>5. CASE SoliditySha3
    <2>1. PICK args \in BoundedSeq(Arguments, MaxParams), e \in Errors : Begin(Begun("sha3", "", Missing, args, e))
      BY <1>5 DEF SoliditySha3
    <2>2. args \in Seq(Argument)
      <3>1. PICK m \in 0 .. MaxParams : args \in [1 .. m -> Arguments]
        BY <2>1 DEF BoundedSeq, SeqOf
      <3>2. args \in [1 .. m -> Argument] /\ m \in Nat
        BY <3>1, AbiAssumption, ContractAssumption
      <3> QED
        BY <3>2
    <2>3. CallInv(Begun("sha3", "", Missing, args, e))
      BY <2>2, BegunInv
    <2>4. CallInv(call') /\ UNCHANGED <<contract, answer>>
      BY <2>1, <2>3 DEF Begin
    <2> QED
      BY <2>4 DEF Inv, AnswerInv, ContractInv
  <1>6. CASE PackArgument
    <2>1. CallInv(call) /\ Len(call.starts) < Len(call.args) /\ 0 \in Checks(call, At(call))
      BY <1>6 DEF PackArgument, Inv
    <2>2. Sound(At(call))
      <3>1. Len(call.starts) + 1 \in 1 .. Len(call.args) /\ call.args \in Seq(Argument)
        BY <2>1 DEF CallInv, CallType
      <3>2. At(call) \in Argument /\ (call.op = "older" => At(call).type \in Types \union {Uninitialised})
        BY <2>1, <3>1 DEF At, CallInv, CallType
      <3> QED
        BY <2>1, <3>2, ChecksAreSound
    <2>3. CallInv(call')
      BY <1>6, <2>1, <2>2, PackedKeepsInv DEF PackArgument
    <2> QED
      BY <1>6, <2>3 DEF PackArgument, Inv, AnswerInv, ContractInv
  <1>7. CASE RefuseArgument
    <2>1. answer'.packed = "refused" /\ call' = NoCall /\ UNCHANGED contract
      BY <1>7 DEF RefuseArgument, Answered
    <2> QED
      BY <2>1 DEF Inv, AnswerInv, ContractInv
  <1>8. CASE ThrowAtArgument
    <2>1. answer'.packed = "thrown" /\ call' = NoCall /\ UNCHANGED contract
      BY <1>8 DEF ThrowAtArgument, Answered
    <2> QED
      BY <2>1 DEF Inv, AnswerInv, ContractInv
  <1>9. CASE Finish
    <2>1. answer'.call = call /\ call' = NoCall /\ UNCHANGED contract
      BY <1>9 DEF Finish, Answered
    <2>2. CallInv(call) /\ Len(call.starts) = Len(call.args)
      BY <1>9 DEF Finish, Inv
    <2> QED
      BY <2>1, <2>2 DEF Inv, AnswerInv, ContractInv
  <1>10. CASE TakeAnswer
    <2>1. answer'.packed # "yes" /\ UNCHANGED <<contract, call>>
      BY <1>10 DEF TakeAnswer, NoAnswer
    <2> QED
      BY <2>1 DEF Inv, AnswerInv, ContractInv
  <1>11. CASE UNCHANGED vars
    BY <1>11 DEF vars, Inv, AnswerInv, ContractInv
  <1> QED
    BY <1>1, <1>2, <1>3, <1>4, <1>5, <1>6, <1>7, <1>8, <1>9, <1>10, <1>11 DEF Next

LEMMA InvAlways == Spec => []Inv
  BY InitInv, NextInv, PTL DEF Spec

(* The state has its type: the tables hold types, and an encoder's offset stays a number       *)
(* although it is fed by recursive functions over the items of arrays.                          *)
THEOREM TypeCorrect == Spec => []TypeOK
  <1>1. Inv => TypeOK
    <2> SUFFICES ASSUME Inv PROVE TypeOK
      OBVIOUS
    <2>1. \A f \in DOMAIN contract.methods : contract.methods[f] \in Seq(Types \union {Uninitialised})
      BY DEF Inv, ContractInv, Named
    <2>2. ASSUME call # NoCall
          PROVE  /\ call.op \in {"packMulti", "older", "sha3"}
                 /\ call.args \in Seq(Argument)
                 /\ call.next \in Nat /\ call.starts \in Seq(Nat)
                 /\ Len(call.starts) <= Len(call.args)
                 /\ Whole(call) => Len(call.heads) = Len(call.starts)
      BY <2>2 DEF Inv, CallInv, CallType
    <2> QED
      BY <2>1, <2>2 DEF TypeOK
  <1> QED
    BY <1>1, InvAlways, PTL

(* Whatever the interface and the arguments, the offset an encoder writes is where the argument's *)
(* tail begins, unless packMulti gave an array before it other room than it takes.                *)
THEOREM TailsAreFoundAlways == Spec => []TailsAreFound
  <1>1. Inv => TailsAreFound
    <2> SUFFICES ASSUME Inv, NEW c \in {call} \ {NoCall}, NEW j \in DOMAIN c.heads,
                        Whole(c), Dynamic(c.args[j].type), \A k \in 1 .. j - 1 : ~ Misplaced(c, c.args[k])
                 PROVE  c.heads[j] = Num(32 * (Len(c.args) + c.starts[j]))
      BY DEF TailsAreFound
    <2>1. CallInv(c)
      BY DEF Inv
    <2>2. j \in 1 .. Len(c.starts)
      <3>1. c.heads \in Seq(Word) /\ Len(c.heads) = Len(c.starts)
        BY <2>1 DEF CallInv, CallType
      <3> QED
        BY <3>1
    <2>3. HeadIs(c, j)
      BY <2>1, <2>2 DEF CallInv
    <2> QED
      BY <2>3 DEF HeadIs, Clear
  <1> QED
    BY <1>1, InvAlways, PTL

(* A decoder that follows the offsets of a packed call finds every argument: for any number of    *)
(* arguments, arrays of any size and contents of any length, in both encoders.                    *)
THEOREM AnswerDecodesAlways == Spec => []AnswerDecodes
  <1>1. Inv => AnswerDecodes
    <2> SUFFICES ASSUME Inv, answer.packed = "yes", Whole(answer.call),
                        \A k \in DOMAIN answer.call.args :
                            ~ Misplaced(answer.call, answer.call.args[k]) /\ ~ Garbled(answer.call, answer.call.args[k]),
                        NEW k \in DOMAIN answer.call.args
                 PROVE  ArgumentAt(Words(answer.call), k, answer.call.args[k])
      BY DEF AnswerDecodes
    <2> DEFINE c == answer.call
               a == c.args[k]
               ws == c.heads \o c.tails
    <2>1. CallInv(c) /\ Len(c.starts) = Len(c.args)
      BY DEF Inv, AnswerInv
    <2>2. /\ c.args \in Seq(Argument) /\ c.heads \in Seq(Word) /\ c.tails \in Seq(Word) /\ c.starts \in Seq(Nat)
          /\ Len(c.heads) = Len(c.args)
      BY <2>1 DEF CallInv, CallType
    <2>3. k \in 1 .. Len(c.args) /\ k \in 1 .. Len(c.starts) /\ k \in 1 .. Len(c.heads) /\ a \in Argument
      BY <2>1, <2>2
    <2>4. TailIs(c, k) /\ HeadIs(c, k)
      BY <2>1, <2>3 DEF CallInv
    <2>5. Sound(a) /\ FoundIn(c.tails, 32 * c.starts[k], Body(c.op, a))
      BY <2>4 DEF TailIs
    <2>6. a.type \in Types
      BY <2>5 DEF Sound, Whole
    <2>7. Clear(c, k - 1)
      <3>1. 1 .. k - 1 \subseteq DOMAIN c.args
        BY <2>2, <2>3
      <3> QED
        BY <3>1 DEF Clear
    <2>8. ws \in Seq(Word) /\ k \in 1 .. Len(ws) /\ ws[k] = c.heads[k]
      <3> DEFINE s == c.heads
                 t == c.tails
      <3> HIDE DEF s, t
      <3>1. s \in Seq(Word) /\ t \in Seq(Word) /\ k \in 1 .. Len(s)
        BY <2>2, <2>3 DEF s, t
      <3>2. s \o t \in Seq(Word) /\ k \in 1 .. Len(s \o t) /\ (s \o t)[k] = s[k]
        BY <3>1
      <3> QED
        BY <3>2 DEF s, t
    <2>9. ASSUME Dynamic(a.type)
          PROVE  \E p \in Nat : ws[k] = Num(32 * p) /\ FoundIn(ws, 32 * p, Body(c.op, a))
      <3> DEFINE p == Len(c.args) + c.starts[k]
      <3>1. p \in Nat /\ Len(c.args) \in Nat /\ c.starts[k] \in Nat
        <4>1. Len(c.args) \in Nat
          BY <2>2
        <4>2. c.starts[k] \in Nat
          <5> DEFINE s == c.starts
          <5> HIDE DEF s
          <5>1. s \in Seq(Nat) /\ k \in 1 .. Len(s)
            BY <2>2, <2>3 DEF s
          <5>2. s[k] \in Nat
            BY <5>1
          <5> QED
            BY <5>2 DEF s
        <4> QED
          BY <4>1, <4>2
      <3>2. ws[k] = Num(32 * p)
        BY <2>4, <2>7, <2>8, <2>9 DEF HeadIs
      <3>3. Body(c.op, a) \in Seq(Word)
        BY <2>3, <2>5, BodyWords
      <3>4. FoundIn(ws, 32 * Len(c.heads) + 32 * c.starts[k], Body(c.op, a))
        BY <2>2, <2>5, <3>3, FoundBehind
      <3>5. 32 * Len(c.heads) + 32 * c.starts[k] = 32 * p
        <4> DEFINE x == Len(c.args)
                   y == c.starts[k]
        <4>1. x \in Nat /\ y \in Nat /\ Len(c.heads) = x
          BY <2>2, <3>1
        <4> HIDE DEF x, y
        <4>2. 32 * x + 32 * y = 32 * (x + y)
          BY <4>1
        <4> QED
          BY <4>1, <4>2 DEF x, y
      <3> HIDE DEF p
      <3> QED
        BY <3>1, <3>2, <3>4, <3>5
    <2>10. ~ Dynamic(a.type) => ws[k] = Val(a.value)
      BY <2>4, <2>8 DEF HeadIs
    <2>11. a.type.arr => ~ (c.op = "older" /\ Contents(a.type) /\ ItemsOf(a.value) = <<>>)
      BY DEF Garbled
    <2>12. Contents(a.type) /\ ~ a.type.arr => c.op = "older" \/ a.value.digits % 2 = 0
      <3> SUFFICES ASSUME ~ a.type.arr, c.op # "older" PROVE a.value.digits % 2 = 0
        OBVIOUS
      <3>1. a.value.digits % 2 # 1
        BY DEF Garbled
      <3>2. a.value.digits \in Nat
        BY <2>5 DEF Sound, Text
      <3> QED
        BY <3>1, <3>2
    <2> HIDE DEF c, a, ws
    <2>13. ArgumentAt(ws, k, a)
      BY <2>3, <2>5, <2>6, <2>8, <2>9, <2>10, <2>11, <2>12, ArgumentFound
    <2> QED
      BY <2>13 DEF c, a, ws, Words
  <1> QED
    BY <1>1, InvAlways, PTL

-----------------------------------------------------------------------------
(* The code an Error is left with. *)
LEMMA TroubleCode ==
    ASSUME NEW op, NEW t \in Named, NEW x
    PROVE  Trouble(op, t, x) \in {0, Throws} \union 20 .. 29
  <1>1. CASE t \in Types
    <2>1. t.base \in Bases /\ t.arr \in BOOLEAN
      BY <1>1 DEF Types
    <2>2. CodeOf(t) \in 20 .. 29
      BY <2>1 DEF CodeOf, Bases
    <2> QED
      BY <2>2 DEF Trouble
  <1>2. CASE t = Uninitialised
    <2>1. Accepts(op, t, x)
      BY <1>2 DEF Accepts, Uninitialised
    <2> QED
      BY <2>1 DEF Trouble
  <1> QED
    BY <1>1, <1>2 DEF Named

LEMMA FirstTroubleCode ==
    ASSUME NEW op, NEW t \in Named, NEW items
    PROVE  FirstTrouble(op, t, items) \in {0, Throws} \union 20 .. 29
  BY TroubleCode DEF FirstTrouble

LEMMA CheckCode ==
    ASSUME NEW c, NEW a \in Argument, NEW code \in Checks(c, a) \ {0, Throws},
           c.op = "older" => a.type \in Named
    PROVE  code \notin {0, Unset}
  <1> DEFINE Codes == {0, Throws} \union 20 .. 32
  <1>1. CASE c.op = "older"
    <2>1. a.type \in Named
      BY <1>1
    <2>2. \A x : Trouble("older", a.type, x) \in Codes
      BY <2>1, TroubleCode
    <2>3. FirstTrouble("older", a.type, ItemsOf(a.value)) \in Codes
      BY <2>1, FirstTroubleCode
    <2>4. 0 \in Codes /\ Throws \in Codes /\ 20 \in Codes
      OBVIOUS
    <2>5. code \in OlderCheck(a)
      BY <1>1 DEF Checks
    <2> HIDE DEF Codes
    <2>6. code \in Codes
      BY <2>2, <2>3, <2>4, <2>5 DEF OlderCheck
    <2> QED
      BY <2>6 DEF Codes, Unset, Throws
  <1>2. CASE c.op # "older"
    <2>1. code = MultiCheck(a)
      BY <1>2 DEF Checks
    <2>2. 0 \in Codes /\ Throws \in Codes /\ 31 \in Codes /\ 32 \in Codes
      OBVIOUS
    <2>3. a.type \in Types => FirstTrouble("packMulti", a.type, ItemsOf(a.value)) \in Codes
      BY FirstTroubleCode DEF Named
    <2> HIDE DEF Codes
    <2>4. CASE a.type = Missing
      BY <2>1, <2>2, <2>4 DEF MultiCheck, Codes, Unset, Throws
    <2>5. CASE a.type # Missing /\ a.type \notin Types
      <3>1. code = 31
        BY <2>1, <2>5 DEF MultiCheck
      <3> QED
        BY <3>1 DEF Unset
    <2>6. CASE a.type # Missing /\ a.type \in Types
      <3>1. code \in Codes
        BY <2>1, <2>2, <2>3, <2>6 DEF MultiCheck
      <3> QED
        BY <3>1 DEF Codes, Unset, Throws
    <2> QED
      BY <2>4, <2>5, <2>6
  <1> QED
    BY <1>1, <1>2

\* ErrorTells of an answer.
Tells(a) ==
    a.call.fresh =>
        /\ a.packed = "refused" <=> a.error \notin {0, Unset}
        /\ a.packed = "yes" /\ a.call.op # "older" => a.error = 0
        /\ a.packed = "thrown" => a.error = Unset
        /\ a.returned <=> a.packed = "yes"

LEMMA RefusedTells ==
    ASSUME NEW c, NEW e, NEW code, code \notin {0, Unset}, c.fresh => e = Unset
    PROVE  Tells(Answered(c, "refused", SetCode(e, code)))
  BY DEF Tells, Answered, SetCode

LEMMA ThrownTells ==
    ASSUME NEW c, c.fresh => c.error = Unset
    PROVE  Tells(Answered(c, "thrown", c.error))
  BY DEF Tells, Answered

LEMMA PackedTells ==
    ASSUME NEW c, c.fresh => c.error = Unset
    PROVE  Tells(Answered(c, "yes", IF c.op = "older" THEN c.error ELSE SetCode(c.error, 0)))
  <1> SUFFICES ASSUME c.fresh
               PROVE  Tells(Answered(c, "yes", IF c.op = "older" THEN c.error ELSE SetCode(c.error, 0)))
    BY DEF Tells, Answered
  <1>1. CASE c.op = "older"
    BY <1>1 DEF Tells, Answered
  <1>2. CASE c.op # "older"
    <2>1. SetCode(c.error, 0) = 0
      BY DEF SetCode
    <2>2. Tells(Answered(c, "yes", 0))
      <3> DEFINE a == Answered(c, "yes", 0)
      <3>1. a.packed = "yes" /\ a.error = 0 /\ a.call = c
        BY DEF Answered
      <3>2. a.returned = TRUE
        BY DEF Answered
      <3> HIDE DEF a
      <3>3. Tells(a)
        BY <3>1, <3>2 DEF Tells, Unset
      <3> QED
        BY <3>3 DEF a
    <2> QED
      BY <1>2, <2>1, <2>2
  <1> QED
    BY <1>1, <1>2

(* An Error that was passed unset tells its caller how the call ended, whichever argument it      *)
(* ended at.                                                                                       *)
THEOREM ErrorTellsAlways == Spec => []ErrorTells
  <1> DEFINE T == answer # NoAnswer => Tells(answer)
  <1>1. Init => T
    BY DEF Init
  <1>2. Inv /\ T /\ [Next]_vars => T'
    <2> SUFFICES ASSUME Inv, T, [Next]_vars PROVE T'
      OBVIOUS
    <2>1. ASSUME NEW op, NEW f, NEW e, NEW code \in {17, 18, 19, 30}, Refuse(op, f, e, code) PROVE T'
      <3> DEFINE c == Begun(op, f, Missing, <<>>, e)
      <3>1. c.fresh => e = Unset
        BY DEF Begun
      <3>2. code \notin {0, Unset}
        BY DEF Unset
      <3> HIDE DEF c
      <3>3. Tells(Answered(c, "refused", SetCode(e, code)))
        BY <3>1, <3>2, RefusedTells
      <3> QED
        BY <2>1, <3>3 DEF Refuse, c
    <2>2. CASE CallMulti
      <3>1. PICK f \in Functions, e \in Errors : \E vs \in Passed(f) :
               IF Refusal(f, vs) # 0 THEN Refuse("packMulti", f, e, Refusal(f, vs))
               ELSE IF Streamlined(f) = <<>> THEN Refuse("packMulti", f, e, 30)
               ELSE Begin(Begun("packMulti", f, Signature(f, Streamlined(f)), Mounted(Streamlined(f), vs), e))
        BY <2>2 DEF CallMulti
      <3>2. PICK vs \in Passed(f) :
               \/ Refusal(f, vs) # 0 /\ Refuse("packMulti", f, e, Refusal(f, vs))
               \/ Refuse("packMulti", f, e, 30)
               \/ UNCHANGED answer
        BY <3>1 DEF Begin
      <3>3. Refusal(f, vs) # 0 => Refusal(f, vs) \in {17, 18, 19, 30}
        BY DEF Refusal
      <3> QED
        BY <2>1, <3>2, <3>3
    <2>3. CASE CallOlder
      <3>1. PICK f \in Functions, e \in Errors : \E vs \in Passed(f) :
               IF Refusal(f, vs) # 0 THEN Refuse("older", f, e, Refusal(f, vs))
               ELSE Begin(Begun("older", f, contract.functors[f], Mounted(contract.methods[f], vs), e))
        BY <2>3 DEF CallOlder
      <3>2. PICK vs \in Passed(f) :
               \/ Refusal(f, vs) # 0 /\ Refuse("older", f, e, Refusal(f, vs))
               \/ UNCHANGED answer
        BY <3>1 DEF Begin
      <3>3. Refusal(f, vs) # 0 => Refusal(f, vs) \in {17, 18, 19, 30}
        BY DEF Refusal
      <3> QED
        BY <2>1, <3>2, <3>3
    <2>4. CASE RefuseArgument
      <3>1. PICK code \in Checks(call, At(call)) \ {0, Throws} :
                answer' = Answered(call, "refused", SetCode(call.error, code))
        BY <2>4 DEF RefuseArgument
      <3>2. CallInv(call) /\ Len(call.starts) < Len(call.args)
        BY <2>4 DEF RefuseArgument, Inv
      <3>3. Len(call.starts) + 1 \in 1 .. Len(call.args) /\ call.args \in Seq(Argument)
        BY <3>2 DEF CallInv, CallType
      <3>4. At(call) \in Argument /\ (call.op = "older" => At(call).type \in Named)
        BY <3>2, <3>3 DEF At, CallInv, CallType, Named
      <3>5. code \notin {0, Unset}
        BY <3>4, CheckCode
      <3>6. Tells(answer')
        BY <3>1, <3>2, <3>5, RefusedTells DEF CallInv, CallType
      <3> QED
        BY <3>6
    <2>5. CASE ThrowAtArgument
      BY <2>5, ThrownTells DEF ThrowAtArgument, Inv, CallInv, CallType
    <2>6. CASE Finish
      BY <2>6, PackedTells DEF Finish, Inv, CallInv, CallType
    <2>7. CASE TakeAnswer
      BY <2>7 DEF TakeAnswer
    <2>8. CASE UNCHANGED answer
      BY <2>8
    <2> QED
      BY <2>2, <2>3, <2>4, <2>5, <2>6, <2>7, <2>8
         DEF Next, vars, Clone, AssignOptions, SoliditySha3, Begin, PackArgument
  <1>3. T => ErrorTells
    BY DEF ErrorTells, Tells
  <1> QED
    BY <1>1, <1>2, <1>3, InvAlways, PTL DEF Spec

-----------------------------------------------------------------------------
(* Whose selector a call is packed under. *)

\* Where all parts but one are empty, the concatenation is that one.
LEMMA FlattenOne ==
    ASSUME NEW W, NEW ss \in Seq(Seq(W)), NEW k \in 1 .. Len(ss),
           \A i \in 1 .. Len(ss) : i # k => ss[i] = <<>>
    PROVE  FlattenSeq(ss) = ss[k]
  <1> DEFINE G == [i \in 1 .. Len(ss) |-> IF i < k THEN {<<>>} ELSE {ss[k]}]
  <1>0. ss[k] \in Seq(W) /\ Len(ss) \in Nat
    OBVIOUS
  <1>1. ss[1] \in G[1]
    BY <1>0
  <1>2. ASSUME NEW i \in 1 .. Len(ss), i + 1 <= Len(ss), NEW g \in G[i]
        PROVE  g \o ss[i + 1] \in G[i + 1]
    <2>1. i + 1 \in 1 .. Len(ss)
      BY <1>2
    <2>2. CASE i + 1 < k
      <3>1. g = <<>> /\ ss[i + 1] = <<>> /\ G[i + 1] = {<<>>}
        BY <1>2, <2>1, <2>2
      <3>2. <<>> \o <<>> = <<>>
        OBVIOUS
      <3> HIDE DEF G
      <3> QED  BY <3>1, <3>2
    <2>3. CASE i + 1 = k
      <3>1. g = <<>> /\ ss[i + 1] = ss[k] /\ G[i + 1] = {ss[k]}
        BY <1>2, <2>1, <2>3
      <3>2. <<>> \o ss[k] = ss[k]
        BY <1>0
      <3> QED  BY <3>1, <3>2
    <2>4. CASE i + 1 > k
      <3>1. g = ss[k] /\ ss[i + 1] = <<>> /\ G[i + 1] = {ss[k]}
        BY <1>2, <2>1, <2>4
      <3>2. ss[k] \o <<>> = ss[k]
        BY <1>0
      <3> QED  BY <3>1, <3>2
    <2> QED  BY <2>1, <2>2, <2>3, <2>4
  <1>3. G[Len(ss)] = {ss[k]} /\ Len(ss) # 0
    BY <1>0
  <1> HIDE DEF G
  <1>4. FlattenSeq(ss) \in G[Len(ss)]
    BY <1>1, <1>2, <1>3, FlattenInvariant
  <1> QED  BY <1>3, <1>4

\* A sequence is the concatenation of its elements.
LEMMA FlattenSingles ==
    ASSUME NEW W, NEW s \in Seq(W), NEW ss \in Seq(Seq(W)), Len(ss) = Len(s),
           \A i \in 1 .. Len(s) : ss[i] = <<s[i]>>
    PROVE  FlattenSeq(ss) = s
  <1>1. CASE Len(s) = 0
    <2>1. FlattenSeq(ss) = ss /\ ss = <<>> /\ s = <<>>
      BY <1>1 DEF FlattenSeq
    <2> QED  BY <2>1
  <1>2. CASE Len(s) # 0
    <2> DEFINE Upto(i) == [j \in 1 .. i |-> s[j]]
               G == [i \in 1 .. Len(ss) |-> {Upto(i)}]
    <2>1. ss[1] \in G[1]
      <3>1. 1 \in 1 .. Len(s)
        BY <1>2
      <3>2. Upto(1) = <<s[1]>>
        OBVIOUS
      <3>3. ss[1] = <<s[1]>>
        BY <3>1
      <3> HIDE DEF Upto
      <3> QED  BY <3>1, <3>2, <3>3
    <2>2. ASSUME NEW i \in 1 .. Len(ss), i + 1 <= Len(ss), NEW g \in G[i]
          PROVE  g \o ss[i + 1] \in G[i + 1]
      <3>1. i + 1 \in 1 .. Len(ss) /\ ss[i + 1] = <<s[i + 1]>> /\ s[i + 1] \in W
        BY <2>2
      <3>2. g = Upto(i)
        <4> HIDE DEF Upto
        <4> QED  BY <2>2
      <3>3. Upto(i) \in Seq(W) /\ Len(Upto(i)) = i
        OBVIOUS
      <3>4. Upto(i) \o <<s[i + 1]>> = Upto(i + 1)
        <4>1. Upto(i) \o <<s[i + 1]>> \in Seq(W) /\ Upto(i + 1) \in Seq(W)
          BY <3>1, <3>3
        <4>2. Len(Upto(i) \o <<s[i + 1]>>) = i + 1 /\ Len(Upto(i + 1)) = i + 1
          BY <3>1, <3>3
        <4>3. \A j \in 1 .. i + 1 : (Upto(i) \o <<s[i + 1]>>)[j] = Upto(i + 1)[j]
          BY <3>1, <3>3
        <4> HIDE DEF Upto
        <4> QED  BY <4>1, <4>2, <4>3, SeqEqual
      <3> HIDE DEF Upto
      <3> QED  BY <3>1, <3>2, <3>4
    <2>3. G[Len(ss)] = {s}
      <3>1. Upto(Len(ss)) = s
        OBVIOUS
      <3> HIDE DEF Upto
      <3> QED  BY <1>2, <3>1
    <2> HIDE DEF G
    <2>4. FlattenSeq(ss) \in G[Len(ss)]
      BY <1>2, <2>1, <2>2, FlattenInvariant
    <2> QED  BY <2>3, <2>4
  <1> QED  BY <1>1, <1>2

\* Both tables hold the parameters of a method whose name no other method has.
LEMMA OneMethod ==
    ASSUME NEW i \in Interface, NEW k \in DOMAIN i, Cardinality(Declaring(i, i[k].name)) = 1
    PROVE  /\ Declaring(i, i[k].name) = {k}
           /\ LastInputs(i, i[k].name) = i[k].inputs
           /\ ParamsOf(i, i[k].name) = i[k].inputs
  <1> DEFINE f == i[k].name
  <1>0. DOMAIN i = 1 .. Len(i) /\ Len(i) \in Nat
    BY DEF Interface
  <1>1. Declaring(i, f) = {k}
    <2>1. IsFiniteSet(1 .. Len(i))
      BY <1>0, FS_Interval
    <2>2. Declaring(i, f) \in SUBSET (1 .. Len(i))
      BY <1>0 DEF Declaring
    <2>3. IsFiniteSet(Declaring(i, f))
      BY <2>1, <2>2, FS_Subset
    <2>4. PICK x : Declaring(i, f) = {x}
      BY <2>3, FS_Singleton
    <2>5. k \in Declaring(i, f)
      BY DEF Declaring
    <2> QED  BY <2>4, <2>5
  <1>2. Max(Declaring(i, f)) = k
    BY <1>0, <1>1 DEF Max
  <1>3. ParamsOf(i, f) = i[k].inputs
    <2> DEFINE ss == [l \in DOMAIN i |-> IF i[l].name = f THEN i[l].inputs ELSE <<>>]
    <2>1. \A l \in DOMAIN i : l # k => ss[l] = <<>>
      BY <1>1 DEF Declaring
    <2>2. ss \in Seq(Seq(Declared))
      <3> DEFINE R == [name : STRING, inputs : Seq(Declared)]
      <3>1. \A l \in DOMAIN i : i[l] \in R
        <4> HIDE DEF R, ss, f
        <4>1. i \in Seq(R)
          BY DEF Interface, R
        <4> QED  BY <4>1
      <3>2. \A l \in DOMAIN i : (IF i[l].name = f THEN i[l].inputs ELSE <<>>) \in Seq(Declared)
        BY <3>1
      <3>3. ss \in [1 .. Len(i) -> Seq(Declared)]
        BY <1>0, <3>2
      <3> HIDE DEF ss
      <3> QED  BY <1>0, <3>3
    <2>3. ss[k] = i[k].inputs /\ DOMAIN ss = DOMAIN i
      OBVIOUS
    <2>4. ParamsOf(i, f) = FlattenSeq(ss)
      BY DEF ParamsOf
    <2> HIDE DEF ss
    <2>5. Len(ss) = Len(i)
      BY <1>0, <2>2, <2>3
    <2>6. FlattenSeq(ss) = ss[k]
      BY <1>0, <2>1, <2>2, <2>5, FlattenOne
    <2> QED  BY <2>3, <2>4, <2>6
  <1> QED  BY <1>1, <1>2, <1>3 DEF LastInputs

\* A function whose name no other method has, as it is declared: its parameters are those of
\* its table, but for the ones argType was not set for.
LEMMA OwnTables ==
    ASSUME NEW i \in Interface, NEW k \in DOMAIN i, NEW m \in Methods(i),
           i[k].name \in DOMAIN m, Cardinality(Declaring(i, i[k].name)) = 1
    PROVE  /\ i[k].inputs \in Seq(Declared) /\ i[k].inputs # <<>>
           /\ Functors(i)[i[k].name] = [name |-> i[k].name, types |-> i[k].inputs, open |-> TRUE]
           /\ Len(m[i[k].name]) = Len(i[k].inputs)
           /\ \A n \in 1 .. Len(i[k].inputs) : i[k].inputs[n] # Uninitialised =>
                  m[i[k].name][n] = Known(i[k].inputs[n])
  <1> DEFINE f == i[k].name
             ps == ParamsOf(i, f)
  <1>1. LastInputs(i, f) = i[k].inputs /\ ps = i[k].inputs
    BY OneMethod
  <1>2. PICK garbage :
            m = [g \in WithParams(i) |-> [n \in DOMAIN ParamsOf(i, g) |->
                    IF ParamsOf(i, g)[n] = Uninitialised THEN garbage[<<g, n>>] ELSE Known(ParamsOf(i, g)[n])]]
    BY DEF Methods
  <1>3. f \in WithParams(i)
    BY <1>2
  <1>4. m[f] = [n \in DOMAIN ps |-> IF ps[n] = Uninitialised THEN garbage[<<f, n>>] ELSE Known(ps[n])]
    BY <1>2, <1>3
  <1>5. ps \in Seq(Declared)
    BY ParamsOfIsSeq
  <1>6. i[k].inputs # <<>>
    <2>1. PICK l \in DOMAIN i : i[l].inputs # <<>> /\ i[l].name = f
      BY <1>3 DEF WithParams
    <2>2. l \in Declaring(i, f)
      BY <2>1 DEF Declaring
    <2>3. l = k
      BY <2>2, OneMethod
    <2> QED  BY <2>1, <2>3
  <1>7. Functors(i)[f] = [name |-> f, types |-> i[k].inputs, open |-> TRUE]
    BY <1>1, <1>6 DEF Functors, Signature
  <1>8. DOMAIN ps = 1 .. Len(ps) /\ Len(ps) \in Nat
    BY <1>5
  <1>9. Len(m[f]) = Len(ps)
    <2>1. DOMAIN m[f] = 1 .. Len(ps)
      BY <1>4, <1>8
    <2>2. m[f] \in Seq(Named)
      BY <1>2, <1>3, MethodsAreNamed
    <2> HIDE DEF ps
    <2> QED  BY <1>8, <2>1, <2>2
  <1>10. \A n \in 1 .. Len(ps) : ps[n] # Uninitialised => m[f][n] = Known(ps[n])
    BY <1>4, <1>8
  <1> HIDE DEF ps
  <1> QED  BY <1>1, <1>5, <1>6, <1>7, <1>9, <1>10

\* What SelectorIsDeclared says of a call.
FitsDeclared(c) ==
    \A k \in DOMAIN contract.options :
        LET e == contract.options[k] IN
        e.name = c.fn /\ Cardinality(Declaring(contract.options, c.fn)) = 1
            /\ (c.op = "older" \/ \A n \in DOMAIN e.inputs : e.inputs[n] \in Types) =>
            /\ c.selector = [name |-> c.fn, types |-> e.inputs, open |-> TRUE]
            /\ Len(c.args) = Len(e.inputs)
            /\ \A n \in DOMAIN c.args : e.inputs[n] # Uninitialised => c.args[n].type = Known(e.inputs[n])

SelectorInv ==
    contract.own =>
        /\ contract.options \in Interface
        /\ contract.methods \in Methods(contract.options)
        /\ contract.functors = Functors(contract.options)
        /\ call # NoCall /\ call.op # "sha3" => FitsDeclared(call)
        /\ answer.packed = "yes" /\ answer.call.op # "sha3" => FitsDeclared(answer.call)

LEMMA MountedTypes ==
    ASSUME NEW W, NEW ts \in Seq(W), NEW vs
    PROVE  /\ Len(Mounted(ts, vs)) = Len(ts) /\ DOMAIN Mounted(ts, vs) = 1 .. Len(ts)
           /\ \A n \in 1 .. Len(ts) : Mounted(ts, vs)[n].type = ts[n]
  <1> DEFINE args == [n \in 1 .. Len(ts) |-> [members |-> 2, type |-> ts[n], value |-> vs[n]]]
  <1>1. DOMAIN ts = 1 .. Len(ts) /\ Len(ts) \in Nat
    OBVIOUS
  <1>2. Mounted(ts, vs) = args
    BY <1>1, Zenon DEF Mounted
  <1>3. args \in [1 .. Len(ts) -> [members : {2}, type : {ts[n] : n \in 1 .. Len(ts)}, value : {vs[n] : n \in 1 .. Len(ts)}]]
    OBVIOUS
  <1>4. args \in Seq([members : {2}, type : {ts[n] : n \in 1 .. Len(ts)}, value : {vs[n] : n \in 1 .. Len(ts)}])
    BY <1>1, <1>3
  <1>5. Len(args) = Len(ts)
    BY <1>1, <1>3, <1>4
  <1> QED  BY <1>2, <1>3, <1>5

\* A call through the older operator.
LEMMA OlderFits ==
    ASSUME Inv, SelectorInv, contract.own, NEW f \in DOMAIN contract.methods, NEW vs, NEW e
    PROVE  FitsDeclared(Begun("older", f, contract.functors[f], Mounted(contract.methods[f], vs), e))
  <1> DEFINE c == Begun("older", f, contract.functors[f], Mounted(contract.methods[f], vs), e)
             i == contract.options
             ts == contract.methods[f]
  <1>1. /\ c.op = "older" /\ c.fn = f /\ c.selector = contract.functors[f]
        /\ c.args = Mounted(ts, vs)
    BY DEF Begun
  <1>2. i \in Interface /\ contract.methods \in Methods(i) /\ contract.functors = Functors(i)
    BY DEF SelectorInv
  <1>3. ts \in Seq(Named)
    BY DEF Inv, ContractInv
  <1>4. /\ Len(c.args) = Len(ts) /\ DOMAIN c.args = 1 .. Len(ts)
        /\ \A n \in 1 .. Len(ts) : c.args[n].type = ts[n]
    BY <1>1, <1>3, MountedTypes
  <1> HIDE DEF c
  <1>5. ASSUME NEW k \in DOMAIN i, i[k].name = c.fn, Cardinality(Declaring(i, c.fn)) = 1
        PROVE  /\ c.selector = [name |-> c.fn, types |-> i[k].inputs, open |-> TRUE]
               /\ Len(c.args) = Len(i[k].inputs)
               /\ \A n \in DOMAIN c.args : i[k].inputs[n] # Uninitialised => c.args[n].type = Known(i[k].inputs[n])
    <2>1. /\ Functors(i)[i[k].name] = [name |-> i[k].name, types |-> i[k].inputs, open |-> TRUE]
          /\ Len(contract.methods[i[k].name]) = Len(i[k].inputs)
          /\ \A n \in 1 .. Len(i[k].inputs) : i[k].inputs[n] # Uninitialised =>
                 contract.methods[i[k].name][n] = Known(i[k].inputs[n])
      <3>1. i[k].name \in DOMAIN contract.methods /\ Cardinality(Declaring(i, i[k].name)) = 1
        BY <1>1, <1>5
      <3> QED  BY <1>2, <3>1, OwnTables
    <2> QED  BY <1>1, <1>2, <1>4, <1>5, <2>1
  <1>6. FitsDeclared(c)
    BY <1>5 DEF FitsDeclared
  <1> QED  BY <1>6 DEF c

\* A call through packMulti.
LEMMA MultiFits ==
    ASSUME Inv, SelectorInv, contract.own, NEW f \in DOMAIN contract.methods, NEW vs, NEW e
    PROVE  FitsDeclared(Begun("packMulti", f, Signature(f, Streamlined(f)), Mounted(Streamlined(f), vs), e))
  <1> DEFINE c == Begun("packMulti", f, Signature(f, Streamlined(f)), Mounted(Streamlined(f), vs), e)
             i == contract.options
             ts == Streamlined(f)
  <1>1. /\ c.op = "packMulti" /\ c.fn = f /\ c.selector = Signature(f, ts)
        /\ c.args = Mounted(ts, vs)
    BY DEF Begun
  <1>2. i \in Interface /\ contract.methods \in Methods(i) /\ contract.functors = Functors(i)
    BY DEF SelectorInv
  <1>3. ts \in Seq(Named)
    BY StreamlinedIsShort DEF Inv
  <1>4. /\ Len(c.args) = Len(ts) /\ DOMAIN c.args = 1 .. Len(ts)
        /\ \A n \in 1 .. Len(ts) : c.args[n].type = ts[n]
    BY <1>1, <1>3, MountedTypes
  <1> HIDE DEF c
  <1>5. ASSUME NEW k \in DOMAIN i, i[k].name = c.fn, Cardinality(Declaring(i, c.fn)) = 1,
               \A n \in DOMAIN i[k].inputs : i[k].inputs[n] \in Types
        PROVE  /\ c.selector = [name |-> c.fn, types |-> i[k].inputs, open |-> TRUE]
               /\ Len(c.args) = Len(i[k].inputs)
               /\ \A n \in DOMAIN c.args : i[k].inputs[n] # Uninitialised => c.args[n].type = Known(i[k].inputs[n])
    <2> DEFINE is == i[k].inputs
               ms == contract.methods[f]
               ss == [n \in DOMAIN ms |-> IF ms[n] = Uninitialised THEN <<>> ELSE <<ms[n]>>]
    <2>1. /\ is \in Seq(Declared) /\ is # <<>>
          /\ Len(ms) = Len(is)
          /\ \A n \in 1 .. Len(is) : is[n] # Uninitialised => ms[n] = Known(is[n])
      <3>1. f \in DOMAIN contract.methods /\ i[k].name = f /\ Cardinality(Declaring(i, i[k].name)) = 1
        BY <1>1, <1>5
      <3>2. /\ i[k].inputs \in Seq(Declared) /\ i[k].inputs # <<>>
            /\ Len(contract.methods[i[k].name]) = Len(i[k].inputs)
            /\ \A n \in 1 .. Len(i[k].inputs) : i[k].inputs[n] # Uninitialised =>
                   contract.methods[i[k].name][n] = Known(i[k].inputs[n])
        BY <1>2, <3>1, OwnTables
      <3> QED  BY <3>1, <3>2
    <2>2. \A t \in Types : Known(t) = t /\ t # Uninitialised
      BY DEF Types, Bases, Known, Uninitialised
    <2>3. DOMAIN is = 1 .. Len(is) /\ Len(is) \in Nat
      BY <2>1
    <2>4. \A n \in 1 .. Len(is) : is[n] \in Types /\ ms[n] = is[n]
      BY <1>5, <2>1, <2>2, <2>3
    <2>5. is \in Seq(Types)
      <3> HIDE DEF is
      <3>1. is \in [1 .. Len(is) -> Types]
        BY <2>1, <2>3, <2>4
      <3> QED  BY <2>3, <3>1
    <2>6. ms \in Seq(Named) /\ DOMAIN ms = 1 .. Len(is)
      <3>1. ms \in Seq(Named)
        BY DEF Inv, ContractInv
      <3> HIDE DEF ms, is
      <3> QED  BY <2>1, <3>1
    <2>7. \A n \in 1 .. Len(is) : ss[n] = <<is[n]>> /\ <<is[n]>> \in Seq(Types)
      <3> HIDE DEF is, ms
      <3> QED  BY <2>2, <2>4, <2>6
    <2>8. ss \in Seq(Seq(Types)) /\ Len(ss) = Len(is)
      <3>1. DOMAIN ss = 1 .. Len(is)
        BY <2>6
      <3>2. ss \in [1 .. Len(is) -> Seq(Types)]
        <4> HIDE DEF is
        <4>1. ss = [n \in 1 .. Len(is) |-> ss[n]]
          BY <3>1
        <4> HIDE DEF ss
        <4> QED  BY <2>7, <3>1, <4>1
      <3> HIDE DEF ss, is
      <3> QED  BY <2>3, <3>1, <3>2
    <2>9. ts = FlattenSeq(ss)
      BY DEF Streamlined
    <2> HIDE DEF ss, is, ms
    <2>10. ts = is
      BY <2>5, <2>7, <2>8, <2>9, FlattenSingles
    <2>11. c.selector = [name |-> c.fn, types |-> is, open |-> TRUE]
      BY <1>1, <2>1, <2>10 DEF Signature
    <2>12. \A n \in DOMAIN c.args : c.args[n].type = Known(is[n])
      BY <1>4, <2>2, <2>4, <2>10
    <2> QED  BY <1>4, <2>10, <2>11, <2>12 DEF is
  <1>6. FitsDeclared(c)
    BY <1>1, <1>5 DEF FitsDeclared
  <1> QED  BY <1>6 DEF c

LEMMA InitSelector == Init => SelectorInv
  <1> SUFFICES ASSUME Init, contract.own PROVE SelectorInv
    BY DEF SelectorInv
  <1>1. contract # NoContract
    BY DEF NoContract
  <1>2. PICK i, options \in Interfaces : contract \in Built(i, options)
    BY <1>1 DEF Init
  <1>3. PICK m \in Methods(i) :
            contract = [options |-> options, methods |-> m, functors |-> Functors(i), own |-> options = i]
    BY <1>2 DEF Built
  <1>4. options = i /\ contract.options = i /\ contract.methods = m /\ contract.functors = Functors(i)
    BY <1>3
  <1>5. i \in Interface
    BY AbiAssumption
  <1>6. call = NoCall /\ answer.packed # "yes"
    BY DEF Init, NoAnswer
  <1> QED  BY <1>4, <1>5, <1>6 DEF SelectorInv

\* Nothing changes what a call or an answer was packed for.
LEMMA KeepsSelector ==
    ASSUME SelectorInv, UNCHANGED contract,
           contract.own /\ call' # NoCall /\ call'.op # "sha3" => FitsDeclared(call'),
           contract.own /\ answer'.packed = "yes" /\ answer'.call.op # "sha3" => FitsDeclared(answer'.call)
    PROVE  SelectorInv'
  BY DEF SelectorInv, FitsDeclared

LEMMA NextSelector == Inv /\ SelectorInv /\ [Next]_vars => SelectorInv'
  <1> SUFFICES ASSUME Inv, SelectorInv, [Next]_vars PROVE SelectorInv'
    OBVIOUS
  <1>1. CASE Clone
    <2>1. /\ contract' \in Built(contract.options, contract.options)
          /\ call' = NoCall /\ answer' = NoAnswer
      BY <1>1 DEF Clone, Idle
    <2>2. PICK m \in Methods(contract.options) :
              contract' = [options |-> contract.options, methods |-> m,
                           functors |-> Functors(contract.options), own |-> TRUE]
      BY <2>1 DEF Built
    <2>3. contract.options \in Interface
      BY DEF Inv, ContractInv
    <2>4. answer'.packed # "yes"
      BY <2>1 DEF NoAnswer
    <2> QED  BY <2>1, <2>2, <2>3, <2>4 DEF SelectorInv
  <1>2. CASE AssignOptions
    <2>1. PICK i \in Interfaces :
              contract' = [contract EXCEPT !.options = i, !.own = @ /\ i = contract.options]
      BY <1>2 DEF AssignOptions
    <2>2. contract = [options |-> contract.options, methods |-> contract.methods,
                      functors |-> contract.functors, own |-> contract.own]
      BY DEF Inv, ContractInv
    <2>3. /\ contract'.options = i /\ contract'.methods = contract.methods
          /\ contract'.functors = contract.functors
          /\ contract'.own => contract.own /\ i = contract.options
      BY <2>1, <2>2
    <2>4. call' = NoCall /\ answer'.packed # "yes"
      BY <1>2 DEF AssignOptions, Idle, NoAnswer
    <2> QED  BY <2>3, <2>4 DEF SelectorInv
  <1>3. CASE CallMulti
    <2>1. PICK f \in Functions, e \in Errors : \E vs \in Passed(f) :
           IF Refusal(f, vs) # 0 THEN Refuse("packMulti", f, e, Refusal(f, vs))
           ELSE IF Streamlined(f) = <<>> THEN Refuse("packMulti", f, e, 30)
           ELSE Begin(Begun("packMulti", f, Signature(f, Streamlined(f)), Mounted(Streamlined(f), vs), e))
      BY <1>3 DEF CallMulti
    <2>2. PICK vs \in Passed(f) :
           IF Refusal(f, vs) # 0 THEN Refuse("packMulti", f, e, Refusal(f, vs))
           ELSE IF Streamlined(f) = <<>> THEN Refuse("packMulti", f, e, 30)
           ELSE Begin(Begun("packMulti", f, Signature(f, Streamlined(f)), Mounted(Streamlined(f), vs), e))
      BY <2>1
    <2>3. ASSUME NEW code, Refuse("packMulti", f, e, code) PROVE SelectorInv'
      <3>1. answer'.packed # "yes" /\ UNCHANGED <<contract, call>>
        BY <2>3 DEF Refuse, Answered
      <3> QED  BY <3>1, KeepsSelector DEF SelectorInv
    <2>4. CASE Refusal(f, vs) = 0 /\ Begin(Begun("packMulti", f, Signature(f, Streamlined(f)), Mounted(Streamlined(f), vs), e))
      <3>1. f \in DOMAIN contract.methods
        BY <2>4 DEF Refusal
      <3>2. contract.own => FitsDeclared(call')
        BY <2>4, <3>1, MultiFits DEF Begin
      <3>3. UNCHANGED <<contract, answer>>
        BY <2>4 DEF Begin
      <3> QED  BY <3>2, <3>3, KeepsSelector DEF SelectorInv
    <2> QED  BY <2>2, <2>3, <2>4
  <1>4. CASE CallOlder
    <2>1. PICK f \in Functions, e \in Errors : \E vs \in Passed(f) :
           IF Refusal(f, vs) # 0 THEN Refuse("older", f, e, Refusal(f, vs))
           ELSE Begin(Begun("older", f, contract.functors[f], Mounted(contract.methods[f], vs), e))
      BY <1>4 DEF CallOlder
    <2>2. PICK vs \in Passed(f) :
           IF Refusal(f, vs) # 0 THEN Refuse("older", f, e, Refusal(f, vs))
           ELSE Begin(Begun("older", f, contract.functors[f], Mounted(contract.methods[f], vs), e))
      BY <2>1
    <2>3. CASE Refuse("older", f, e, Refusal(f, vs))
      <3>1. answer'.packed # "yes" /\ UNCHANGED <<contract, call>>
        BY <2>3 DEF Refuse, Answered
      <3> QED  BY <3>1, KeepsSelector DEF SelectorInv
    <2>4. CASE Refusal(f, vs) = 0 /\ Begin(Begun("older", f, contract.functors[f], Mounted(contract.methods[f], vs), e))
      <3>1. f \in DOMAIN contract.methods
        BY <2>4 DEF Refusal
      <3>2. contract.own => FitsDeclared(call')
        BY <2>4, <3>1, OlderFits DEF Begin
      <3>3. UNCHANGED <<contract, answer>>
        BY <2>4 DEF Begin
      <3> QED  BY <3>2, <3>3, KeepsSelector DEF SelectorInv
    <2> QED  BY <2>2, <2>3, <2>4
  <1>5. CASE SoliditySha3
    <2>1. PICK args \in BoundedSeq(Arguments, MaxParams), e \in Errors : Begin(Begun("sha3", "", Missing, args, e))
      BY <1>5 DEF SoliditySha3
    <2>2. call'.op = "sha3" /\ UNCHANGED <<contract, answer>>
      BY <2>1 DEF Begin, Begun
    <2> QED  BY <2>2, KeepsSelector DEF SelectorInv
  <1>6. CASE PackArgument
    <2>1. call # NoCall /\ call' = Packed(call) /\ UNCHANGED <<contract, answer>>
      BY <1>6 DEF PackArgument
    <2>2. CallInv(call) /\ Len(call.starts) < Len(call.args)
      BY <1>6, <2>1 DEF Inv, PackArgument
    <2>3. /\ call'.op = call.op /\ call'.fn = call.fn
          /\ call'.selector = call.selector /\ call'.args = call.args
      BY <2>1, <2>2, PackedFields DEF CallInv, CallType
    <2>4. FitsDeclared(call) => FitsDeclared(call')
      BY <2>3 DEF FitsDeclared
    <2> QED  BY <2>1, <2>3, <2>4, KeepsSelector DEF SelectorInv
  <1>7. CASE RefuseArgument \/ ThrowAtArgument
    <2>1. answer'.packed # "yes" /\ call' = NoCall /\ UNCHANGED contract
      BY <1>7 DEF RefuseArgument, ThrowAtArgument, Answered
    <2> QED  BY <2>1, KeepsSelector
  <1>8. CASE Finish
    <2>1. answer'.call = call /\ call # NoCall /\ call' = NoCall /\ UNCHANGED contract
      BY <1>8 DEF Finish, Answered
    <2> QED  BY <2>1, KeepsSelector DEF SelectorInv
  <1>9. CASE TakeAnswer
    <2>1. answer'.packed # "yes" /\ UNCHANGED <<contract, call>>
      BY <1>9 DEF TakeAnswer, NoAnswer
    <2> QED  BY <2>1, KeepsSelector DEF SelectorInv
  <1>10. CASE UNCHANGED vars
    BY <1>10, KeepsSelector DEF vars, SelectorInv
  <1> QED
    BY <1>1, <1>2, <1>3, <1>4, <1>5, <1>6, <1>7, <1>8, <1>9, <1>10 DEF Next

(* For any interfaces, through any number of clones and assignments of the options, a packed call *)
(* goes to the function the options declare, with its parameters, as long as the tables are of    *)
(* those options (the tables of the constructor, ParamsOf and Functors, and both call operators). *)
THEOREM SelectorIsDeclaredAlways == Spec => []SelectorIsDeclared
  <1>1. SelectorInv => SelectorIsDeclared
    BY DEF SelectorInv, FitsDeclared, SelectorIsDeclared
  <1>2. Spec => []SelectorInv
    BY InitSelector, NextSelector, InvAlways, PTL DEF Spec
  <1> QED  BY <1>1, <1>2, PTL

=============================================================================
