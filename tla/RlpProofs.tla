----------------------------- MODULE RlpProofs -----------------------------
(***************************************************************************)
(* Theorems about Rlp, for any base and any widths of lengths, and any     *)
(* bytes.  The operators recurse as functions do; each part below begins   *)
(* with why such a function exists and what its values are.                *)
(***************************************************************************)
EXTENDS Rlp, TLAPS, WellFoundedInduction, SequenceTheorems, FiniteSetTheorems

(* Induction over a set of numbers. *)
Lower == {ss \in Nat \X Nat : ss[1] < ss[2]}

LEMMA LeastNumber ==
    ASSUME NEW T \in SUBSET Nat, NEW n \in T
    PROVE  \E m \in T : \A k \in T : m <= k
<1>1. OpToRel(<, Nat) = Lower
  BY DEF OpToRel, Lower
<1>2. IsWellFoundedOn(Lower, Nat)
  BY <1>1, NatLessThanWellFounded, Zenon
<1>3. PICK x \in T : \A y \in T : ~ (<<y, x>> \in Lower)
  BY <1>2, WFMin, Zenon
<1>4. \A y \in T : ~ (y < x)
  BY <1>3 DEF Lower
<1> QED
  BY <1>4

LEMMA SetInduction ==
    ASSUME NEW S, 0 \in S, \A n \in Nat : n \in S => n + 1 \in S
    PROVE  Nat \subseteq S
<1> SUFFICES ASSUME NEW n \in Nat \ S PROVE FALSE
  OBVIOUS
<1>1. PICK m \in Nat \ S : \A k \in Nat \ S : m <= k
  BY LeastNumber
<1>2. m # 0 /\ m - 1 \in Nat /\ m = (m - 1) + 1
  BY <1>1
<1>3. m - 1 \in S
  BY <1>1, <1>2
<1> QED
  BY <1>1, <1>2, <1>3

\* Induction over what is below.
LEMMA LessInduction ==
    ASSUME NEW S, \A n \in Nat : 0 .. (n - 1) \subseteq S => n \in S
    PROVE  Nat \subseteq S
<1> SUFFICES ASSUME NEW n \in Nat \ S PROVE FALSE
  OBVIOUS
<1>1. PICK m \in Nat \ S : \A k \in Nat \ S : m <= k
  BY LeastNumber
<1>2. 0 .. (m - 1) \subseteq S
  BY <1>1
<1> QED
  BY <1>1, <1>2
-----------------------------------------------------------------------------
(* A function that is defined by recursion exists. *)

Keeps(F, S) == \A k \in Nat : \A u \in S : F[k][u] \in S
Iterates(f, m, F, S, b) ==
    f \in [0 .. m -> S] /\ f[0] = b /\ \A k \in 0 .. (m - 1) : f[k + 1] = F[k][f[k]]
IteratesOn(f, F, S, b) == f \in [Nat -> S] /\ f[0] = b /\ \A k \in Nat : f[k + 1] = F[k][f[k]]

\* Over the numbers up to one.
LEMMA BoundedIteration ==
    ASSUME NEW S, NEW b \in S, NEW F, Keeps(F, S), NEW n \in Nat
    PROVE  \E f : Iterates(f, n, F, S, b)
<1> DEFINE Reached == {m \in Nat : \E f : Iterates(f, m, F, S, b)}
<1>1. 0 \in Reached
  <2>1. Iterates([k \in 0 .. 0 |-> b], 0, F, S, b)
    BY DEF Iterates
  <2> QED
    BY <2>1
<1>2. ASSUME NEW m \in Nat, m \in Reached PROVE m + 1 \in Reached
  <2>1. PICK f : Iterates(f, m, F, S, b)
    BY <1>2
  <2> DEFINE h == [k \in 0 .. (m + 1) |-> IF k <= m THEN f[k] ELSE F[m][f[m]]]
  <2>2. F[m][f[m]] \in S
    BY <2>1 DEF Keeps, Iterates
  <2>3. h \in [0 .. (m + 1) -> S]
    BY <2>1, <2>2 DEF Iterates
  <2>4. h[0] = b
    BY <2>1 DEF Iterates
  <2>5. ASSUME NEW k \in 0 .. m PROVE h[k + 1] = F[k][h[k]]
    <3>1. h[k] = f[k]
      OBVIOUS
    <3>2. CASE k = m
      BY <3>1, <3>2
    <3>3. CASE k < m
      <4>1. h[k + 1] = f[k + 1] /\ k \in 0 .. (m - 1)
        BY <3>3
      <4> QED
        BY <4>1, <3>1, <2>1 DEF Iterates
    <3> QED
      BY <3>2, <3>3
  <2> HIDE DEF h
  <2>6. Iterates(h, m + 1, F, S, b)
    <3>1. 0 .. ((m + 1) - 1) = 0 .. m
      OBVIOUS
    <3> QED
      BY <3>1, <2>3, <2>4, <2>5, Zenon DEF Iterates
  <2> QED
    BY <2>6
<1> HIDE DEF Reached
<1>3. Nat \subseteq Reached
  BY <1>1, <1>2, SetInduction, Zenon
<1> QED
  BY <1>3 DEF Reached

\* Over all of them.
LEMMA Iteration ==
    ASSUME NEW S, NEW b \in S, NEW F, Keeps(F, S)
    PROVE  \E f : IteratesOn(f, F, S, b)
<1> DEFINE Upto(n) == CHOOSE f : Iterates(f, n, F, S, b)
           all == [n \in Nat |-> Upto(n)[n]]
<1>1. ASSUME NEW n \in Nat PROVE Iterates(Upto(n), n, F, S, b)
  <2>1. \E f : Iterates(f, n, F, S, b)
    BY BoundedIteration, Zenon
  <2> QED
    BY <2>1, Zenon
<1> HIDE DEF Upto
<1>2. ASSUME NEW n \in Nat PROVE Upto(n + 1)[n] = Upto(n)[n]
  <2> DEFINE Same == {k \in Nat : k <= n => Upto(n + 1)[k] = Upto(n)[k]}
  <2>0. /\ Iterates(Upto(n), n, F, S, b)
        /\ Iterates(Upto(n + 1), n + 1, F, S, b)
    BY <1>1
  <2>1. 0 \in Same
    BY <2>0 DEF Iterates
  <2>2. ASSUME NEW k \in Nat, k \in Same PROVE k + 1 \in Same
    <3> SUFFICES ASSUME k + 1 <= n PROVE Upto(n + 1)[k + 1] = Upto(n)[k + 1]
      OBVIOUS
    <3>1. k \in 0 .. (n - 1) /\ k \in 0 .. ((n + 1) - 1)
      OBVIOUS
    <3>2. Upto(n + 1)[k] = Upto(n)[k]
      BY <2>2
    <3>3. Upto(n + 1)[k + 1] = F[k][Upto(n + 1)[k]] /\ Upto(n)[k + 1] = F[k][Upto(n)[k]]
      BY <2>0, <3>1, Zenon DEF Iterates
    <3> QED
      BY <3>2, <3>3
  <2> HIDE DEF Same
  <2>3. Nat \subseteq Same
    BY <2>1, <2>2, SetInduction, Zenon
  <2> QED
    BY <2>3 DEF Same
<1>3. all \in [Nat -> S]
  <2>1. ASSUME NEW n \in Nat PROVE Upto(n)[n] \in S
    BY <1>1 DEF Iterates
  <2> QED
    BY <2>1
<1>4. all[0] = b
  BY <1>1 DEF Iterates
<1>5. ASSUME NEW k \in Nat PROVE all[k + 1] = F[k][all[k]]
  <2>1. Iterates(Upto(k + 1), k + 1, F, S, b) /\ k \in 0 .. ((k + 1) - 1)
    BY <1>1
  <2>2. Upto(k + 1)[k + 1] = F[k][Upto(k + 1)[k]]
    BY <2>1, Zenon DEF Iterates
  <2> QED
    BY <2>2, <1>2
<1> HIDE DEF all
<1>6. IteratesOn(all, F, S, b)
  BY <1>3, <1>4, <1>5, Zenon DEF IteratesOn
<1> QED
  BY <1>6

(* What a function is at x depends on it only where a measure is smaller. *)
Shrinks(F, D, V, M) ==
    /\ M \in [D -> Nat] /\ F \in [[D -> V] -> [D -> V]]
    /\ \A f, g \in [D -> V] : \A x \in D :
           (\A y \in D : M[y] < M[x] => f[y] = g[y]) => F[f][x] = F[g][x]
Fixes(f, F, D, V) == f \in [D -> V] /\ f = F[f]

LEMMA MeasureRecursion ==
    ASSUME NEW D, NEW V, NEW v \in V, NEW M, NEW F, Shrinks(F, D, V, M)
    PROVE  \E f : Fixes(f, F, D, V)
<1>0. M \in [D -> Nat] /\ F \in [[D -> V] -> [D -> V]]
  BY DEF Shrinks
<1> DEFINE S == [D -> V]
           b == [x \in D |-> v]
           G == [k \in Nat |-> F]
<1>1. b \in S /\ Keeps(G, S)
  BY <1>0 DEF Keeps
<1> HIDE DEF S, b, G
<1>2. PICK h : IteratesOn(h, G, S, b)
  BY <1>1, Iteration, Zenon
<1>3. \A k \in Nat : h[k + 1] = F[h[k]]
  BY <1>2 DEF IteratesOn, G
<1>4. \A k \in Nat : h[k] \in [D -> V]
  BY <1>2 DEF IteratesOn, S
<1> DEFINE Still == {k \in Nat : \A x \in D : M[x] < k => h[k + 1][x] = h[k][x]}
           Settled == {k \in Nat : \A x \in D : M[x] < k => h[k][x] = h[M[x] + 1][x]}
           g == [x \in D |-> h[M[x] + 1][x]]
<1>5. Nat \subseteq Still
  <2>1. 0 \in Still
    <3>1. \A x \in D : M[x] \in Nat
      BY <1>0
    <3> QED
      BY <3>1
  <2>2. ASSUME NEW k \in Nat, k \in Still PROVE k + 1 \in Still
    <3>1. ASSUME NEW x \in D, M[x] < k + 1 PROVE h[(k + 1) + 1][x] = h[k + 1][x]
      <4>0. M[x] \in Nat
        BY <1>0
      <4>1. ASSUME NEW y \in D, M[y] < M[x] PROVE h[k + 1][y] = h[k][y]
        <5>1. M[y] \in Nat
          BY <1>0
        <5>2. M[y] < k
          BY <5>1, <4>0, <4>1, <3>1
        <5> QED
          BY <2>2, <5>2
      <4>2. h[k + 1] \in [D -> V] /\ h[k] \in [D -> V]
        BY <1>4
      <4>3. F[h[k + 1]][x] = F[h[k]][x]
        BY <4>1, <4>2, Zenon DEF Shrinks
      <4>4. h[(k + 1) + 1] = F[h[k + 1]] /\ h[k + 1] = F[h[k]]
        BY <1>3
      <4> QED
        BY <4>3, <4>4
    <3> QED
      BY <3>1
  <2> HIDE DEF Still
  <2> QED
    BY <2>1, <2>2, SetInduction, Zenon
<1>6. Nat \subseteq Settled
  <2>1. 0 \in Settled
    <3>1. \A x \in D : M[x] \in Nat
      BY <1>0
    <3> QED
      BY <3>1
  <2>2. ASSUME NEW k \in Nat, k \in Settled PROVE k + 1 \in Settled
    <3>1. ASSUME NEW x \in D, M[x] < k + 1 PROVE h[k + 1][x] = h[M[x] + 1][x]
      <4>0. M[x] \in Nat
        BY <1>0
      <4>1. CASE M[x] = k
        BY <4>1
      <4>2. CASE M[x] < k
        <5>1. h[k + 1][x] = h[k][x]
          BY <4>2, <1>5
        <5>2. h[k][x] = h[M[x] + 1][x]
          BY <4>2, <2>2
        <5> QED
          BY <5>1, <5>2
      <4> QED
        BY <4>0, <4>1, <4>2, <3>1
    <3> QED
      BY <3>1
  <2> HIDE DEF Settled
  <2> QED
    BY <2>1, <2>2, SetInduction, Zenon
<1>7. g \in [D -> V]
  <2>1. ASSUME NEW x \in D PROVE h[M[x] + 1][x] \in V
    <3>1. M[x] + 1 \in Nat
      BY <1>0
    <3>2. h[M[x] + 1] \in [D -> V]
      BY <3>1, <1>4
    <3> QED
      BY <3>2
  <2> QED
    BY <2>1
<1>8. ASSUME NEW x \in D PROVE g[x] = F[g][x]
  <2>1. M[x] \in Nat
    BY <1>0
  <2>2. g[x] = F[h[M[x]]][x]
    BY <1>3, <2>1
  <2>3. ASSUME NEW y \in D, M[y] < M[x] PROVE h[M[x]][y] = g[y]
    BY <2>1, <2>3, <1>6
  <2> HIDE DEF g
  <2>4. h[M[x]] \in [D -> V]
    BY <2>1, <1>4
  <2>5. F[h[M[x]]][x] = F[g][x]
    BY <2>3, <2>4, <1>7, Zenon DEF Shrinks
  <2> QED
    BY <2>2, <2>5
<1> HIDE DEF g
<1>9. F[g] \in [D -> V]
  BY <1>0, <1>7
<1>10. g = F[g]
  BY <1>7, <1>8, <1>9
<1> QED
  BY <1>7, <1>10 DEF Fixes
-----------------------------------------------------------------------------
(* Numbers and their bytes. *)

LEMMA Parameters ==
    /\ Base \in Nat /\ DataImmLenStart \in Nat /\ ListStart \in Nat /\ MaxLengthBytes \in Nat
    /\ DataImmLenStart > 0 /\ MaxLengthBytes > 0
    /\ DataImmLenStart + MaxLengthBytes + 1 < ListStart
    /\ ListStart + MaxLengthBytes + 1 < Base
    /\ DataImmLenCount \in Nat /\ DataImmLenCount > 1
    /\ ListImmLenCount \in Nat /\ ListImmLenCount > 1
    /\ DataIndLenZero = ListStart - MaxLengthBytes - 1
    /\ ListIndLenZero = Base - MaxLengthBytes - 1
BY RlpAssumption DEF DataImmLenCount, ListImmLenCount, DataIndLenZero, ListIndLenZero

LEMMA Quotient ==
    ASSUME NEW m \in Nat, NEW c \in Bytes
    PROVE  /\ (m * Base + c) \div Base = m
           /\ (m * Base + c) % Base = c
           /\ m * Base + c \in Nat
BY Parameters DEF Bytes

LEMMA Division ==
    ASSUME NEW n \in Nat
    PROVE  /\ n \div Base \in Nat /\ n % Base \in Bytes
           /\ n = (n \div Base) * Base + (n % Base)
           /\ n > 0 => n \div Base < n
<1> DEFINE q == n \div Base
           r == n % Base
<1>1. q \in Nat
  BY Parameters
<1>2. r \in Bytes
  BY Parameters DEF Bytes
<1>3. n = q * Base + r
  BY Parameters
<1> HIDE DEF q, r
<1>4. ASSUME n > 0, q >= n PROVE FALSE
  <2>1. r \in Nat
    BY <1>2 DEF Bytes
  <2>2. q * Base = q + q * (Base - 1)
    BY <1>1, Parameters
  <2>3. Base - 1 \in Nat /\ Base - 1 > 0 /\ q > 0
    BY <1>1, <1>4, Parameters
  <2>4. q * (Base - 1) \in Nat /\ q * (Base - 1) > 0
    BY <1>1, <2>3
  <2> QED
    BY <1>1, <1>3, <1>4, <2>1, <2>2, <2>4
<1>5. n > 0 => q < n
  BY <1>1, <1>4
<1> QED
  BY <1>1, <1>2, <1>3, <1>5 DEF q, r

LEMMA PowerType ==
    /\ Power[0] = 1
    /\ \A k \in Nat : Power[k] \in Nat /\ Power[k] > 0 /\ Power[k + 1] = Power[k] * Base
<1> DEFINE F == [f \in [Nat -> Nat] |-> [k \in Nat |-> IF k = 0 THEN 1 ELSE f[k - 1] * Base]]
           M == [k \in Nat |-> k]
           Equation(f) == f = [k \in Nat |-> IF k = 0 THEN 1 ELSE f[k - 1] * Base]
           w == CHOOSE f : Equation(f)
<1>0. \A k \in Nat : k # 0 => k - 1 \in Nat /\ k - 1 < k
  OBVIOUS
<1>1. \A u \in Nat : u * Base \in Nat /\ (u > 0 => u * Base > 0)
  BY Parameters
<1>2. F \in [[Nat -> Nat] -> [Nat -> Nat]]
  <2>1. ASSUME NEW f \in [Nat -> Nat]
        PROVE  [k \in Nat |-> IF k = 0 THEN 1 ELSE f[k - 1] * Base] \in [Nat -> Nat]
    <3>1. ASSUME NEW k \in Nat PROVE (IF k = 0 THEN 1 ELSE f[k - 1] * Base) \in Nat
      <4>1. k # 0 => f[k - 1] \in Nat
        BY <1>0
      <4> QED
        BY <1>1, <4>1
    <3> QED
      BY <3>1
  <2> QED
    BY <2>1
<1>3. Shrinks(F, Nat, Nat, M)
  BY <1>0, <1>2 DEF Shrinks
<1>4. \E f : Equation(f)
  <2>1. PICK f : Fixes(f, F, Nat, Nat)
    <3>1. 0 \in Nat
      OBVIOUS
    <3> HIDE DEF F, M
    <3> QED
      BY <1>3, <3>1, MeasureRecursion, Zenon
  <2> QED
    BY <2>1 DEF Fixes
<1>5. Equation(w)
  <2> HIDE DEF Equation
  <2> QED
    BY <1>4, Zenon
<1>6. Power = w
  BY DEF Power
<1> HIDE DEF w
<1>7. w[0] = 1 /\ \A k \in Nat : w[k + 1] = w[k] * Base
  <2>1. \A k \in Nat : k + 1 \in Nat /\ k + 1 # 0 /\ (k + 1) - 1 = k
    OBVIOUS
  <2> QED
    BY <1>5, <2>1
<1> DEFINE T == {k \in Nat : w[k] \in Nat /\ w[k] > 0}
<1>8. Nat \subseteq T
  <2>1. 0 \in T
    BY <1>7
  <2>2. ASSUME NEW k \in Nat, k \in T PROVE k + 1 \in T
    <3>1. w[k] \in Nat /\ w[k] > 0 /\ w[k + 1] = w[k] * Base
      BY <1>7, <2>2
    <3> QED
      BY <1>1, <3>1
  <2> HIDE DEF T
  <2> QED
    BY <2>1, <2>2, SetInduction, Zenon
<1> QED
  BY <1>6, <1>7, <1>8

\* What NumberOf adds up, byte by byte.
LEMMA NumberOfType ==
    ASSUME NEW s \in Seq(Bytes)
    PROVE  \E f : /\ f \in [0 .. Len(s) -> Nat]
                  /\ f[0] = 0
                  /\ \A k \in 0 .. (Len(s) - 1) : f[k + 1] = f[k] * Base + s[k + 1]
                  /\ NumberOf(s) = f[Len(s)]
<1> DEFINE n == Len(s)
           F == [k \in Nat |-> [u \in Nat |-> u * Base + (IF k < n THEN s[k + 1] ELSE 0)]]
           Equation(f) == f = [k \in 0 .. n |-> IF k = 0 THEN 0 ELSE f[k - 1] * Base + s[k]]
<1>0. n \in Nat /\ \A k \in 1 .. n : s[k] \in Nat
  BY Parameters DEF Bytes
<1>1. Keeps(F, Nat)
  <2>1. ASSUME NEW k \in Nat, NEW u \in Nat PROVE u * Base + (IF k < n THEN s[k + 1] ELSE 0) \in Nat
    <3>1. u * Base \in Nat
      BY Parameters
    <3>2. k < n => k + 1 \in 1 .. n
      BY <1>0
    <3> QED
      BY <3>1, <3>2, <1>0
  <2> QED
    BY <2>1 DEF Keeps
<1> HIDE DEF F
<1>2. PICK f : Iterates(f, n, F, Nat, 0)
  BY <1>0, <1>1, BoundedIteration, Zenon
<1>3. Equation(f)
  <2>0. f \in [0 .. n -> Nat]
    BY <1>2 DEF Iterates
  <2>1. ASSUME NEW k \in 0 .. n PROVE f[k] = IF k = 0 THEN 0 ELSE f[k - 1] * Base + s[k]
    <3>1. CASE k = 0
      BY <3>1, <1>2 DEF Iterates
    <3>2. CASE k > 0
      <4>1. k - 1 \in 0 .. (n - 1) /\ k - 1 \in 0 .. n /\ k = (k - 1) + 1 /\ k - 1 < n
        BY <3>2, <1>0
      <4>2. f[k - 1] \in Nat
        BY <2>0, <4>1
      <4>3. f[(k - 1) + 1] = F[k - 1][f[k - 1]]
        BY <4>1, <1>2 DEF Iterates
      <4>4. F[k - 1][f[k - 1]] = f[k - 1] * Base + s[(k - 1) + 1]
        BY <4>1, <4>2 DEF F
      <4> QED
        BY <4>1, <4>3, <4>4, <3>2
    <3> QED
      BY <3>1, <3>2
  <2> QED
    BY <2>0, <2>1
<1> DEFINE w == CHOOSE g : Equation(g)
<1>4. Equation(w)
  <2> HIDE DEF Equation
  <2> QED
    BY <1>3, Zenon
<1>5. NumberOf(s) = w[n]
  BY DEF NumberOf
<1> HIDE DEF w
<1>6. w[0] = 0 /\ \A k \in 0 .. (n - 1) : w[k + 1] = w[k] * Base + s[k + 1]
  BY <1>4, <1>0
<1> DEFINE T == {k \in Nat : k <= n => w[k] \in Nat}
<1>7. Nat \subseteq T
  <2>1. 0 \in T
    BY <1>6
  <2>2. ASSUME NEW k \in Nat, k \in T PROVE k + 1 \in T
    <3> SUFFICES ASSUME k + 1 <= n PROVE w[k + 1] \in Nat
      OBVIOUS
    <3>1. k \in 0 .. (n - 1) /\ w[k] \in Nat /\ s[k + 1] \in Nat
      BY <1>0, <2>2
    <3>2. w[k] * Base \in Nat
      BY <3>1, Parameters
    <3> QED
      BY <3>1, <3>2, <1>6
  <2> HIDE DEF T
  <2> QED
    BY <2>1, <2>2, SetInduction, Zenon
<1>8. w \in [0 .. n -> Nat]
  BY <1>4, <1>7, <1>0
<1> QED
  BY <1>5, <1>6, <1>8

LEMMA NumberIsNat == ASSUME NEW s \in Seq(Bytes) PROVE NumberOf(s) \in Nat
BY NumberOfType

LEMMA BytesRequiredType ==
    /\ BytesRequired(0) = 0
    /\ \A n \in Nat : /\ BytesRequired(n) \in Nat
                      /\ n > 0 => BytesRequired(n) = 1 + BytesRequired(n \div Base)
<1> DEFINE F == [f \in [Nat -> Nat] |-> [m \in Nat |-> IF m = 0 THEN 0 ELSE 1 + f[m \div Base]]]
           M == [m \in Nat |-> m]
           Equation(f) == f = [m \in Nat |-> IF m = 0 THEN 0 ELSE 1 + f[m \div Base]]
           w == CHOOSE f : Equation(f)
<1>0. \A m \in Nat : m \div Base \in Nat /\ (m # 0 => m \div Base < m)
  BY Division
<1>1. F \in [[Nat -> Nat] -> [Nat -> Nat]]
  <2>1. ASSUME NEW f \in [Nat -> Nat]
        PROVE  [m \in Nat |-> IF m = 0 THEN 0 ELSE 1 + f[m \div Base]] \in [Nat -> Nat]
    BY <1>0
  <2> QED
    BY <2>1
<1>2. Shrinks(F, Nat, Nat, M)
  BY <1>0, <1>1 DEF Shrinks
<1>3. 0 \in Nat
  OBVIOUS
<1>4. \E f : Equation(f)
  <2>1. PICK f : Fixes(f, F, Nat, Nat)
    <3> HIDE DEF F, M
    <3> QED
      BY <1>2, <1>3, MeasureRecursion, Zenon
  <2> QED
    BY <2>1 DEF Fixes
<1>5. Equation(w)
  <2> HIDE DEF Equation
  <2> QED
    BY <1>4, Zenon
<1>6. \A n : BytesRequired(n) = w[n]
  BY DEF BytesRequired
<1> HIDE DEF w
<1>7. w[0] = 0 /\ \A n \in Nat : n > 0 => w[n] = 1 + w[n \div Base]
  BY <1>5
<1> DEFINE T == {n \in Nat : w[n] \in Nat}
<1>8. Nat \subseteq T
  <2>1. ASSUME NEW n \in Nat, 0 .. (n - 1) \subseteq T PROVE n \in T
    <3>1. CASE n = 0
      BY <3>1, <1>7
    <3>2. CASE n > 0
      <4>1. n \div Base \in 0 .. (n - 1)
        BY <1>0, <3>2
      <4> QED
        BY <4>1, <2>1, <3>2, <1>7
    <3> QED
      BY <3>1, <3>2
  <2> HIDE DEF T
  <2> QED
    BY <2>1, LessInduction, Zenon
<1> QED
  BY <1>6, <1>7, <1>8

LEMMA BigEndianType ==
    /\ BigEndian(0) = <<>>
    /\ \A n \in Nat : /\ BigEndian(n) \in Seq(Bytes)
                      /\ n > 0 => BigEndian(n) = Append(BigEndian(n \div Base), n % Base)
<1> DEFINE V == Seq(Bytes)
           F == [f \in [Nat -> V] |->
                    [m \in Nat |-> IF m = 0 THEN <<>> ELSE Append(f[m \div Base], m % Base)]]
           M == [m \in Nat |-> m]
           Equation(f) == f = [m \in Nat |-> IF m = 0 THEN <<>> ELSE Append(f[m \div Base], m % Base)]
           w == CHOOSE f : Equation(f)
<1>0. \A m \in Nat : m \div Base \in Nat /\ m % Base \in Bytes /\ (m # 0 => m \div Base < m)
  BY Division
<1>1. F \in [[Nat -> V] -> [Nat -> V]]
  <2>1. ASSUME NEW f \in [Nat -> V]
        PROVE  [m \in Nat |-> IF m = 0 THEN <<>> ELSE Append(f[m \div Base], m % Base)] \in [Nat -> V]
    <3>1. ASSUME NEW m \in Nat PROVE (IF m = 0 THEN <<>> ELSE Append(f[m \div Base], m % Base)) \in V
      <4>1. m \div Base \in Nat /\ m % Base \in Bytes
        BY <1>0
      <4>2. f[m \div Base] \in Seq(Bytes)
        BY <4>1
      <4> HIDE DEF V
      <4>3. Append(f[m \div Base], m % Base) \in Seq(Bytes)
        BY <4>1, <4>2
      <4> QED
        BY <4>3 DEF V
    <3> QED
      BY <3>1
  <2> QED
    BY <2>1
<1> HIDE DEF V
<1>2. Shrinks(F, Nat, V, M)
  <2>0. M \in [Nat -> Nat]
    OBVIOUS
  <2>1. ASSUME NEW f \in [Nat -> V], NEW g \in [Nat -> V], NEW x \in Nat,
               \A y \in Nat : M[y] < M[x] => f[y] = g[y]
        PROVE  F[f][x] = F[g][x]
    <3>1. x # 0 => f[x \div Base] = g[x \div Base]
      BY <2>1, <1>0
    <3>2. /\ F[f][x] = IF x = 0 THEN <<>> ELSE Append(f[x \div Base], x % Base)
          /\ F[g][x] = IF x = 0 THEN <<>> ELSE Append(g[x \div Base], x % Base)
      OBVIOUS
    <3> HIDE DEF F
    <3> QED
      BY <3>1, <3>2
  <2> HIDE DEF F, M
  <2> QED
    BY <1>1, <2>0, <2>1 DEF Shrinks
<1>3. <<>> \in V
  BY DEF V
<1>4. \E f : Equation(f)
  <2>1. PICK f : Fixes(f, F, Nat, V)
    <3> HIDE DEF F, M
    <3> QED
      BY <1>2, <1>3, MeasureRecursion, Zenon
  <2> QED
    BY <2>1 DEF Fixes
<1>5. Equation(w)
  <2> HIDE DEF Equation
  <2> QED
    BY <1>4, Zenon
<1>6. \A n : BigEndian(n) = w[n]
  BY DEF BigEndian
<1> HIDE DEF w
<1>7. w[0] = <<>> /\ \A n \in Nat : n > 0 => w[n] = Append(w[n \div Base], n % Base)
  <2>1. \A n \in Nat : w[n] = IF n = 0 THEN <<>> ELSE Append(w[n \div Base], n % Base)
    BY <1>5, Zenon
  <2>2. w[0] = <<>>
    BY <2>1, Zenon
  <2>3. \A n \in Nat : n > 0 => w[n] = Append(w[n \div Base], n % Base)
    <3>1. \A n \in Nat : n > 0 => n # 0
      OBVIOUS
    <3> QED
      BY <2>1, <3>1, Zenon
  <2> QED
    BY <2>2, <2>3
<1> DEFINE T == {n \in Nat : w[n] \in Seq(Bytes)}
<1>8. Nat \subseteq T
  <2>1. ASSUME NEW n \in Nat, 0 .. (n - 1) \subseteq T PROVE n \in T
    <3>1. CASE n = 0
      <4>1. <<>> \in Seq(Bytes)
        OBVIOUS
      <4> QED
        BY <4>1, <3>1, <1>7
    <3>2. CASE n > 0
      <4>1. n \div Base \in 0 .. (n - 1)
        BY <1>0, <3>2
      <4>2. w[n \div Base] \in Seq(Bytes) /\ n % Base \in Bytes
        BY <4>1, <2>1, <1>0
      <4>3. Append(w[n \div Base], n % Base) \in Seq(Bytes)
        BY <4>2
      <4> QED
        BY <4>3, <3>2, <1>7
    <3> QED
      BY <3>1, <3>2
  <2> HIDE DEF T
  <2> QED
    BY <2>1, LessInduction, Zenon
<1> QED
  BY <1>6, <1>7, <1>8

-----------------------------------------------------------------------------
(* References to bytes, and what the first of them say. *)

LEMMA Cropped ==
    ASSUME NEW d \in Seq(Bytes), NEW from \in Nat, NEW count \in Nat
    PROVE  /\ Crop(d, from, count) \in Seq(Bytes)
           /\ from + count <= Len(d) =>
                 /\ Len(Crop(d, from, count)) = count
                 /\ \A k \in 1 .. count : Crop(d, from, count)[k] = d[from + k]
           /\ from + count > Len(d) => Crop(d, from, count) = <<>>
<1>1. CASE from + count <= Len(d)
  <2>1. from + 1 \in 1 .. (Len(d) + 1) /\ from + count \in (from + 1 - 1) .. Len(d)
    BY <1>1
  <2>2. SubSeq(d, from + 1, from + count) \in Seq(Bytes)
    BY <2>1, <1>1
  <2>3. Len(SubSeq(d, from + 1, from + count)) = count
    BY <2>1, <1>1
  <2>4. \A k \in 1 .. count : SubSeq(d, from + 1, from + count)[k] = d[from + k]
    BY <2>1, <1>1
  <2> DEFINE c == SubSeq(d, from + 1, from + count)
  <2>5. Crop(d, from, count) = c
    BY <1>1 DEF Crop
  <2>6. c \in Seq(Bytes) /\ Len(c) = count /\ \A k \in 1 .. count : c[k] = d[from + k]
    BY <2>2, <2>3, <2>4
  <2>7. ~ (from + count > Len(d))
    BY <1>1
  <2> HIDE DEF c
  <2> QED
    BY <2>5, <2>6, <2>7, Zenon
<1>2. CASE from + count > Len(d)
  <2>1. Crop(d, from, count) = <<>>
    BY <1>2 DEF Crop
  <2> QED
    BY <1>2, <2>1
<1> QED
  BY <1>1, <1>2

\* The bytes cut out of others where they are.
Cut(d, from, count) ==
    /\ Crop(d, from, count) \in Seq(Bytes) /\ Len(Crop(d, from, count)) = count
    /\ \A k \in 1 .. count : Crop(d, from, count)[k] = d[from + k]

LEMMA CutThere ==
    ASSUME NEW d \in Seq(Bytes), NEW from \in Nat, NEW count \in Nat, from + count <= Len(d)
    PROVE  Cut(d, from, count)
BY Cropped DEF Cut

LEMMA CroppedFrom ==
    ASSUME NEW d \in Seq(Bytes), NEW from \in 0 .. Len(d)
    PROVE  /\ CropFrom(d, from) \in Seq(Bytes)
           /\ Len(CropFrom(d, from)) = Len(d) - from
           /\ \A k \in 1 .. (Len(d) - from) : CropFrom(d, from)[k] = d[from + k]
<1>1. from + 1 \in 1 .. (Len(d) + 1) /\ Len(d) \in (from + 1 - 1) .. Len(d)
  OBVIOUS
<1>2. SubSeq(d, from + 1, Len(d)) \in Seq(Bytes)
  BY <1>1
<1>3. Len(SubSeq(d, from + 1, Len(d))) = Len(d) - from
  BY <1>1
<1>4. \A k \in 1 .. (Len(d) - from) : SubSeq(d, from + 1, Len(d))[k] = d[from + k]
  BY <1>1
<1> QED
  BY <1>2, <1>3, <1>4 DEF CropFrom

\* The same as one predicate.
CutFrom(d, from) ==
    /\ CropFrom(d, from) \in Seq(Bytes) /\ Len(CropFrom(d, from)) = Len(d) - from
    /\ \A k \in 1 .. (Len(d) - from) : CropFrom(d, from)[k] = d[from + k]

LEMMA CutFromThere ==
    ASSUME NEW d \in Seq(Bytes), NEW from \in 0 .. Len(d)
    PROVE  CutFrom(d, from)
BY CroppedFrom DEF CutFrom

\* What two byte strings are when joined.
LEMMA Joined ==
    ASSUME NEW p \in Seq(Bytes), NEW q \in Seq(Bytes)
    PROVE  /\ p \o q \in Seq(Bytes) /\ Len(p \o q) = Len(p) + Len(q)
           /\ Len(p) \in Nat /\ Len(q) \in Nat
           /\ \A k \in 1 .. Len(p) : (p \o q)[k] = p[k]
           /\ \A k \in 1 .. Len(q) : (p \o q)[Len(p) + k] = q[k]
<1>1. /\ p \o q \in Seq(Bytes) /\ Len(p \o q) = Len(p) + Len(q)
      /\ Len(p) \in Nat /\ Len(q) \in Nat
  OBVIOUS
<1>2. \A k \in 1 .. Len(p) : (p \o q)[k] = p[k]
  OBVIOUS
<1>3. \A k \in 1 .. Len(q) : (p \o q)[Len(p) + k] = q[k]
  OBVIOUS
<1> QED
  BY <1>1, <1>2, <1>3, Zenon

LEMMA SameBytes ==
    ASSUME NEW d \in Seq(Bytes), NEW e \in Seq(Bytes), Len(d) = Len(e),
           \A k \in 1 .. Len(d) : d[k] = e[k]
    PROVE  d = e
OBVIOUS

LEMMA SameSlice ==
    ASSUME NEW d \in Seq(Bytes), NEW e \in Seq(Bytes), NEW i \in Nat, NEW j \in Nat, i > 0,
           j <= Len(d), j <= Len(e), \A k \in i .. j : d[k] = e[k]
    PROVE  SubSeq(d, i, j) = SubSeq(e, i, j)
OBVIOUS

\* What is known of bytes that have a length.
LEMMA Lengths ==
    ASSUME NEW d \in Seq(Bytes), HasLength(d)
    PROVE  /\ LengthSize(d) \in 0 .. MaxLengthBytes
           /\ PayloadOffset(d) \in Nat
           /\ Length(d) \in Nat
           /\ ActualSize(d) \in Nat
           /\ d # <<>> => ActualSize(d) = PayloadOffset(d) + Length(d) /\ ActualSize(d) > 0
           /\ d # <<>> /\ LengthSize(d) > 0 => Length(d) > 0
<1>1. CASE d = <<>>
  <2>1. LengthSize(d) = 0
    BY <1>1 DEF LengthSize, IsData, IsList
  <2>2. PayloadOffset(d) = 1
    BY <1>1, <2>1 DEF PayloadOffset, IsSingleByte
  <2>3. Length(d) = 0 /\ ActualSize(d) = 0
    BY <1>1 DEF Length, ActualSize, IsNull
  <2>4. 0 \in 0 .. MaxLengthBytes /\ 0 \in Nat /\ 1 \in Nat /\ ~ (0 > 0)
    BY Parameters
  <2>5. LengthSize(d) \in 0 .. MaxLengthBytes
    BY <2>1, <2>4, Zenon
  <2>6. PayloadOffset(d) \in Nat
    BY <2>2, <2>4, Zenon
  <2>7. Length(d) \in Nat /\ ActualSize(d) \in Nat
    BY <2>3, <2>4, Zenon
  <2> QED
    BY <1>1, <2>5, <2>6, <2>7, Zenon
<1>2. CASE d # <<>>
  <2>1. d[1] \in Nat /\ d[1] < Base /\ Len(d) \in Nat /\ Len(d) > 0
    <3>1. Len(d) \in Nat /\ Len(d) > 0 /\ d[1] \in Bytes
      BY <1>2
    <3> QED
      BY <3>1, Parameters DEF Bytes
  <2>2. IsSingleByte(d) => IsData(d) /\ LengthSize(d) = 0
    BY <1>2, <2>1, Parameters DEF LengthSize, IsData, IsList, IsSingleByte
  <2>3. LengthSize(d) \in 0 .. MaxLengthBytes
    BY <1>2, <2>1, Parameters DEF LengthSize, IsData, IsList
  <2>4. ASSUME LengthSize(d) > 0 PROVE LengthRead(d) \in Nat /\ LengthRead(d) > 0
    <3>1. /\ Len(d) > LengthSize(d)
          /\ LengthRead(d) >= IF IsList(d) THEN ListImmLenCount ELSE DataImmLenCount
      BY <1>2, <2>4 DEF HasLength, IsNull
    <3>2. SubSeq(d, 2, 1 + LengthSize(d)) \in Seq(Bytes)
      BY <2>3, <2>4, <3>1
    <3>3. LengthRead(d) \in Nat
      BY <3>2, NumberIsNat DEF LengthRead
    <3> QED
      BY <3>1, <3>3, Parameters
  <2>5. /\ Length(d) \in Nat
        /\ IsSingleByte(d) => Length(d) = 1
        /\ LengthSize(d) > 0 => Length(d) > 0
    BY <1>2, <2>1, <2>2, <2>3, <2>4, Parameters DEF Length, IsNull, IsList, IsSingleByte
  <2>6. PayloadOffset(d) \in Nat /\ (~ IsSingleByte(d) => PayloadOffset(d) > 0)
        /\ (IsSingleByte(d) => PayloadOffset(d) = 0)
    BY <2>3, Parameters DEF PayloadOffset
  <2>7. ActualSize(d) = PayloadOffset(d) + Length(d)
    BY <1>2, <2>5, <2>6 DEF ActualSize, IsNull
  <2> QED
    BY <2>3, <2>5, <2>6, <2>7
<1> QED
  BY <1>1, <1>2

\* Bytes that agree as far as the item reaches have the same item in front.
LEMMA SameHead ==
    ASSUME NEW d \in Seq(Bytes), NEW e \in Seq(Bytes), d # <<>>, HasLength(d),
           ActualSize(d) <= Len(d), ActualSize(d) <= Len(e),
           \A k \in 1 .. ActualSize(d) : d[k] = e[k]
    PROVE  /\ e # <<>> /\ HasLength(e)
           /\ ActualSize(e) = ActualSize(d)
           /\ PayloadOffset(e) = PayloadOffset(d) /\ Length(e) = Length(d)
           /\ (IsList(e) <=> IsList(d)) /\ (IsSingleByte(e) <=> IsSingleByte(d))
<1>1. /\ LengthSize(d) \in 0 .. MaxLengthBytes /\ PayloadOffset(d) \in Nat /\ Length(d) \in Nat
      /\ ActualSize(d) \in Nat /\ ActualSize(d) > 0
      /\ ActualSize(d) = PayloadOffset(d) + Length(d)
      /\ LengthSize(d) > 0 => Length(d) > 0
  BY Lengths
<1>2. Len(d) \in Nat /\ Len(e) \in Nat /\ Len(e) > 0 /\ e # <<>>
  BY <1>1
<1>3. d[1] = e[1] /\ d[1] \in Nat
  <2>1. 1 \in 1 .. ActualSize(d) /\ 1 \in 1 .. Len(e)
    BY <1>1, <1>2
  <2>2. d[1] = e[1]
    BY <2>1
  <2>3. e[1] \in Bytes
    BY <2>1, ElementOfSeq
  <2> QED
    BY <2>2, <2>3 DEF Bytes
<1>4. /\ IsList(e) <=> IsList(d)
      /\ IsData(e) <=> IsData(d)
      /\ IsSingleByte(e) <=> IsSingleByte(d)
  BY <1>2, <1>3 DEF IsList, IsData, IsSingleByte
<1>5. LengthSize(e) = LengthSize(d)
  BY <1>3, <1>4, Zenon DEF LengthSize
<1>6. PayloadOffset(e) = PayloadOffset(d)
  BY <1>4, <1>5 DEF PayloadOffset
<1>7. IsGood(e)
  <2>1. IsGood(d)
    BY DEF HasLength, IsNull
  <2>2. ASSUME d[1] = DataImmLenStart + 1 PROVE Len(e) > 1 /\ e[2] >= DataImmLenStart
    <3>1. Len(d) > 1 /\ d[2] >= DataImmLenStart
      BY <2>1, <2>2 DEF IsGood
    <3>2. ~ IsSingleByte(d) /\ LengthSize(d) = 0 /\ ~ IsList(d)
      BY <2>2, Parameters DEF IsSingleByte, LengthSize, IsData, IsList
    <3>3. ActualSize(d) = 2
      BY <2>2, <3>2, <1>1, Parameters DEF ActualSize, PayloadOffset, Length, IsNull
    <3> QED
      BY <3>1, <3>3, <1>2
  <2> QED
    BY <1>2, <1>3, <2>2 DEF IsGood
<1>8. ASSUME LengthSize(d) > 0
      PROVE  /\ Len(e) > LengthSize(d) /\ e[2] = d[2]
             /\ LengthRead(e) = LengthRead(d)
  <2>1. ~ IsSingleByte(d)
    BY <1>8, <1>3, Parameters DEF IsSingleByte, LengthSize, IsData, IsList
  <2>2. PayloadOffset(d) = 1 + LengthSize(d)
    BY <2>1 DEF PayloadOffset
  <2>3. ActualSize(d) > 1 + LengthSize(d)
    BY <1>1, <1>8, <2>2
  <2>4. SubSeq(d, 2, 1 + LengthSize(d)) = SubSeq(e, 2, 1 + LengthSize(d))
    <3>1. \A k \in 2 .. (1 + LengthSize(d)) : d[k] = e[k]
      BY <1>1, <2>3
    <3> DEFINE j == 1 + LengthSize(d)
    <3>2. j \in Nat /\ j <= Len(d) /\ j <= Len(e)
      BY <1>1, <1>2, <2>3
    <3>3. \A k \in 2 .. j : d[k] = e[k]
      BY <3>1
    <3> HIDE DEF j
    <3>4. SubSeq(d, 2, j) = SubSeq(e, 2, j)
      BY <3>2, <3>3, SameSlice
    <3> QED
      BY <3>4 DEF j
  <2>5. LengthRead(e) = LengthRead(d)
    BY <1>5, <2>4, Zenon DEF LengthRead
  <2>6. 2 \in 1 .. ActualSize(d) /\ Len(e) > LengthSize(d)
    BY <1>1, <1>2, <2>3
  <2> QED
    BY <2>5, <2>6
<1>9. HasLength(e)
  <2>1. IsList(e) <=> IsList(d)
    BY <1>4
  <2>2. LengthSize(d) > 0 =>
             /\ Len(d) > LengthSize(d)
             /\ d[2] # 0
             /\ LengthRead(d) >= IF IsList(d) THEN ListImmLenCount ELSE DataImmLenCount
             /\ LengthRead(d) < MaxSize - Base
    BY DEF HasLength, IsNull
  <2> QED
    BY <1>5, <1>7, <1>8, <2>1, <2>2 DEF HasLength
<1>10. Length(e) = Length(d)
  BY <1>1, <1>2, <1>3, <1>4, <1>5, <1>8 DEF Length, IsNull
<1>11. ActualSize(e) = ActualSize(d)
  BY <1>2, <1>4, <1>6, <1>10 DEF ActualSize, IsNull
<1> QED
  BY <1>2, <1>4, <1>6, <1>9, <1>10, <1>11

-----------------------------------------------------------------------------
(* The items of a payload. *)

Ahead(p, at) == at + IF HasSize(CropFrom(p, at)) THEN ActualSize(CropFrom(p, at)) ELSE 0

LEMMA AheadType ==
    ASSUME NEW p \in Seq(Bytes), NEW at \in 0 .. Len(p)
    PROVE  /\ Ahead(p, at) \in at .. Len(p)
           /\ at < Len(p) /\ HasSize(CropFrom(p, at)) => Ahead(p, at) > at
<1> DEFINE rest == CropFrom(p, at)
<1>1. rest \in Seq(Bytes) /\ Len(rest) = Len(p) - at
  BY CroppedFrom
<1>2. CASE HasSize(rest)
  <2>1. /\ ActualSize(rest) \in Nat /\ ActualSize(rest) <= Len(rest)
        /\ rest # <<>> => ActualSize(rest) > 0
    BY <1>1, <1>2, Lengths DEF HasSize
  <2>2. at < Len(p) => rest # <<>>
    BY <1>1
  <2> HIDE DEF rest
  <2>3. Ahead(p, at) = at + ActualSize(rest)
    BY <1>2 DEF Ahead, rest
  <2> QED
    BY <1>1, <2>1, <2>2, <2>3
<1>3. CASE ~ HasSize(rest)
  BY <1>3 DEF Ahead
<1> QED
  BY <1>2, <1>3

LEMMA ItemStarts ==
    ASSUME NEW p \in Seq(Bytes)
    PROVE  /\ ItemStart(p) \in [Nat -> 0 .. Len(p)]
           /\ ItemStart(p)[0] = 0
           /\ \A k \in Nat : ItemStart(p)[k + 1] = Ahead(p, ItemStart(p)[k])
<1> DEFINE S == 0 .. Len(p)
           G == [at \in S |-> Ahead(p, at)]
           F == [k \in Nat |-> G]
           Equation(f) == f = [k \in Nat |-> IF k = 0 THEN 0 ELSE Ahead(p, f[k - 1])]
<1>0. 0 \in S /\ \A at \in S : Ahead(p, at) \in S
  <2>1. ASSUME NEW at \in S PROVE Ahead(p, at) \in S
    BY AheadType
  <2> QED
    BY <2>1
<1>1. Keeps(F, S)
  BY <1>0 DEF Keeps
<1>2. PICK f : IteratesOn(f, F, S, 0)
  <2> HIDE DEF F, S
  <2> QED
    BY <1>0, <1>1, Iteration, Zenon
<1>3. Equation(f)
  <2>0. f \in [Nat -> S]
    BY <1>2 DEF IteratesOn
  <2>1. ASSUME NEW k \in Nat PROVE f[k] = IF k = 0 THEN 0 ELSE Ahead(p, f[k - 1])
    <3>1. CASE k = 0
      BY <3>1, <1>2 DEF IteratesOn
    <3>2. CASE k > 0
      <4>1. k - 1 \in Nat /\ k = (k - 1) + 1
        BY <3>2
      <4>2. f[k - 1] \in S
        BY <4>1, <2>0
      <4>3. f[(k - 1) + 1] = F[k - 1][f[k - 1]]
        BY <4>1, <1>2 DEF IteratesOn
      <4> QED
        BY <4>1, <4>2, <4>3, <3>2
    <3> QED
      BY <3>1, <3>2
  <2> QED
    BY <2>0, <2>1
<1>4. Equation(ItemStart(p))
  <2>1. ItemStart(p) = CHOOSE g : Equation(g)
    BY DEF ItemStart, Ahead
  <2> HIDE DEF Equation
  <2> QED
    BY <1>3, <2>1, Zenon
<1> HIDE DEF S, G, F
<1>5. ItemStart(p)[0] = 0 /\ \A k \in Nat : ItemStart(p)[k + 1] = Ahead(p, ItemStart(p)[k])
  <2>1. \A k \in Nat : ItemStart(p)[k] = IF k = 0 THEN 0 ELSE Ahead(p, ItemStart(p)[k - 1])
    BY <1>4, Zenon
  <2>2. \A k \in Nat : k + 1 \in Nat /\ k + 1 # 0 /\ (k + 1) - 1 = k
    OBVIOUS
  <2> QED
    BY <2>1, <2>2
<1> DEFINE T == {k \in Nat : ItemStart(p)[k] \in S}
<1>6. Nat \subseteq T
  <2>1. 0 \in T
    BY <1>0, <1>5
  <2>2. ASSUME NEW n \in Nat, n \in T PROVE n + 1 \in T
    <3>1. ItemStart(p)[n + 1] \in S
      BY <1>0, <1>5, <2>2
    <3> QED
      BY <3>1
  <2> HIDE DEF T
  <2> QED
    BY <2>1, <2>2, SetInduction, Zenon
<1> HIDE DEF Equation
<1>7. ItemStart(p) \in [Nat -> S]
  BY <1>4, <1>6 DEF Equation
<1> QED
  BY <1>5, <1>7 DEF S

LEMMA ItemIs ==
    ASSUME NEW p \in Seq(Bytes), NEW i \in Nat, HasSize(CropFrom(p, ItemStart(p)[i]))
    PROVE  LET rest == CropFrom(p, ItemStart(p)[i]) IN
           /\ rest \in Seq(Bytes) /\ Len(rest) = Len(p) - ItemStart(p)[i]
           /\ ActualSize(rest) \in Nat /\ ActualSize(rest) <= Len(rest)
           /\ ItemStart(p)[i + 1] = ItemStart(p)[i] + ActualSize(rest)
           /\ Item(p, i) = Crop(rest, 0, ActualSize(rest))
           /\ Item(p, i) \in Seq(Bytes)
           /\ Len(Item(p, i)) = ActualSize(rest)
<1> DEFINE at == ItemStart(p)[i]
           rest == CropFrom(p, at)
           size == ActualSize(rest)
<1>1. at \in 0 .. Len(p) /\ ItemStart(p)[i + 1] = Ahead(p, at)
  BY ItemStarts
<1>2. /\ rest \in Seq(Bytes) /\ Len(rest) = Len(p) - at
      /\ \A k \in 1 .. (Len(p) - at) : rest[k] = p[at + k]
  BY <1>1, CroppedFrom
<1>3. size \in Nat /\ size <= Len(rest)
  BY <1>2, Lengths DEF HasSize
<1>4. Ahead(p, at) = at + size
  BY DEF Ahead
<1>5. Item(p, i) = Crop(p, at, size)
  <2>1. (at + size) - at = size
    BY <1>1, <1>3
  <2> QED
    BY <1>1, <1>4, <2>1 DEF Item
<1> HIDE DEF at, rest, size
<1>0. at \in Nat /\ at + size <= Len(p) /\ 0 \in Nat /\ 0 + size <= Len(rest)
  BY <1>1, <1>2, <1>3
<1>6. /\ Crop(p, at, size) \in Seq(Bytes) /\ Len(Crop(p, at, size)) = size
      /\ \A k \in 1 .. size : Crop(p, at, size)[k] = p[at + k]
  BY <1>0, <1>3, CutThere DEF Cut
<1>7. /\ Crop(rest, 0, size) \in Seq(Bytes) /\ Len(Crop(rest, 0, size)) = size
      /\ \A k \in 1 .. size : Crop(rest, 0, size)[k] = rest[0 + k]
  BY <1>0, <1>2, <1>3, CutThere DEF Cut
<1>8. \A k \in 1 .. size : Crop(rest, 0, size)[k] = Crop(p, at, size)[k]
  <2> SUFFICES ASSUME NEW k \in 1 .. size PROVE Crop(rest, 0, size)[k] = Crop(p, at, size)[k]
    OBVIOUS
  <2>1. k \in 1 .. (Len(p) - at) /\ 0 + k = k
    BY <1>0, <1>1, <1>2, <1>3
  <2> QED
    BY <1>2, <1>6, <1>7, <2>1
<1>9. Crop(rest, 0, size) = Crop(p, at, size)
  BY <1>6, <1>7, <1>8, SameBytes
<1>10. /\ rest \in Seq(Bytes) /\ Len(rest) = Len(p) - at
       /\ size \in Nat /\ size <= Len(rest)
       /\ ItemStart(p)[i + 1] = at + size
       /\ Item(p, i) = Crop(rest, 0, size)
       /\ Item(p, i) \in Seq(Bytes)
       /\ Len(Item(p, i)) = size
  BY <1>1, <1>2, <1>3, <1>4, <1>5, <1>6, <1>9
<1> QED
  BY <1>10 DEF at, rest, size

LEMMA NothingHasSize == HasSize(<<>>) /\ ActualSize(<<>>) = 0
BY DEF HasSize, HasLength, ActualSize, IsNull

LEMMA PayloadIs ==
    ASSUME NEW d \in Seq(Bytes), HasPayload(d)
    PROVE  /\ Payload(d) \in Seq(Bytes)
           /\ PayloadOffset(d) \in Nat /\ Length(d) \in Nat
           /\ PayloadOffset(d) + Length(d) <= Len(d) =>
                 /\ Len(Payload(d)) = Length(d)
                 /\ \A k \in 1 .. Length(d) : Payload(d)[k] = d[PayloadOffset(d) + k]
           /\ PayloadOffset(d) + Length(d) > Len(d) => Payload(d) = <<>>
<1>1. PayloadOffset(d) \in Nat /\ Length(d) \in Nat
  BY Lengths DEF HasPayload
<1> QED
  BY <1>1, Cropped DEF Payload

LEMMA WholeFrom == ASSUME NEW p \in Seq(Bytes) PROVE CropFrom(p, 0) = p
<1>1. 0 \in 0 .. Len(p) /\ Len(p) - 0 = Len(p)
  OBVIOUS
<1>2. /\ CropFrom(p, 0) \in Seq(Bytes) /\ Len(CropFrom(p, 0)) = Len(p)
      /\ \A k \in 1 .. Len(p) : CropFrom(p, 0)[k] = p[0 + k]
  BY <1>1, CroppedFrom
<1> QED
  BY <1>2, SameBytes

LEMMA FirstItem ==
    ASSUME NEW p \in Seq(Bytes)
    PROVE  /\ HasItem(p, 0) <=> HasSize(p)
           /\ HasSize(p) => ItemStart(p)[1] = ActualSize(p) /\ Item(p, 0) = Crop(p, 0, ActualSize(p))
<1>1. ItemStart(p)[0] = 0 /\ CropFrom(p, 0) = p
  BY ItemStarts, WholeFrom
<1>2. HasItem(p, 0) <=> HasSize(p)
  BY <1>1 DEF HasItem
<1>3. ASSUME HasSize(p)
      PROVE  ItemStart(p)[1] = ActualSize(p) /\ Item(p, 0) = Crop(p, 0, ActualSize(p))
  <2>1. HasSize(CropFrom(p, ItemStart(p)[0]))
    BY <1>1, <1>3
  <2>2. /\ ItemStart(p)[0 + 1] = 0 + ActualSize(p) /\ ActualSize(p) \in Nat
        /\ Item(p, 0) = Crop(p, 0, ActualSize(p))
    BY <1>1, <2>1, ItemIs
  <2> QED
    BY <2>2
<1> QED
  BY <1>2, <1>3

LEMMA NextHasItem ==
    ASSUME NEW p \in Seq(Bytes), NEW i \in Nat
    PROVE  HasItem(p, i + 1) <=> HasItem(p, i) /\ HasSize(CropFrom(p, ItemStart(p)[i + 1]))
<1>1. 0 .. (i + 1) = (0 .. i) \union {i + 1}
  OBVIOUS
<1> QED
  BY <1>1 DEF HasItem

LEMMA EarlierItem ==
    ASSUME NEW p, NEW i \in Nat, NEW j \in 0 .. i, HasItem(p, i)
    PROVE  HasItem(p, j) /\ HasSize(CropFrom(p, ItemStart(p)[j]))
BY DEF HasItem

\* The bytes of an item are an item, as long as it says.
LEMMA ItemHasSize ==
    ASSUME NEW p \in Seq(Bytes), NEW i \in Nat, HasSize(CropFrom(p, ItemStart(p)[i]))
    PROVE  /\ HasSize(Item(p, i)) /\ ActualSize(Item(p, i)) = Len(Item(p, i))
           /\ Item(p, i) = <<>> <=> ItemStart(p)[i] = Len(p)
           /\ Item(p, i) = <<>> <=> ItemStart(p)[i + 1] = ItemStart(p)[i]
<1> DEFINE rest == CropFrom(p, ItemStart(p)[i])
           d == Item(p, i)
<1>1. /\ rest \in Seq(Bytes) /\ Len(rest) = Len(p) - ItemStart(p)[i]
      /\ ActualSize(rest) \in Nat /\ ActualSize(rest) <= Len(rest)
      /\ d = Crop(rest, 0, ActualSize(rest)) /\ d \in Seq(Bytes) /\ Len(d) = ActualSize(rest)
      /\ ItemStart(p)[i + 1] = ItemStart(p)[i] + ActualSize(rest)
  BY ItemIs
<1>2. HasLength(rest)
  BY DEF HasSize
<1>3. ItemStart(p)[i] \in 0 .. Len(p)
  BY ItemStarts
<1> HIDE DEF rest, d
<1>4. \A k \in 1 .. ActualSize(rest) : d[k] = rest[k]
  <2>1. 0 + ActualSize(rest) <= Len(rest) /\ 0 \in Nat
    BY <1>1
  <2>2. \A k \in 1 .. ActualSize(rest) : Crop(rest, 0, ActualSize(rest))[k] = rest[0 + k]
    <3>1. rest \in Seq(Bytes) /\ ActualSize(rest) \in Nat
      BY <1>1
    <3> QED
      BY <2>1, <3>1, CutThere DEF Cut
  <2> QED
    BY <1>1, <2>2
<1>5. CASE rest = <<>>
  <2>1. Len(rest) = 0 /\ ActualSize(rest) = 0 /\ d = <<>>
    BY <1>1, <1>5
  <2>2. HasSize(d) /\ ActualSize(d) = Len(d)
    BY <2>1, NothingHasSize
  <2>3. ItemStart(p)[i] = Len(p) /\ ItemStart(p)[i + 1] = ItemStart(p)[i]
    BY <1>1, <1>3, <2>1
  <2> QED
    BY <2>1, <2>2, <2>3 DEF d
<1>6. CASE rest # <<>>
  <2>1. ActualSize(rest) > 0 /\ Len(rest) > 0
    BY <1>1, <1>2, <1>6, Lengths
  <2>2. HasLength(d) /\ ActualSize(d) = ActualSize(rest)
    BY <1>1, <1>2, <1>4, <1>6, SameHead
  <2>3. d # <<>> /\ HasSize(d) /\ ActualSize(d) = Len(d)
    BY <1>1, <2>1, <2>2 DEF HasSize
  <2>4. ItemStart(p)[i] # Len(p) /\ ItemStart(p)[i + 1] # ItemStart(p)[i]
    BY <1>1, <1>3, <2>1
  <2> QED
    BY <2>3, <2>4 DEF d
<1> QED
  BY <1>5, <1>6

\* Past the last item there is nothing more, and no exception.
LEMMA PastEnd ==
    ASSUME NEW p \in Seq(Bytes), NEW i \in Nat, HasItem(p, i), Item(p, i) = <<>>,
           NEW j \in Nat, i <= j
    PROVE  HasItem(p, j) /\ Item(p, j) = <<>> /\ ItemStart(p)[j] = Len(p)
<1> DEFINE T == {k \in Nat : HasItem(p, i + k) /\ ItemStart(p)[i + k] = Len(p)}
<1>1. 0 \in T
  <2>1. HasSize(CropFrom(p, ItemStart(p)[i]))
    BY EarlierItem
  <2>2. ItemStart(p)[i] = Len(p)
    BY <2>1, ItemHasSize
  <2>3. i + 0 = i
    OBVIOUS
  <2> QED
    BY <2>2, <2>3
<1>2. ASSUME NEW k \in Nat, k \in T PROVE k + 1 \in T
  <2> DEFINE m == i + k
  <2>1. m \in Nat /\ HasItem(p, m) /\ ItemStart(p)[m] = Len(p) /\ i + (k + 1) = m + 1
    BY <1>2
  <2> HIDE DEF m
  <2>2. HasSize(CropFrom(p, ItemStart(p)[m]))
    BY <2>1, EarlierItem
  <2>3. ItemStart(p)[m + 1] = ItemStart(p)[m]
    BY <2>1, <2>2, ItemHasSize
  <2>4. HasItem(p, m + 1)
    BY <2>1, <2>2, <2>3, NextHasItem
  <2> QED
    BY <2>1, <2>3, <2>4
<1> HIDE DEF T
<1>3. j - i \in T
  <2>1. Nat \subseteq T
    BY <1>1, <1>2, SetInduction, Zenon
  <2> QED
    BY <2>1
<1>4. HasItem(p, j) /\ ItemStart(p)[j] = Len(p)
  <2>1. i + (j - i) = j
    OBVIOUS
  <2> QED
    BY <1>3, <2>1 DEF T
<1>5. HasSize(CropFrom(p, ItemStart(p)[j]))
  BY <1>4, EarlierItem
<1> QED
  BY <1>4, <1>5, ItemHasSize

-----------------------------------------------------------------------------
(* ReadersAgree: what operator[] keeps, what it answered, and where a loop is. *)

ReaderTypes ==
    /\ rlp \in [bytes : Seq(Bytes), flags : SUBSET Flags]
    /\ lastIndex \in 0 .. NoIndex /\ lastEnd \in Nat /\ lastItem \in Seq(Bytes)
    /\ reading \in {"none", "index", "loop"} /\ index \in 0 .. (NoIndex - 1)
    /\ answer \in [index : 0 .. NoIndex, ok : BOOLEAN, item : Seq(Bytes)]
    /\ threw \in BOOLEAN
    /\ rlp = Unread => reading = "none"

There(d, i) == HasPayload(d) /\ HasItem(Payload(d), i)

\* The item that is kept is the one of its index, and the end kept is its end; a call that
\* threw left what comes after it instead.
Cached ==
    lastIndex # NoIndex =>
        LET p == Payload(rlp.bytes) IN
        /\ There(rlp.bytes, lastIndex)
        /\ lastEnd = ItemStart(p)[lastIndex + 1]
        /\ \/ lastItem = Item(p, lastIndex)
           \/ /\ lastItem = CropFrom(p, lastEnd) /\ ~ HasSize(lastItem)
              /\ threw \/ (reading # "index" /\ ~ answer.ok)

\* Within operator[] the index kept has not passed the one that is asked for.
Asking == reading = "index" => lastIndex # NoIndex /\ lastIndex <= index

Answers ==
    answer # NoAnswer =>
        /\ answer.index < NoIndex
        /\ IF answer.ok THEN There(rlp.bytes, answer.index) /\ answer.item = Item(Payload(rlp.bytes), answer.index)
                        ELSE There(rlp.bytes, answer.index) => threw

\* A loop has had the first items and is at the next one, or after the last.
At(d, n) ==
    LET s == ItemStart(Payload(d)) IN
    [at |-> PayloadOffset(d) + s[n], size |-> s[n + 1] - s[n], remaining |-> Len(Payload(d)) - s[n + 1]]
Had(d, v) ==
    LET s == ItemStart(Payload(d)) IN
    /\ Len(v) <= s[Len(v)]
    /\ \A k \in 1 .. Len(v) :
           /\ HasItem(Payload(d), k - 1) /\ v[k] = Item(Payload(d), k - 1)
           /\ s[k - 1] < s[k]
Looping ==
    reading = "loop" =>
        IF ~ IsList(rlp.bytes) THEN iterator = EndIterator /\ visited = <<>>
        ELSE /\ HasPayload(rlp.bytes)
             /\ \/ iterator = Nowhere /\ visited = <<>>
                \/ /\ PayloadOffset(rlp.bytes) + Length(rlp.bytes) <= Len(rlp.bytes)
                   /\ visited \in Seq(Seq(Bytes)) /\ There(rlp.bytes, Len(visited))
                   /\ iterator = At(rlp.bytes, Len(visited))
                   /\ Had(rlp.bytes, visited)

RInv == ReaderTypes /\ Cached /\ Asking /\ Answers /\ Looping

\* IndexFinds and LoopFinds follow.
LEMMA StrictlyFurther ==
    ASSUME NEW d \in Seq(Bytes), NEW v \in Seq(Seq(Bytes)), Payload(d) \in Seq(Bytes), Had(d, v),
           NEW m \in Nat, m < Len(v)
    PROVE  ItemStart(Payload(d))[m] < ItemStart(Payload(d))[Len(v)]
<1> DEFINE s == ItemStart(Payload(d))
           T == {k \in Nat : k < Len(v) => s[m] < s[k + 1] \/ k < m}
<1>0. Len(v) \in Nat /\ \A k \in Nat : s[k] \in Nat
  <2>1. s \in [Nat -> 0 .. Len(Payload(d))]
    BY ItemStarts
  <2>2. Len(Payload(d)) \in Nat /\ Len(v) \in Nat
    OBVIOUS
  <2> HIDE DEF s
  <2>3. ASSUME NEW k \in Nat PROVE s[k] \in Nat
    <3>1. s[k] \in 0 .. Len(Payload(d))
      BY <2>1
    <3> QED
      BY <2>2, <3>1
  <2> QED
    BY <2>2, <2>3
<1>1. \A k \in 1 .. Len(v) : s[k - 1] < s[k]
  BY DEF Had
<1> HIDE DEF s
<1>2. 0 \in T
  <2>1. CASE m = 0
    <3>1. 1 \in 1 .. Len(v) /\ 1 - 1 = 0
      BY <1>0, <2>1
    <3>2. s[0] < s[1]
      BY <1>1, <3>1
    <3> QED
      BY <2>1, <3>2
  <2>2. CASE m > 0
    BY <2>2
  <2> QED
    BY <2>1, <2>2
<1>3. ASSUME NEW k \in Nat, k \in T PROVE k + 1 \in T
  <2>1. ASSUME k + 1 < Len(v), ~ (k + 1 < m) PROVE s[m] < s[(k + 1) + 1]
    <3>1. k + 2 \in 1 .. Len(v) /\ (k + 2) - 1 = k + 1 /\ (k + 1) + 1 = k + 2
      BY <1>0, <2>1
    <3>2. s[k + 1] < s[k + 2]
      BY <1>1, <3>1
    <3>3. s[k + 1] \in Nat /\ s[k + 2] \in Nat /\ s[m] \in Nat
      BY <1>0
    <3>4. CASE m = k + 1
      BY <3>1, <3>2, <3>4
    <3>5. CASE m # k + 1
      <4>1. s[m] < s[k + 1]
        BY <1>0, <1>3, <2>1, <3>5
      <4> QED
        BY <3>1, <3>2, <3>3, <4>1
    <3> QED
      BY <3>4, <3>5
  <2> QED
    BY <2>1
<1> HIDE DEF T
<1>4. Len(v) - 1 \in T
  <2>1. Nat \subseteq T
    BY <1>2, <1>3, SetInduction, Zenon
  <2> QED
    BY <1>0, <2>1
<1>5. s[m] < s[(Len(v) - 1) + 1]
  BY <1>0, <1>4 DEF T
<1>6. (Len(v) - 1) + 1 = Len(v)
  BY <1>0
<1> QED
  BY <1>5, <1>6 DEF s

LEMMA InvariantAgrees == RInv => ReadersAgree
<1> SUFFICES ASSUME RInv PROVE ReadersAgree
  OBVIOUS
<1> DEFINE d == rlp.bytes
           p == Payload(d)
           s == ItemStart(p)
<1>1. d \in Seq(Bytes)
  BY DEF RInv, ReaderTypes
<1>2. IndexFinds
  BY DEF RInv, Answers, There, IndexFinds
<1>3. ASSUME reading = "loop", IsList(d)
      PROVE  /\ \A k \in DOMAIN visited : HasItem(p, k - 1) /\ visited[k] = Item(p, k - 1)
             /\ SamePlace(iterator, EndIterator) => HasItems(p) /\ Len(visited) = ItemCount(p)
  <2>1. HasPayload(d) /\ p \in Seq(Bytes) /\ PayloadOffset(d) \in Nat /\ Length(d) \in Nat
    BY <1>1, <1>3, PayloadIs DEF RInv, Looping
  <2>2. CASE iterator = Nowhere /\ visited = <<>>
    <3>1. iterator.at = -1 /\ EndIterator.at = Len(d)
      BY <2>2 DEF Nowhere, EndIterator
    <3>2. ~ SamePlace(iterator, EndIterator)
      BY <1>1, <3>1 DEF SamePlace
    <3> QED
      BY <2>2, <3>2
  <2>3. CASE /\ PayloadOffset(d) + Length(d) <= Len(d)
             /\ visited \in Seq(Seq(Bytes)) /\ There(d, Len(visited))
             /\ iterator = At(d, Len(visited))
             /\ Had(d, visited)
    <3> DEFINE n == Len(visited)
    <3>1. n \in Nat /\ DOMAIN visited = 1 .. n
      BY <2>3
    <3>2. \A k \in DOMAIN visited : HasItem(p, k - 1) /\ visited[k] = Item(p, k - 1)
      BY <2>3, <3>1 DEF Had
    <3>3. ASSUME SamePlace(iterator, EndIterator) PROVE HasItems(p) /\ n = ItemCount(p)
      <4>1. s \in [Nat -> 0 .. Len(p)]
        BY <2>1, ItemStarts
      <4>2. iterator.size = 0 /\ iterator.size = s[n + 1] - s[n]
        <5>1. iterator.size = EndIterator.size /\ EndIterator.size = 0
          BY <3>3 DEF SamePlace, EndIterator
        <5>2. At(d, n).size = s[n + 1] - s[n]
          BY DEF At
        <5>3. iterator.size = At(d, n).size
          BY <2>3, Zenon
        <5>4. iterator.size = 0
          BY <5>1, Zenon
        <5>5. iterator.size = s[n + 1] - s[n]
          BY <5>2, <5>3
        <5> QED
          BY <5>4, <5>5, Zenon
      <4>3. s[n + 1] = s[n]
        <5>1. Len(p) \in Nat /\ n \in Nat /\ n + 1 \in Nat
          BY <2>1, <3>1
        <5>2. s[n] \in 0 .. Len(p) /\ s[n + 1] \in 0 .. Len(p)
          BY <4>1, <5>1
        <5>3. s[n + 1] - s[n] = 0
          BY <4>2
        <5> HIDE DEF s, p, n
        <5> QED
          BY <5>1, <5>2, <5>3
      <4>4. HasItem(p, n) /\ HasSize(CropFrom(p, s[n]))
        BY <2>3, <3>1, EarlierItem DEF There
      <4>5. s[n] = Len(p)
        BY <2>1, <3>1, <4>3, <4>4, ItemHasSize
      <4>6. n \in Ends(p)
        BY <2>1, <2>3, <3>1, <4>5 DEF Ends, Had
      <4>7. ASSUME NEW m \in Ends(p) PROVE n <= m
        <5>1. m \in Nat /\ s[m] = Len(p)
          BY <2>1 DEF Ends
        <5>2. m < n => s[m] < s[n]
          BY <1>1, <2>1, <2>3, <5>1, StrictlyFurther
        <5>3. Len(p) \in Nat
          BY <2>1
        <5> QED
          BY <3>1, <4>5, <5>1, <5>2, <5>3
      <4>8. Ends(p) \subseteq Nat
        BY <2>1 DEF Ends
      <4>9. Min(Ends(p)) = n
        BY <3>1, <4>6, <4>7, <4>8 DEF Min
      <4> QED
        BY <4>6, <4>9 DEF HasItems, ItemCount
    <3> QED
      BY <3>2, <3>3
  <2> QED
    BY <1>3, <2>2, <2>3 DEF RInv, Looping
<1>4. LoopFinds
  BY <1>3 DEF LoopFinds
<1> QED
  BY <1>2, <1>4 DEF ReadersAgree

\* An iterator at an item that is there: its bytes, and what ++ makes of it.
LEMMA LoopGoesOn ==
    ASSUME NEW d \in Seq(Bytes), HasPayload(d), PayloadOffset(d) + Length(d) <= Len(d),
           NEW v \in Seq(Seq(Bytes)), There(d, Len(v)), Had(d, v)
    PROVE  LET n == Len(v)
               i == At(d, n)
               rest == Crop(d, i.at + i.size, i.remaining)
               more == Append(v, Crop(d, i.at, i.size))
           IN  /\ i.at \in Nat /\ i.size \in Nat /\ i.remaining \in Nat
               /\ i.size = 0 => i.remaining = 0 /\ Moved(i, 0) = i
               /\ i.size # 0 /\ i.remaining = 0 =>
                     There(d, n + 1) /\ Moved(i, 0) = At(d, n + 1) /\ Had(d, more)
               /\ i.remaining # 0 /\ HasSize(rest) =>
                     There(d, n + 1) /\ Moved(i, ActualSize(rest)) = At(d, n + 1) /\ Had(d, more)
<1> DEFINE n == Len(v)
           p == Payload(d)
           s == ItemStart(p)
           a == s[n]
           b == s[n + 1]
           size == Len(p)
           off == PayloadOffset(d)
           i == At(d, n)
           rest == Crop(d, i.at + i.size, i.remaining)
           item == Crop(d, i.at, i.size)
           more == Append(v, item)
<1>1. p \in Seq(Bytes) /\ off \in Nat /\ n \in Nat /\ Len(d) \in Nat /\ size \in Nat
  BY PayloadIs
<1>2. off + size <= Len(d) /\ \A k \in 1 .. size : p[k] = d[off + k]
  <2>1. size = Length(d) /\ \A k \in 1 .. Length(d) : p[k] = d[off + k]
    BY PayloadIs
  <2> QED
    BY <2>1
<1>3. i.at = off + a /\ i.size = b - a /\ i.remaining = size - b
  BY DEF At
<1>4. /\ HasItem(p, n) /\ HasSize(CropFrom(p, a))
      /\ n <= a
  BY <1>1, EarlierItem DEF There, Had
<1>5. b = a + Len(Item(p, n)) /\ Item(p, n) \in Seq(Bytes)
  <2>1. /\ b = a + ActualSize(CropFrom(p, a))
        /\ Len(Item(p, n)) = ActualSize(CropFrom(p, a)) /\ Item(p, n) \in Seq(Bytes)
    BY <1>1, <1>4, ItemIs
  <2> QED
    BY <2>1
<1>6. Item(p, n) = <<>> <=> a = size
  BY <1>1, <1>4, ItemHasSize
<1>7. /\ a \in 0 .. size /\ b \in 0 .. size
      /\ s[(n + 1) + 1] \in 0 .. size
      /\ n + 1 \in Nat
  <2>1. n + 1 \in Nat /\ (n + 1) + 1 \in Nat
    BY <1>1
  <2>2. s \in [Nat -> 0 .. size]
    BY <1>1, ItemStarts
  <2> HIDE DEF n, s, p, size
  <2> QED
    BY <1>1, <2>1, <2>2
<1> HIDE DEF i, n, p, off
<1>8. a \in Nat /\ b \in Nat /\ a <= b /\ b <= size
  <2>1. Len(Item(p, n)) \in Nat
    BY <1>5
  <2> HIDE DEF a, b, size
  <2> QED
    BY <1>1, <1>5, <1>7, <2>1
<1>9. a = b => a = size
  <2>1. Len(Item(p, n)) \in Nat /\ (Len(Item(p, n)) = 0 => Item(p, n) = <<>>)
    BY <1>5
  <2> HIDE DEF a, b, size
  <2> QED
    BY <1>5, <1>6, <1>8, <2>1
<1> HIDE DEF a, b, size
<1>10. /\ i.at \in Nat /\ i.size \in Nat /\ i.remaining \in Nat
       /\ i.at + i.size = off + b
  BY <1>1, <1>3, <1>8
<1>11. item = Item(p, n)
  <2>1. Item(p, n) = Crop(p, a, i.size)
    BY <1>3 DEF Item, s, a, b
  <2>2. a + i.size <= size /\ i.at + i.size <= Len(d)
    BY <1>1, <1>2, <1>3, <1>8
  <2>3. /\ Crop(p, a, i.size) \in Seq(Bytes) /\ Len(Crop(p, a, i.size)) = i.size
        /\ \A k \in 1 .. i.size : Crop(p, a, i.size)[k] = p[a + k]
    <3>1. a + i.size <= Len(p)
      BY <2>2 DEF size
    <3>2. p \in Seq(Bytes) /\ a \in Nat /\ i.size \in Nat
      BY <1>1, <1>8, <1>10
    <3> QED
      BY <3>1, <3>2, CutThere DEF Cut
  <2>4. /\ item \in Seq(Bytes) /\ Len(item) = i.size
        /\ \A k \in 1 .. i.size : item[k] = d[i.at + k]
    BY <1>10, <2>2, CutThere DEF Cut
  <2> HIDE DEF item
  <2>5. ASSUME NEW k \in 1 .. i.size PROVE Crop(p, a, i.size)[k] = item[k]
    <3>1. a + k \in 1 .. size /\ off + (a + k) = i.at + k
      BY <1>1, <1>3, <1>8, <1>10, <2>2
    <3> QED
      BY <1>2, <2>3, <2>4, <3>1
  <2>6. Crop(p, a, i.size) = item
    BY <2>3, <2>4, <2>5, SameBytes
  <2> QED
    BY <2>1, <2>6
<1> HIDE DEF item
<1>12. rest = CropFrom(p, b)
  <2>1. (i.at + i.size) + i.remaining <= Len(d) /\ i.at + i.size \in Nat
    BY <1>1, <1>2, <1>3, <1>8, <1>10
  <2>2. /\ rest \in Seq(Bytes) /\ Len(rest) = i.remaining
        /\ \A k \in 1 .. i.remaining : rest[k] = d[(i.at + i.size) + k]
    BY <1>10, <2>1, CutThere DEF Cut
  <2>3. b \in 0 .. Len(p) /\ Len(p) - b = i.remaining
    BY <1>3, <1>7 DEF size
  <2>4. /\ CropFrom(p, b) \in Seq(Bytes) /\ Len(CropFrom(p, b)) = i.remaining
        /\ \A k \in 1 .. i.remaining : CropFrom(p, b)[k] = p[b + k]
    BY <1>1, <2>3, CroppedFrom
  <2> HIDE DEF rest
  <2>5. ASSUME NEW k \in 1 .. i.remaining PROVE rest[k] = CropFrom(p, b)[k]
    <3>1. b + k \in 1 .. size /\ off + (b + k) = (i.at + i.size) + k
      BY <1>1, <1>3, <1>8, <1>10
    <3> QED
      BY <1>2, <2>2, <2>4, <3>1
  <2> QED
    BY <2>2, <2>4, <2>5, SameBytes
<1> HIDE DEF rest
<1>13. ASSUME i.size # 0 PROVE Had(d, more)
  <2>1. a < b /\ n + 1 <= b
    BY <1>1, <1>3, <1>4, <1>8, <1>13
  <2>2. /\ more \in Seq(Seq(Bytes)) /\ Len(more) = n + 1 /\ more[n + 1] = Item(p, n)
        /\ \A k \in 1 .. n : more[k] = v[k]
    BY <1>5, <1>11 DEF n
  <2> HIDE DEF more
  <2>3. ASSUME NEW k \in 1 .. (n + 1)
        PROVE  HasItem(p, k - 1) /\ more[k] = Item(p, k - 1) /\ s[k - 1] < s[k]
    <3>1. CASE k = n + 1
      <4>1. k - 1 = n
        BY <1>1, <3>1
      <4> QED
        BY <1>4, <2>1, <2>2, <3>1, <4>1 DEF a, b
    <3>2. CASE k # n + 1
      <4>1. k \in 1 .. n
        BY <1>1, <3>2
      <4>2. HasItem(p, k - 1) /\ v[k] = Item(p, k - 1) /\ s[k - 1] < s[k]
        BY <4>1 DEF Had, n, p
      <4> QED
        BY <2>2, <4>1, <4>2
    <3> QED
      BY <3>1, <3>2
  <2>4. Len(more) <= s[Len(more)]
    BY <2>1, <2>2 DEF b
  <2> HIDE DEF s
  <2>5. \A k \in 1 .. Len(more) : HasItem(p, k - 1) /\ more[k] = Item(p, k - 1) /\ s[k - 1] < s[k]
    BY <2>2, <2>3
  <2> QED
    BY <2>4, <2>5, Zenon DEF Had, p, s
<1>14. ASSUME HasSize(CropFrom(p, b))
       PROVE  /\ There(d, n + 1)
              /\ Moved(i, ActualSize(CropFrom(p, b))) = At(d, n + 1)
  <2>1. HasItem(p, n + 1)
    BY <1>1, <1>4, <1>14, NextHasItem DEF b
  <2> DEFINE m == ActualSize(CropFrom(p, b))
             c == s[(n + 1) + 1]
  <2>2. c = b + m /\ m \in Nat
    BY <1>1, <1>7, <1>14, ItemIs DEF b
  <2>3. At(d, n + 1) = [at |-> off + b, size |-> c - b, remaining |-> size - c]
    BY DEF At, off, p, b, size
  <2>4. c \in Nat
    BY <1>1, <1>7
  <2> HIDE DEF m, c
  <2>5. i.at + i.size = off + b /\ m = c - b /\ i.remaining - m = size - c
    BY <1>1, <1>3, <1>8, <1>10, <2>2, <2>4
  <2>6. Moved(i, m) = At(d, n + 1)
    BY <2>3, <2>5 DEF Moved
  <2> QED
    BY <2>1, <2>6 DEF There, p, m
<1>15. ASSUME i.remaining = 0
       PROVE  HasSize(CropFrom(p, b)) /\ ActualSize(CropFrom(p, b)) = 0
  <2>1. b \in 0 .. Len(p) /\ Len(p) - b = 0
    BY <1>1, <1>3, <1>8, <1>15 DEF size
  <2>2. CropFrom(p, b) \in Seq(Bytes) /\ Len(CropFrom(p, b)) = 0
    BY <1>1, <2>1, CroppedFrom
  <2>3. CropFrom(p, b) = <<>>
    BY <2>2
  <2> QED
    BY <2>3, NothingHasSize
<1>16. ASSUME i.size = 0 PROVE i.remaining = 0 /\ Moved(i, 0) = i
  <2>1. a = b /\ a = size
    BY <1>3, <1>8, <1>9, <1>16
  <2>2. i.remaining = 0
    BY <1>1, <1>3, <2>1
  <2>3. i = [at |-> i.at, size |-> i.size, remaining |-> i.remaining]
    BY DEF i, At
  <2>4. i.at + i.size = i.at /\ i.remaining - 0 = i.remaining
    BY <1>10, <1>16
  <2>5. Moved(i, 0) = [at |-> i.at, size |-> 0, remaining |-> i.remaining]
    BY <2>4 DEF Moved
  <2> QED
    BY <1>16, <2>2, <2>3, <2>5
<1>17. /\ i.at \in Nat /\ i.size \in Nat /\ i.remaining \in Nat
       /\ i.size = 0 => i.remaining = 0 /\ Moved(i, 0) = i
       /\ i.size # 0 /\ i.remaining = 0 =>
             There(d, n + 1) /\ Moved(i, 0) = At(d, n + 1) /\ Had(d, more)
       /\ i.remaining # 0 /\ HasSize(rest) =>
             There(d, n + 1) /\ Moved(i, ActualSize(rest)) = At(d, n + 1) /\ Had(d, more)
  <2> HIDE DEF more
  <2>1. CASE i.size = 0
    BY <1>10, <1>16, <2>1
  <2>2. CASE i.size # 0 /\ i.remaining = 0
    BY <1>10, <1>13, <1>14, <1>15, <2>2
  <2>3. CASE i.size # 0 /\ i.remaining # 0
    BY <1>10, <1>12, <1>13, <1>14, <2>3
  <2> QED
    BY <2>1, <2>2, <2>3
<1> QED
  BY <1>17 DEF n, i, rest, item

-----------------------------------------------------------------------------
(* Every step of a reader keeps the invariant. *)

LEMMA Indexed == NoIndex \in Nat /\ NoIndex > 0
BY PowerType, Parameters, RlpAssumption DEF NoIndex, MaxSize

LEMMA ReaderStarts == ReaderInit => RInv
<1> SUFFICES ASSUME ReaderInit PROVE RInv
  OBVIOUS
<1>1. Unread \in [bytes : Seq(Bytes), flags : SUBSET Flags] /\ <<>> \in Seq(Bytes)
  BY DEF Unread
<1>2. NoIndex \in 0 .. NoIndex /\ 0 \in 0 .. (NoIndex - 1)
  BY Indexed
<1>3. NoAnswer \in [index : 0 .. NoIndex, ok : BOOLEAN, item : Seq(Bytes)]
  BY <1>1, <1>2 DEF NoAnswer
<1>4. ReaderTypes
  BY <1>1, <1>2, <1>3 DEF ReaderInit, ReaderTypes
<1> QED
  BY <1>4 DEF ReaderInit, RInv, Cached, Asking, Answers, Looping

LEMMA ConstructedKeeps ==
    ASSUME NEW input \in [bytes : Seq(Bytes), flags : SUBSET Flags], reading = "none", Constructed(input)
    PROVE  RInv'
<1>1. <<>> \in Seq(Bytes) /\ NoIndex \in 0 .. NoIndex /\ 0 \in 0 .. (NoIndex - 1)
  BY Indexed
<1>2. NoAnswer \in [index : 0 .. NoIndex, ok : BOOLEAN, item : Seq(Bytes)]
  BY <1>1 DEF NoAnswer
<1>3. ReaderTypes'
  BY <1>1, <1>2 DEF Constructed, ReaderTypes
<1> QED
  BY <1>3 DEF Constructed, RInv, Cached, Asking, Answers, Looping

LEMMA ConstructKeeps ==
    ASSUME RInv, NEW input \in [bytes : Seq(Bytes), flags : SUBSET Flags], Construct(input)
    PROVE  RInv'
<1> DEFINE opened_ == [input EXCEPT !.bytes = Opened(@, input.flags)]
<1>1. opened_ \in [bytes : Seq(Bytes), flags : SUBSET Flags]
  <2>1. Opened(input.bytes, input.flags) \in Seq(Bytes)
    BY DEF Opened
  <2> QED
    BY <2>1
<1>2. reading = "none" /\ Constructed(opened_)
  BY DEF RInv, ReaderTypes, Construct
<1> HIDE DEF opened_
<1> QED
  BY <1>1, <1>2, ConstructedKeeps

LEMMA DropKeeps == ASSUME RInv, Drop PROVE RInv'
<1>1. Unread \in [bytes : Seq(Bytes), flags : SUBSET Flags]
  BY DEF Unread
<1> QED
  BY <1>1, ConstructedKeeps DEF Drop

LEMMA SubscriptKeeps ==
    ASSUME RInv, NEW i \in Indices, Subscript(i)
    PROVE  RInv'
<1> DEFINE d == rlp.bytes
           p == Payload(d)
<1>1. /\ d \in Seq(Bytes) /\ i \in 0 .. (NoIndex - 1)
      /\ reading = "none" /\ rlp # Unread
      /\ rlp' = rlp /\ index' = i /\ threw' = (threw \/ ~ answer.ok)
  BY ReaderAssumption DEF RInv, ReaderTypes, Subscript, NoIndex
<1>2. ASSUME UNCHANGED cache PROVE Cached'
  <2>1. lastIndex' = lastIndex /\ lastEnd' = lastEnd /\ lastItem' = lastItem
    BY <1>2 DEF cache
  <2> QED
    BY <1>1, <2>1 DEF RInv, Cached
<1>3. ASSUME UNCHANGED answer PROVE Answers'
  BY <1>1, <1>3 DEF RInv, Answers
<1>4. CASE i >= lastIndex
  <2>1. reading' = "index" /\ UNCHANGED <<cache, answer>>
    BY <1>4 DEF Subscript
  <2>2. ReaderTypes'
    BY <1>1, <2>1 DEF RInv, ReaderTypes, cache
  <2>3. Asking'
    BY <1>1, <1>4, <2>1, Indexed DEF RInv, ReaderTypes, Asking, cache
  <2> QED
    BY <1>2, <1>3, <2>1, <2>2, <2>3 DEF RInv, Looping
<1>5. CASE i < lastIndex /\ HasPayload(d) /\ HasSize(p)
  <2>1. /\ lastEnd' = ActualSize(p) /\ lastItem' = Crop(p, 0, ActualSize(p)) /\ lastIndex' = 0
        /\ reading' = "index" /\ UNCHANGED answer
    BY <1>1, <1>5 DEF Subscript, RInv, ReaderTypes
  <2>2. p \in Seq(Bytes) /\ ActualSize(p) \in Nat
    BY <1>1, <1>5, PayloadIs, Lengths DEF HasSize
  <2>3. Crop(p, 0, ActualSize(p)) \in Seq(Bytes)
    BY <2>2, Cropped
  <2>4. ReaderTypes'
    BY <1>1, <2>1, <2>2, <2>3, Indexed DEF RInv, ReaderTypes
  <2>5. Cached'
    <3>1. There(d, 0) /\ ItemStart(p)[1] = ActualSize(p) /\ Item(p, 0) = Crop(p, 0, ActualSize(p))
      BY <1>5, <2>2, FirstItem DEF There
    <3>2. 0 + 1 = 1
      OBVIOUS
    <3> QED
      BY <1>1, <2>1, <3>1, <3>2 DEF Cached
  <2>6. Asking'
    BY <1>1, <2>1, Indexed DEF Asking
  <2> QED
    BY <1>3, <2>1, <2>4, <2>5, <2>6 DEF RInv, Looping
<1>6. CASE i < lastIndex /\ ~ (HasPayload(d) /\ HasSize(p))
  <2>1. answer' = [index |-> i, ok |-> FALSE, item |-> <<>>] /\ UNCHANGED <<cache, reading>>
    BY <1>1, <1>6 DEF Subscript, Throws, RInv, ReaderTypes
  <2>2. ReaderTypes'
    BY <1>1, <2>1, Indexed DEF RInv, ReaderTypes, cache
  <2>3. ~ There(d, i)
    <3>1. ASSUME There(d, i) PROVE FALSE
      <4>1. HasPayload(d) /\ HasItem(p, i) /\ p \in Seq(Bytes) /\ i \in Nat /\ 0 \in 0 .. i
        BY <1>1, <3>1, PayloadIs, Indexed DEF There
      <4>2. HasItem(p, 0)
        BY <4>1, EarlierItem
      <4> QED
        BY <1>6, <4>1, <4>2, FirstItem
    <3> QED
      BY <3>1
  <2>4. Answers'
    BY <1>1, <2>1, <2>3, Indexed DEF Answers
  <2> QED
    BY <1>1, <1>2, <2>1, <2>2, <2>4 DEF RInv, Asking, Looping
<1>7. i >= lastIndex \/ i < lastIndex
  BY <1>1, Indexed DEF RInv, ReaderTypes
<1> QED
  BY <1>4, <1>5, <1>6, <1>7

LEMMA NextItemKeeps == ASSUME RInv, NextItem PROVE RInv'
<1> DEFINE d == rlp.bytes
           p == Payload(d)
           rest == CropFrom(p, lastEnd)
           next == lastIndex + 1
<1>1. /\ d \in Seq(Bytes)
      /\ reading = "index" /\ lastIndex < index
      /\ rlp' = rlp /\ index' = index /\ threw' = threw
      /\ visited' = visited /\ iterator' = iterator
  BY DEF RInv, ReaderTypes, NextItem
<1>2. lastIndex \in Nat /\ index \in Nat /\ index < NoIndex /\ lastIndex # NoIndex /\ NoIndex \in Nat
  BY <1>1, Indexed DEF RInv, ReaderTypes, Asking
<1>3. There(d, lastIndex) /\ lastEnd = ItemStart(p)[next]
  BY <1>2 DEF RInv, Cached
<1>4. p \in Seq(Bytes) /\ next \in Nat /\ HasItem(p, lastIndex)
  BY <1>1, <1>2, <1>3, PayloadIs DEF There
<1>5. CASE HasSize(rest)
  <2>1. /\ lastItem' = Crop(rest, 0, ActualSize(rest))
        /\ lastEnd' = lastEnd + ActualSize(rest)
        /\ lastIndex' = next
        /\ reading' = reading /\ answer' = answer
    BY <1>5 DEF NextItem
  <2>2. HasSize(CropFrom(p, ItemStart(p)[next]))
    BY <1>3, <1>5
  <2>3. /\ ItemStart(p)[next + 1] = lastEnd + ActualSize(rest)
        /\ Item(p, next) = Crop(rest, 0, ActualSize(rest)) /\ Item(p, next) \in Seq(Bytes)
    <3>1. next \in Nat /\ p \in Seq(Bytes)
      BY <1>3, <1>4
    <3> QED
      BY <1>3, <1>4, <2>2, <3>1, ItemIs
  <2>4. There(d, next)
    BY <1>2, <1>3, <1>4, <2>2, NextHasItem DEF There
  <2>5. ItemStart(p)[next + 1] \in Nat
    <3>1. next + 1 \in Nat
      BY <1>4
    <3> HIDE DEF p, next
    <3>2. ItemStart(p)[next + 1] \in 0 .. Len(p)
      BY <1>4, <3>1, ItemStarts, Zenon
    <3> QED
      BY <3>2
  <2>6. ReaderTypes'
    <3>1. /\ lastEnd' \in Nat /\ lastItem' \in Seq(Bytes) /\ lastIndex' \in 0 .. NoIndex
          /\ answer' = answer /\ reading' = reading
      <4>1. next \in 0 .. NoIndex
        BY <1>1, <1>2
      <4>2. lastEnd' = ItemStart(p)[next + 1] /\ lastItem' = Item(p, next)
        BY <2>1, <2>3
      <4> HIDE DEF d, p, rest, next
      <4> QED
        BY <2>1, <2>3, <2>5, <4>1, <4>2, Zenon
    <3>2. ReaderTypes
      BY DEF RInv
    <3> HIDE DEF d, p, rest, next
    <3> QED
      BY <1>1, <3>1, <3>2, Zenon DEF ReaderTypes
  <2>7. Cached'
    BY <1>1, <2>1, <2>3, <2>4 DEF Cached
  <2>8. Asking'
    BY <1>1, <1>2, <2>1 DEF Asking
  <2>9. Answers'
    BY <1>1, <2>1 DEF RInv, Answers
  <2> QED
    BY <1>1, <2>1, <2>6, <2>7, <2>8, <2>9 DEF RInv, Looping
<1>6. CASE ~ HasSize(rest)
  <2>1. /\ lastItem' = rest /\ reading' = "none"
        /\ answer' = [index |-> index, ok |-> FALSE, item |-> <<>>]
        /\ lastIndex' = lastIndex /\ lastEnd' = lastEnd
    BY <1>6 DEF NextItem, Throws
  <2>2. rest \in Seq(Bytes)
    BY <1>3, <1>4, ItemStarts, CroppedFrom
  <2>3. ReaderTypes'
    BY <1>1, <1>2, <2>1, <2>2 DEF RInv, ReaderTypes
  <2>4. Cached'
    BY <1>1, <1>3, <1>6, <2>1 DEF Cached
  <2>5. ASSUME There(d, index) PROVE FALSE
    <3>1. HasItem(p, index) /\ next \in 0 .. index
      BY <1>1, <1>2, <1>4, <2>5 DEF There
    <3>2. HasSize(CropFrom(p, ItemStart(p)[next]))
      BY <1>2, <3>1, EarlierItem
    <3> QED
      BY <1>3, <1>6, <3>2
  <2>6. Answers'
    BY <1>1, <1>2, <2>1, <2>5 DEF Answers
  <2> QED
    BY <2>1, <2>3, <2>4, <2>6 DEF RInv, Asking, Looping
<1> QED
  BY <1>5, <1>6

LEMMA ReturnItemKeeps == ASSUME RInv, ReturnItem PROVE RInv'
<1> DEFINE d == rlp.bytes
           p == Payload(d)
<1>1. /\ d \in Seq(Bytes) /\ lastItem \in Seq(Bytes)
      /\ reading = "index" /\ (lastIndex < index => lastItem = <<>>)
      /\ reading' = "none" /\ rlp' = rlp /\ index' = index /\ threw' = threw
      /\ lastIndex' = lastIndex /\ lastEnd' = lastEnd /\ lastItem' = lastItem
      /\ visited' = visited /\ iterator' = iterator
  BY DEF RInv, ReaderTypes, ReturnItem, cache
<1>2. /\ lastIndex \in Nat /\ index \in Nat /\ index < NoIndex /\ lastIndex <= index
      /\ lastIndex # NoIndex /\ NoIndex \in Nat
  BY <1>1, Indexed DEF RInv, ReaderTypes, Asking
<1>3. /\ There(d, lastIndex)
      /\ lastItem = Item(p, lastIndex) \/ (~ HasSize(lastItem) /\ threw)
  BY <1>1, <1>2 DEF RInv, Cached
<1>4. Opens(lastItem, {"ThrowOnFail", "FailIfTooSmall"}) <=> HasSize(lastItem)
  BY DEF Opens, Fits, HasSize
<1>5. /\ HasSize(lastItem) => answer' = [index |-> index, ok |-> TRUE, item |-> lastItem]
      /\ ~ HasSize(lastItem) => answer' = [index |-> index, ok |-> FALSE, item |-> <<>>]
  BY <1>4 DEF ReturnItem, Returns, Throws
<1>6. p \in Seq(Bytes) /\ HasItem(p, lastIndex) /\ HasPayload(d)
  BY <1>1, <1>3, PayloadIs DEF There
<1>7. ASSUME lastItem = Item(p, lastIndex)
      PROVE  HasSize(lastItem) /\ There(d, index) /\ lastItem = Item(p, index)
  <2>1. HasSize(CropFrom(p, ItemStart(p)[lastIndex]))
    BY <1>2, <1>6, EarlierItem
  <2>2. HasSize(lastItem)
    BY <1>2, <1>6, <1>7, <2>1, ItemHasSize
  <2>3. CASE lastIndex = index
    BY <1>3, <1>7, <2>2, <2>3
  <2>4. CASE lastIndex < index
    <3>1. Item(p, lastIndex) = <<>>
      BY <1>1, <1>7, <2>4
    <3>2. HasItem(p, index) /\ Item(p, index) = <<>>
      BY <1>2, <1>6, <3>1, PastEnd
    <3> QED
      BY <1>6, <1>7, <2>2, <3>1, <3>2 DEF There
  <2> QED
    BY <1>2, <2>3, <2>4
<1>8. ReaderTypes'
  <2>1. /\ [index |-> index, ok |-> TRUE, item |-> lastItem]
              \in [index : 0 .. NoIndex, ok : BOOLEAN, item : Seq(Bytes)]
        /\ [index |-> index, ok |-> FALSE, item |-> <<>>]
              \in [index : 0 .. NoIndex, ok : BOOLEAN, item : Seq(Bytes)]
    BY <1>1, <1>2
  <2>2. answer' \in [index : 0 .. NoIndex, ok : BOOLEAN, item : Seq(Bytes)]
    BY <1>5, <2>1
  <2> QED
    BY <1>1, <2>2 DEF RInv, ReaderTypes
<1>9. Cached'
  <2>1. lastItem = Item(p, lastIndex) \/ (lastItem = CropFrom(p, lastEnd) /\ ~ HasSize(lastItem) /\ threw)
    BY <1>1, <1>2 DEF RInv, Cached
  <2>2. lastEnd = ItemStart(p)[lastIndex + 1]
    BY <1>2 DEF RInv, Cached
  <2> QED
    BY <1>1, <1>3, <2>1, <2>2 DEF Cached
<1>10. Answers'
  <2>1. CASE HasSize(lastItem)
    BY <1>1, <1>2, <1>3, <1>5, <1>7, <2>1 DEF Answers
  <2>2. CASE ~ HasSize(lastItem)
    BY <1>1, <1>2, <1>3, <1>5, <1>7, <2>2 DEF Answers
  <2> QED
    BY <2>1, <2>2
<1> QED
  BY <1>1, <1>8, <1>9, <1>10 DEF RInv, Asking, Looping

\* What a loop leaves alone.
LEMMA LoopLeaves ==
    ASSUME RInv, UNCHANGED <<rlp, cache, index, answer, threw>>, rlp # Unread,
           reading # "index", reading' \in {"none", "loop"}
    PROVE  ReaderTypes' /\ Cached' /\ Asking' /\ Answers'
<1>1. /\ rlp' = rlp /\ index' = index /\ threw' = threw /\ answer' = answer
      /\ lastIndex' = lastIndex /\ lastEnd' = lastEnd /\ lastItem' = lastItem
  BY DEF cache
<1>2. ReaderTypes'
  BY <1>1 DEF RInv, ReaderTypes
<1>3. Cached'
  BY <1>1 DEF RInv, Cached
<1>4. Answers'
  BY <1>1 DEF RInv, Answers
<1> QED
  BY <1>2, <1>3, <1>4 DEF Asking

LEMMA LoopKeeps == ASSUME RInv, Loop PROVE RInv'
<1> DEFINE d == rlp.bytes
           p == Payload(d)
           off == PayloadOffset(d)
<1>1. /\ d \in Seq(Bytes) /\ reading = "none" /\ rlp # Unread
      /\ UNCHANGED <<rlp, cache, index, answer, threw>> /\ rlp' = rlp /\ visited' = <<>>
  BY DEF RInv, ReaderTypes, Loop
<1>2. CASE ~ IsList(d)
  <2>1. iterator' = EndIterator /\ reading' = "loop"
    BY <1>2 DEF Loop
  <2>2. EndIterator' = EndIterator
    BY <1>1 DEF EndIterator
  <2>3. Looping'
    BY <1>1, <1>2, <2>1, <2>2 DEF Looping
  <2> QED
    BY <1>1, <2>1, <2>3, LoopLeaves DEF RInv
<1>3. CASE IsList(d) /\ ~ (HasPayload(d) /\ HasSize(p))
  <2>1. reading' = "none"
    BY <1>1, <1>3 DEF Loop
  <2> QED
    BY <1>1, <2>1, LoopLeaves DEF RInv, Looping
<1>4. CASE IsList(d) /\ HasPayload(d) /\ HasSize(p)
  <2>1. /\ reading' = "loop"
        /\ iterator' = IF off + Length(d) > Len(d) THEN Nowhere
                       ELSE [at |-> off, size |-> ActualSize(p), remaining |-> Len(p) - ActualSize(p)]
    BY <1>1, <1>4 DEF Loop
  <2>2. Looping'
    <3>1. p \in Seq(Bytes) /\ off \in Nat /\ Length(d) \in Nat /\ Len(d) \in Nat
      BY <1>1, <1>4, PayloadIs
    <3>2. CASE off + Length(d) > Len(d)
      BY <1>1, <1>4, <2>1, <3>2 DEF Looping
    <3>3. CASE off + Length(d) <= Len(d)
      <4>1. iterator' = [at |-> off, size |-> ActualSize(p), remaining |-> Len(p) - ActualSize(p)]
        <5>1. ~ (off + Length(d) > Len(d))
          BY <3>1, <3>3
        <5> QED
          BY <2>1, <5>1
      <4>2. /\ ItemStart(p)[0] = 0 /\ ItemStart(p)[0 + 1] = ActualSize(p) /\ ActualSize(p) \in Nat
            /\ HasItem(p, 0)
        <5>1. 0 + 1 = 1
          OBVIOUS
        <5>2. ActualSize(p) \in Nat
          BY <1>4, <3>1, Lengths DEF HasSize
        <5> QED
          BY <1>4, <3>1, <5>1, <5>2, FirstItem, ItemStarts
      <4>3. At(d, 0) = [at |-> off, size |-> ActualSize(p), remaining |-> Len(p) - ActualSize(p)]
        <5>1. off + 0 = off /\ ActualSize(p) - 0 = ActualSize(p)
          BY <3>1, <4>2
        <5> QED
          BY <4>2, <5>1 DEF At
      <4>4. /\ <<>> \in Seq(Seq(Bytes)) /\ Len(<<>>) = 0
            /\ There(d, Len(<<>>)) /\ Had(d, <<>>)
        BY <1>4, <4>2 DEF There, Had
      <4> QED
        BY <1>1, <1>4, <2>1, <3>3, <4>1, <4>3, <4>4 DEF Looping
    <3> QED
      BY <3>1, <3>2, <3>3
  <2> QED
    BY <1>1, <2>1, <2>2, LoopLeaves DEF RInv
<1> QED
  BY <1>2, <1>3, <1>4

LEMMA IncrementKeeps == ASSUME RInv, Increment PROVE RInv'
<1> DEFINE d == rlp.bytes
           rest == Crop(d, iterator.at + iterator.size, iterator.remaining)
           item == Crop(d, iterator.at, iterator.size)
<1>1. /\ d \in Seq(Bytes) /\ reading = "loop" /\ rlp # Unread /\ ~ SamePlace(iterator, EndIterator)
      /\ UNCHANGED <<rlp, cache, index, answer, threw>> /\ rlp' = rlp
      /\ reading' \in {"none", "loop"}
  BY DEF RInv, ReaderTypes, Increment
<1>2. /\ iterator.remaining = 0 => iterator' = PastLast(iterator) /\ reading' = "loop"
      /\ iterator.remaining # 0 /\ HasSize(rest) =>
            iterator' = Moved(iterator, ActualSize(rest)) /\ reading' = "loop"
      /\ iterator.remaining # 0 /\ ~ HasSize(rest) => reading' = "none"
      /\ reading' = "loop" => visited' = IF iterator.size = 0 THEN visited ELSE Append(visited, item)
  BY <1>1 DEF Increment
<1>3. Looping'
  <2> SUFFICES ASSUME reading' = "loop" PROVE Looping'
    BY DEF Looping
  <2>1. ASSUME ~ IsList(d) PROVE FALSE
    BY <1>1, <2>1 DEF RInv, Looping, SamePlace
  <2>2. HasPayload(d)
    BY <1>1, <2>1 DEF RInv, Looping
  <2>3. CASE iterator = Nowhere /\ visited = <<>>
    <3>1. iterator.remaining = 0 /\ iterator.size = 0
      BY <2>3 DEF Nowhere
    <3>2. iterator' = Nowhere /\ visited' = <<>>
      BY <1>2, <2>3, <3>1 DEF PastLast
    <3> QED
      BY <1>1, <2>1, <2>2, <3>2 DEF Looping
  <2>4. CASE /\ PayloadOffset(d) + Length(d) <= Len(d)
             /\ visited \in Seq(Seq(Bytes)) /\ There(d, Len(visited))
             /\ iterator = At(d, Len(visited))
             /\ Had(d, visited)
    <3> DEFINE n == Len(visited)
               more == Append(visited, item)
    <3>1. /\ iterator.at \in Nat /\ iterator.size \in Nat /\ iterator.remaining \in Nat
          /\ iterator.size = 0 => iterator.remaining = 0 /\ Moved(iterator, 0) = iterator
          /\ iterator.size # 0 /\ iterator.remaining = 0 =>
                There(d, n + 1) /\ Moved(iterator, 0) = At(d, n + 1) /\ Had(d, more)
          /\ iterator.remaining # 0 /\ HasSize(rest) =>
                There(d, n + 1) /\ Moved(iterator, ActualSize(rest)) = At(d, n + 1) /\ Had(d, more)
      BY <1>1, <2>2, <2>4, LoopGoesOn
    <3>2. iterator # Nowhere
      BY <3>1 DEF Nowhere
    <3>3. CASE iterator.size = 0
      <4>1. iterator' = iterator /\ visited' = visited
        BY <1>2, <3>1, <3>2, <3>3 DEF PastLast
      <4> QED
        BY <1>1, <2>1, <2>2, <2>4, <4>1 DEF Looping
    <3>4. CASE iterator.size # 0
      <4>1. visited' = more
        BY <1>2, <3>4
      <4>2. There(d, n + 1) /\ iterator' = At(d, n + 1) /\ Had(d, more)
        BY <1>2, <3>1, <3>2, <3>4 DEF PastLast
      <4>3. more \in Seq(Seq(Bytes)) /\ Len(more) = n + 1
        <5>1. item \in Seq(Bytes)
          BY <1>1, <3>1, Cropped
        <5> HIDE DEF item
        <5> QED
          BY <2>4, <5>1
      <4> HIDE DEF more, n
      <4>4. There(d, Len(more)) /\ iterator' = At(d, Len(more))
        BY <4>2, <4>3
      <4> QED
        BY <1>1, <2>1, <2>2, <2>4, <4>1, <4>2, <4>3, <4>4 DEF Looping
    <3> QED
      BY <3>3, <3>4
  <2> QED
    BY <1>1, <2>1, <2>3, <2>4 DEF RInv, Looping
<1> QED
  BY <1>1, <1>3, LoopLeaves DEF RInv

LEMMA LoopEndsKeeps == ASSUME RInv, LoopEnds PROVE RInv'
<1>1. /\ reading = "loop" /\ rlp # Unread /\ reading' = "none"
      /\ UNCHANGED <<rlp, cache, index, answer, threw>>
  BY DEF RInv, ReaderTypes, LoopEnds
<1> QED
  BY <1>1, LoopLeaves DEF RInv, Looping

LEMMA ReaderKeeps == ASSUME RInv, ReaderNext PROVE RInv'
<1>1. CASE \E input \in Inputs : Construct(input)
  BY <1>1, ReaderAssumption, ConstructKeeps
<1>2. CASE Drop
  BY <1>2, DropKeeps
<1>3. CASE \E i \in Indices : Subscript(i)
  BY <1>3, SubscriptKeeps
<1>4. CASE NextItem
  BY <1>4, NextItemKeeps
<1>5. CASE ReturnItem
  BY <1>5, ReturnItemKeeps
<1>6. CASE Loop
  BY <1>6, LoopKeeps
<1>7. CASE Increment
  BY <1>7, IncrementKeeps
<1>8. CASE LoopEnds
  BY <1>8, LoopEndsKeeps
<1> QED
  BY <1>1, <1>2, <1>3, <1>4, <1>5, <1>6, <1>7, <1>8 DEF ReaderNext

-----------------------------------------------------------------------------
(* What a stream writes are bytes. *)

LEMMA BigEndianLength == \A n \in Nat : Len(BigEndian(n)) = BytesRequired(n)
<1> DEFINE T == {n \in Nat : Len(BigEndian(n)) = BytesRequired(n)}
<1>1. ASSUME NEW n \in Nat, 0 .. (n - 1) \subseteq T PROVE n \in T
  <2>1. CASE n = 0
    BY <2>1, BigEndianType, BytesRequiredType
  <2>2. CASE n > 0
    <3>1. n \div Base \in 0 .. (n - 1)
      BY <2>2, Division
    <3>2. Len(BigEndian(n \div Base)) = BytesRequired(n \div Base) /\ n \div Base \in Nat
      BY <1>1, <3>1
    <3>3. /\ BigEndian(n) = Append(BigEndian(n \div Base), n % Base)
          /\ BigEndian(n \div Base) \in Seq(Bytes)
          /\ BytesRequired(n) = 1 + BytesRequired(n \div Base) /\ BytesRequired(n \div Base) \in Nat
      BY <2>2, <3>2, BigEndianType, BytesRequiredType
    <3>4. n % Base \in Bytes
      BY Division
    <3>5. Len(BigEndian(n)) = Len(BigEndian(n \div Base)) + 1
      BY <3>3, <3>4
    <3> QED
      BY <3>2, <3>3, <3>5
  <2> QED
    BY <2>1, <2>2
<1>2. Nat \subseteq T
  <2> HIDE DEF T
  <2> QED
    BY <1>1, LessInduction, Zenon
<1> QED
  BY <1>2

\* A number below a power of the base needs no more bytes than the exponent.
LEMMA BytesRequiredBound ==
    \A k \in Nat : \A n \in Nat : n < Power[k] => BytesRequired(n) <= k
<1> DEFINE T == {k \in Nat : \A n \in Nat : n < Power[k] => BytesRequired(n) <= k}
<1>1. 0 \in T
  BY PowerType, BytesRequiredType
<1>2. ASSUME NEW k \in Nat, k \in T PROVE k + 1 \in T
  <2>1. ASSUME NEW n \in Nat, n < Power[k + 1] PROVE BytesRequired(n) <= k + 1
    <3>1. CASE n = 0
      BY <3>1, BytesRequiredType
    <3>2. CASE n > 0
      <4> DEFINE q == n \div Base
                 r == n % Base
                 w == Power[k]
      <4>1. q \in Nat /\ r \in Bytes /\ n = q * Base + r
        BY Division
      <4>2. w \in Nat /\ n < w * Base
        BY <2>1, PowerType
      <4> HIDE DEF q, r, w
      <4>3. ASSUME q >= w PROVE FALSE
        <5>1. PICK x \in Nat : q = w + x
          BY <4>1, <4>2, <4>3
        <5>2. q * Base = w * Base + x * Base
          BY <4>1, <4>2, <5>1, Parameters
        <5>3. x * Base \in Nat /\ w * Base \in Nat
          BY <4>2, <5>1, Parameters
        <5> QED
          BY <4>1, <4>2, <5>2, <5>3 DEF Bytes
      <4>4. q < w
        BY <4>1, <4>2, <4>3
      <4>5. BytesRequired(q) <= k
        BY <1>2, <4>1, <4>4 DEF w
      <4>6. BytesRequired(n) = 1 + BytesRequired(q) /\ BytesRequired(q) \in Nat
        BY <3>2, <4>1, BytesRequiredType DEF q
      <4> QED
        BY <4>5, <4>6
    <3> QED
      BY <3>1, <3>2
  <2> QED
    BY <2>1
<1>3. Nat \subseteq T
  <2> HIDE DEF T
  <2> QED
    BY <1>1, <1>2, SetInduction, Zenon
<1> QED
  BY <1>3

\* The bytes in front of contents, where their length fits into a size_t.
LEMMA HeaderIs ==
    ASSUME NEW size \in Nat, NEW start \in Nat, NEW count \in Nat, count > 0,
           start + count + MaxLengthBytes <= Base
    PROVE  /\ Header(size, start, count) \in Seq(Nat)
           /\ Len(Header(size, start, count)) > 0
           /\ size < Power[MaxLengthBytes] =>
                 /\ Header(size, start, count) \in Seq(Bytes)
                 /\ Len(Header(size, start, count)) <= 1 + MaxLengthBytes
<1> DEFINE h == Header(size, start, count)
           m == BytesRequired(size)
           e == BigEndian(size)
<1>1. Base \in Nat /\ MaxLengthBytes \in Nat
  BY Parameters
<1>2. m \in Nat /\ e \in Seq(Bytes) /\ Len(e) = m
  BY BytesRequiredType, BigEndianType, BigEndianLength
<1>3. size < Power[MaxLengthBytes] => m <= MaxLengthBytes
  BY <1>1, BytesRequiredBound
<1>4. CASE size < count
  <2>1. h = <<start + size>>
    BY <1>4 DEF Header
  <2>2. start + size \in Bytes /\ start + size \in Nat
    BY <1>1, <1>4 DEF Bytes
  <2> QED
    BY <1>1, <2>1, <2>2
<1>5. CASE ~ (size < count)
  <2> DEFINE b == start + count - 1 + m
  <2>1. h = <<b>> \o e
    BY <1>5 DEF Header
  <2>2. b \in Nat
    BY <1>2
  <2>3. e \in Seq(Nat)
    <3>1. Bytes \subseteq Nat
      BY DEF Bytes
    <3> QED
      BY <1>2, <3>1, SeqMonotonic
  <2>4. size < Power[MaxLengthBytes] => b \in Bytes
    BY <1>1, <1>2, <1>3 DEF Bytes
  <2> HIDE DEF b, e, m, h
  <2>5. h \in Seq(Nat) /\ Len(h) = 1 + m
    BY <1>2, <2>1, <2>2, <2>3
  <2>6. size < Power[MaxLengthBytes] => h \in Seq(Bytes)
    BY <1>2, <2>1, <2>4
  <2> QED
    BY <1>1, <1>2, <1>3, <2>5, <2>6 DEF h
<1> QED
  BY <1>4, <1>5

LEMMA Headers ==
    ASSUME NEW size \in Nat
    PROVE  /\ DataHeader(size) \in Seq(Nat) /\ Len(DataHeader(size)) > 0
           /\ ListHeader(size) \in Seq(Nat) /\ Len(ListHeader(size)) > 0
           /\ size < MaxSize - Base =>
                 /\ DataHeader(size) \in Seq(Bytes) /\ Len(DataHeader(size)) <= 1 + MaxLengthBytes
                 /\ ListHeader(size) \in Seq(Bytes) /\ Len(ListHeader(size)) <= 1 + MaxLengthBytes
<1>1. DataImmLenStart + DataImmLenCount + MaxLengthBytes <= Base
  BY Parameters DEF DataImmLenCount
<1>2. /\ ListStart + ListImmLenCount + MaxLengthBytes <= Base
      /\ ListStart \in Nat /\ ListImmLenCount \in Nat /\ ListImmLenCount > 0
  BY Parameters DEF ListImmLenCount
<1>3. size < MaxSize - Base => size < Power[MaxLengthBytes]
  BY Parameters, PowerType DEF MaxSize
<1>4. /\ DataHeader(size) \in Seq(Nat) /\ Len(DataHeader(size)) > 0
      /\ size < Power[MaxLengthBytes] =>
            DataHeader(size) \in Seq(Bytes) /\ Len(DataHeader(size)) <= 1 + MaxLengthBytes
  BY <1>1, Parameters, HeaderIs DEF DataHeader
<1>5. /\ ListHeader(size) \in Seq(Nat) /\ Len(ListHeader(size)) > 0
      /\ size < Power[MaxLengthBytes] =>
            ListHeader(size) \in Seq(Bytes) /\ Len(ListHeader(size)) <= 1 + MaxLengthBytes
  BY <1>2, HeaderIs DEF ListHeader
<1> QED
  BY <1>3, <1>4, <1>5

-----------------------------------------------------------------------------
(* The types of a stream.  Items hold items: a set of all those there are so far will do. *)

Kept(I) ==
    /\ opened \in Seq([count : Nat, items : Seq(I)])
    /\ made \in [bytes : Seq(Bytes), items : Seq(I)]

StreamTypes ==
    /\ out \in Seq(Bytes)
    /\ listStack \in Seq([left : Nat \ {0}, at : Nat])
    /\ \A k \in 1 .. Len(listStack) : listStack[k].at <= Len(out)
    /\ noting \in Nat /\ calls \in Nat
    /\ Len(opened) = Len(listStack) + 1
    /\ \E I : Kept(I)
    /\ Len(out) + (1 + MaxLengthBytes) * Len(listStack) < MaxSize - Base

LEMMA WidthIs ==
    /\ 1 + MaxLengthBytes \in Nat
    /\ \A n \in Nat : /\ (1 + MaxLengthBytes) * n \in Nat
                      /\ (1 + MaxLengthBytes) * (n + 1) = (1 + MaxLengthBytes) * n + (1 + MaxLengthBytes)
    /\ MaxSize \in Nat /\ Base \in Nat /\ 0 < MaxSize - Base
<1>1. 1 + MaxLengthBytes \in Nat
  BY Parameters
<1>2. MaxSize \in Nat /\ Base \in Nat /\ 0 < MaxSize - Base
  BY Parameters, RlpAssumption, PowerType DEF MaxSize
<1> DEFINE w == 1 + MaxLengthBytes
<1>3. \A n \in Nat : w * n \in Nat /\ w * (n + 1) = w * n + w
  <2> HIDE DEF w
  <2>1. w \in Nat
    BY <1>1 DEF w
  <2> QED
    BY <2>1
<1> QED
  BY <1>1, <1>2, <1>3

LEMMA StreamStarts == StreamInit => StreamTypes
<1> SUFFICES ASSUME StreamInit PROVE StreamTypes
  OBVIOUS
<1>1. /\ out = <<>> /\ listStack = <<>> /\ noting = 0 /\ calls = 0
      /\ opened = <<Announced(0)>> /\ made = Nothing
  BY DEF StreamInit, StreamEmpty
<1>2. Kept({})
  <2>1. Announced(0) \in [count : Nat, items : Seq({})]
    BY DEF Announced
  <2>2. opened \in Seq([count : Nat, items : Seq({})])
    BY <1>1, <2>1
  <2>3. made \in [bytes : Seq(Bytes), items : Seq({})]
    BY <1>1 DEF Nothing
  <2> QED
    BY <2>2, <2>3 DEF Kept
<1>3. Len(out) + (1 + MaxLengthBytes) * Len(listStack) < MaxSize - Base
  <2>1. Len(out) = 0 /\ Len(listStack) = 0
    BY <1>1
  <2>2. (1 + MaxLengthBytes) * 0 = 0
    BY WidthIs
  <2> QED
    BY <2>1, <2>2, WidthIs
<1>4. Len(opened) = 1 /\ Len(listStack) = 0
  BY <1>1
<1> QED
  BY <1>1, <1>2, <1>3, <1>4 DEF StreamTypes

\* More items do no harm.
LEMMA KeptMore == ASSUME NEW I, NEW J, Kept(I) PROVE Kept(I \union J)
<1>1. Seq(I) \subseteq Seq(I \union J)
  BY SeqMonotonic
<1>2. [count : Nat, items : Seq(I)] \subseteq [count : Nat, items : Seq(I \union J)]
  BY <1>1
<1>3. opened \in Seq([count : Nat, items : Seq(I \union J)])
  BY <1>2, SeqMonotonic DEF Kept
<1> QED
  BY <1>1, <1>3 DEF Kept

LEMMA WriteTypes ==
    ASSUME StreamTypes, NEW bytes, NEW items, NEW J, items \in Seq(J),
           Len(bytes) \in Nat,
           Len(bytes) < MaxSize - Base => bytes \in Seq(Bytes),
           Write(bytes, items)
    PROVE  StreamTypes' /\ bytes \in Seq(Bytes)
<1>1. /\ out' = out \o bytes /\ noting' = Len(items)
      /\ opened' = [opened EXCEPT ![Len(opened)].items = @ \o items]
      /\ listStack' = listStack /\ made' = made /\ calls' = calls + 1
      /\ Room(Len(bytes), 0)
  BY DEF Write
<1> DEFINE H == 1 + MaxLengthBytes
           n == Len(listStack)
<1>2. out \in Seq(Bytes) /\ Len(out) \in Nat /\ n \in Nat /\ H * n \in Nat
  <2>1. out \in Seq(Bytes) /\ Len(out) \in Nat /\ n \in Nat
    BY DEF StreamTypes
  <2> QED
    BY <2>1, WidthIs
<1>3. Len(out) + Len(bytes) + H * n < MaxSize - Base
  <2>1. n + 0 = n
    BY <1>2
  <2> QED
    BY <1>1, <2>1 DEF Room
<1> HIDE DEF H
<1>4. bytes \in Seq(Bytes)
  <2> DEFINE top == MaxSize - Base
             more == H * n
  <2>1. top \in Nat /\ more \in Nat /\ Len(out) + Len(bytes) + more < top
    BY <1>2, <1>3, WidthIs
  <2> HIDE DEF top, more, n
  <2>2. Len(bytes) < top
    BY <1>2, <2>1
  <2> QED
    BY <2>2 DEF top
<1>5. out' \in Seq(Bytes) /\ Len(out') = Len(out) + Len(bytes)
  BY <1>1, <1>2, <1>4
<1>6. \A k \in 1 .. n : listStack[k].at <= Len(out')
  <2>1. ASSUME NEW k \in 1 .. n PROVE listStack[k].at <= Len(out')
    <3>1. listStack[k] \in [left : Nat \ {0}, at : Nat]
      BY <2>1, ElementOfSeq DEF StreamTypes
    <3>2. listStack[k].at \in Nat /\ listStack[k].at <= Len(out)
      BY <2>1, <3>1 DEF StreamTypes
    <3> QED
      BY <1>2, <1>5, <3>2
  <2> QED
    BY <2>1
<1>7. noting' \in Nat /\ calls' \in Nat
  BY <1>1 DEF StreamTypes
<1>8. PICK I : Kept(I)
  BY DEF StreamTypes
<1> DEFINE K == I \union J
           R == [count : Nat, items : Seq(K)]
           e == opened[Len(opened)]
<1>9. Kept(K)
  BY <1>8, KeptMore
<1>10. opened \in Seq(R) /\ Len(opened) \in 1 .. Len(opened)
  BY <1>2, <1>9 DEF Kept, StreamTypes
<1>11. e \in R /\ items \in Seq(K)
  <2>1. J \subseteq K
    OBVIOUS
  <2>2. e \in R
    BY <1>10, ElementOfSeq
  <2> HIDE DEF K
  <2> QED
    BY <2>1, <2>2, SeqMonotonic
<1>12. [e EXCEPT !.items = @ \o items] \in R
  <2>1. e.items \o items \in Seq(K)
    BY <1>11
  <2> QED
    BY <1>11, <2>1
<1>13. opened' \in Seq(R) /\ Len(opened') = Len(opened)
  <2> HIDE DEF R, e
  <2>1. opened' = [opened EXCEPT ![Len(opened)] = [e EXCEPT !.items = @ \o items]]
    BY <1>1 DEF e
  <2> QED
    BY <1>10, <1>12, <2>1, ExceptSeq
<1>14. \E L : Kept(L)'
  BY <1>1, <1>9, <1>13 DEF Kept
<1> QED
  BY <1>1, <1>2, <1>3, <1>4, <1>5, <1>6, <1>7, <1>13, <1>14 DEF StreamTypes, H

LEMMA WithHeader ==
    ASSUME NEW b \in Seq(Bytes), NEW h \in {DataHeader(Len(b)), ListHeader(Len(b))}
    PROVE  /\ Len(h \o b) = Len(h) + Len(b) /\ Len(h \o b) \in Nat
           /\ Len(h \o b) < MaxSize - Base => h \o b \in Seq(Bytes)
<1>1. Len(b) \in Nat
  OBVIOUS
<1>2. /\ h \in Seq(Nat)
      /\ Len(b) < MaxSize - Base => h \in Seq(Bytes)
  BY <1>1, Headers
<1>3. b \in Seq(Nat)
  <2>1. Bytes \subseteq Nat
    BY DEF Bytes
  <2> QED
    BY <2>1, SeqMonotonic
<1>4. Len(h \o b) = Len(h) + Len(b) /\ Len(h) \in Nat
  BY <1>2, <1>3
<1>5. MaxSize - Base \in Nat
  BY WidthIs
<1>6. Len(h \o b) < MaxSize - Base => h \o b \in Seq(Bytes)
  <2>1. Len(h \o b) < MaxSize - Base => Len(b) < MaxSize - Base
    <3> DEFINE top == MaxSize - Base
    <3>1. top \in Nat
      BY <1>5
    <3> HIDE DEF top
    <3>2. Len(h \o b) < top => Len(b) < top
      BY <1>1, <1>4, <3>1
    <3> QED
      BY <3>2 DEF top
  <2>2. h \in Seq(Bytes) => h \o b \in Seq(Bytes)
    OBVIOUS
  <2> QED
    BY <1>2, <2>1, <2>2
<1> QED
  BY <1>1, <1>4, <1>6

LEMMA StringWritten ==
    ASSUME NEW s \in Seq(Bytes)
    PROVE  /\ Len(StringBytes(s)) \in Nat
           /\ Len(StringBytes(s)) < MaxSize - Base => StringBytes(s) \in Seq(Bytes)
<1>1. CASE Len(s) = 1 /\ s[1] < DataImmLenStart
  BY <1>1 DEF StringBytes
<1>2. CASE ~ (Len(s) = 1 /\ s[1] < DataImmLenStart)
  <2>1. StringBytes(s) = DataHeader(Len(s)) \o s
    BY <1>2 DEF StringBytes
  <2> QED
    BY <2>1, WithHeader
<1> QED
  BY <1>1, <1>2

LEMMA IntWritten ==
    ASSUME NEW n \in Nat
    PROVE  /\ Len(IntBytes(n)) \in Nat
           /\ IntBytes(n) \in Seq(Bytes) \/ ~ (Len(IntBytes(n)) < MaxSize - Base)
<1>1. CASE n = 0
  <2>1. DataImmLenStart \in Bytes
    BY Parameters DEF Bytes
  <2>2. IntBytes(n) = <<DataImmLenStart>>
    BY <1>1 DEF IntBytes
  <2> QED
    BY <2>1, <2>2
<1>2. CASE n # 0 /\ n < DataImmLenStart
  <2>1. n \in Bytes
    BY <1>2, Parameters DEF Bytes
  <2>2. IntBytes(n) = <<n>>
    BY <1>2 DEF IntBytes
  <2> QED
    BY <2>1, <2>2
<1>3. CASE n # 0 /\ ~ (n < DataImmLenStart)
  <2> DEFINE b == BigEndian(n)
  <2>1. b \in Seq(Bytes) /\ Len(b) = BytesRequired(n)
    BY BigEndianType, BigEndianLength
  <2>2. IntBytes(n) = DataHeader(Len(b)) \o b
    BY <1>3, <2>1 DEF IntBytes
  <2> HIDE DEF b
  <2> QED
    BY <2>1, <2>2, WithHeader
<1> QED
  BY <1>1, <1>2, <1>3

LEMMA CompactIs == ASSUME NEW s \in Seq(Bytes) PROVE Compact(s) \in Seq(Bytes)
<1>1. CASE \A k \in DOMAIN s : s[k] = 0
  BY <1>1 DEF Compact
<1>2. CASE ~ \A k \in DOMAIN s : s[k] = 0
  <2> DEFINE P(n) == s[n + 1] # 0 /\ \A k \in 1 .. n : s[k] = 0
             T == {k \in Nat : k \in 1 .. Len(s) /\ s[k] # 0}
  <2>1. PICK k \in T : TRUE
    BY <1>2
  <2>2. PICK m \in T : \A j \in T : m <= j
    BY <2>1, LeastNumber
  <2>3. m - 1 \in 0 .. Len(s) /\ (m - 1) + 1 = m
    BY <2>2
  <2>4. s[m] # 0 /\ \A j \in 1 .. (m - 1) : s[j] = 0
    BY <2>2
  <2>5. \E n \in 0 .. Len(s) : P(n)
    BY <2>3, <2>4
  <2>6. (CHOOSE n \in 0 .. Len(s) : P(n)) \in 0 .. Len(s)
    BY <2>5
  <2>7. Compact(s) = CropFrom(s, CHOOSE n \in 0 .. Len(s) : P(n))
    BY <1>2 DEF Compact
  <2> HIDE DEF P
  <2> QED
    BY <2>6, <2>7, CroppedFrom
<1> QED
  BY <1>1, <1>2

LEMMA NoteRefusedTypes == ASSUME StreamTypes, NoteRefused PROVE StreamTypes'
<1>1. /\ out' = out /\ listStack' = listStack /\ made' = made /\ calls' = calls /\ noting' = 0
      /\ opened' = [opened EXCEPT ![Len(opened)].count = @ + noting]
  BY DEF NoteRefused
<1>2. PICK I : Kept(I)
  BY DEF StreamTypes
<1> DEFINE R == [count : Nat, items : Seq(I)]
           e == opened[Len(opened)]
<1>3. opened \in Seq(R) /\ Len(opened) \in 1 .. Len(opened)
  BY <1>2 DEF Kept, StreamTypes
<1>4. [e EXCEPT !.count = @ + noting] \in R
  <2>1. e \in R
    BY <1>3, ElementOfSeq
  <2>2. noting \in Nat
    BY DEF StreamTypes
  <2> HIDE DEF e
  <2> QED
    BY <2>1, <2>2
<1>5. opened' \in Seq(R) /\ Len(opened') = Len(opened)
  <2> HIDE DEF R, e
  <2>1. opened' = [opened EXCEPT ![Len(opened)] = [e EXCEPT !.count = @ + noting]]
    BY <1>1 DEF e
  <2> QED
    BY <1>3, <1>4, <2>1, ExceptSeq
<1>6. \E L : Kept(L)'
  BY <1>1, <1>2, <1>5 DEF Kept
<1> QED
  BY <1>1, <1>5, <1>6 DEF StreamTypes

LEMMA NoteCountedTypes == ASSUME StreamTypes, NoteCounted PROVE StreamTypes'
<1>1. /\ out' = out /\ opened' = opened /\ made' = made /\ calls' = calls /\ noting' = 0
      /\ listStack # <<>> /\ listStack[Len(listStack)].left > noting
      /\ listStack' = [listStack EXCEPT ![Len(listStack)].left = @ - noting]
  BY DEF NoteCounted, Top
<1> DEFINE R == [left : Nat \ {0}, at : Nat]
           n == Len(listStack)
           e == listStack[n]
           f == [e EXCEPT !.left = @ - noting]
<1>2. listStack \in Seq(R) /\ n \in 1 .. n
  BY <1>1 DEF StreamTypes
<1>3. e \in R
  BY <1>2, ElementOfSeq
<1>4. f \in R /\ f.at = e.at
  <2>1. e.left - noting \in Nat \ {0}
    BY <1>1, <1>3 DEF StreamTypes
  <2> QED
    BY <1>3, <2>1
<1>5. /\ listStack' \in Seq(R) /\ Len(listStack') = n
      /\ \A k \in 1 .. n : listStack'[k] = IF k = n THEN f ELSE listStack[k]
  <2>1. listStack' = [listStack EXCEPT ![n] = f]
    BY <1>1
  <2> HIDE DEF R, e, f
  <2> QED
    BY <1>2, <1>4, <2>1, ExceptSeq
<1>6. \A k \in 1 .. n : listStack'[k].at <= Len(out)
  BY <1>4, <1>5 DEF StreamTypes
<1>7. \E I : Kept(I)'
  BY <1>1 DEF StreamTypes, Kept
<1> HIDE DEF f, e, R
<1>8. (Len(out) + (1 + MaxLengthBytes) * Len(listStack) < MaxSize - Base)'
  BY <1>1, <1>5 DEF StreamTypes
<1> QED
  BY <1>1, <1>5, <1>6, <1>7, <1>8 DEF StreamTypes, R

LEMMA AppendListTypes == ASSUME StreamTypes, NEW n \in Nat, AppendList(n) PROVE StreamTypes'
<1>1. CASE n = 0
  <2> DEFINE bytes == ListHeader(0)
             items == <<ListItem(0, <<>>)>>
  <2>1. /\ Len(bytes) \in Nat
        /\ Len(bytes) < MaxSize - Base => bytes \in Seq(Bytes)
    <3>1. bytes \in Seq(Nat)
      BY Headers
    <3>2. bytes \in Seq(Bytes)
      BY Headers, WidthIs
    <3> QED
      BY <3>1, <3>2
  <2>2. items \in Seq({ListItem(0, <<>>)})
    OBVIOUS
  <2>3. Write(bytes, items)
    BY <1>1 DEF AppendList
  <2> HIDE DEF bytes, items
  <2> QED
    BY <2>1, <2>2, <2>3, WriteTypes
<1>2. CASE n # 0
  <2>1. /\ noting' = noting /\ calls' = calls + 1
        /\ Room(0, 1)
        /\ listStack' = Append(listStack, [left |-> n, at |-> Len(out)])
        /\ opened' = Append(opened, Announced(n))
        /\ out' = out /\ made' = made
    BY <1>2 DEF AppendList
  <2> DEFINE R == [left : Nat \ {0}, at : Nat]
             f == [left |-> n, at |-> Len(out)]
  <2>2. listStack \in Seq(R) /\ f \in R /\ Len(out) \in Nat /\ f.at = Len(out)
    BY <1>2 DEF StreamTypes
  <2>3. /\ listStack' \in Seq(R) /\ Len(listStack') = Len(listStack) + 1
        /\ \A k \in 1 .. Len(listStack') : listStack'[k] = IF k <= Len(listStack) THEN listStack[k] ELSE f
    <3> HIDE DEF R, f
    <3> QED
      BY <2>1, <2>2 DEF f
  <2>4. \A k \in 1 .. Len(listStack') : listStack'[k].at <= Len(out)
    <3>1. ASSUME NEW k \in 1 .. Len(listStack') PROVE listStack'[k].at <= Len(out)
      <4>1. CASE k <= Len(listStack)
        <5>1. k \in 1 .. Len(listStack)
          BY <2>2, <2>3, <4>1
        <5> QED
          BY <2>3, <4>1, <5>1 DEF StreamTypes
      <4>2. CASE ~ (k <= Len(listStack))
        BY <2>2, <2>3, <4>2
      <4> QED
        BY <4>1, <4>2
    <3> QED
      BY <3>1
  <2>5. PICK I : Kept(I)
    BY DEF StreamTypes
  <2>6. Announced(n) \in [count : Nat, items : Seq(I)]
    BY DEF Announced
  <2>7. opened' \in Seq([count : Nat, items : Seq(I)]) /\ Len(opened') = Len(opened) + 1
    BY <2>1, <2>5, <2>6 DEF Kept
  <2>8. \E J : Kept(J)'
    BY <2>1, <2>5, <2>7 DEF Kept
  <2>9. (Len(out) + (1 + MaxLengthBytes) * Len(listStack) < MaxSize - Base)'
    <3>1. Len(out) + 0 = Len(out)
      BY <2>2
    <3> QED
      BY <2>1, <2>3, <3>1 DEF Room
  <2>10. noting' \in Nat /\ calls' \in Nat /\ Len(opened') = Len(listStack') + 1
    <3>1. Len(opened) = Len(listStack) + 1
      BY DEF StreamTypes
    <3>2. noting' \in Nat /\ calls' \in Nat
      BY <2>1 DEF StreamTypes
    <3> QED
      BY <2>3, <2>7, <3>1, <3>2
  <2> QED
    BY <2>1, <2>2, <2>3, <2>4, <2>8, <2>9, <2>10 DEF StreamTypes
<1> QED
  BY <1>1, <1>2

LEMMA FrontIs ==
    ASSUME NEW S, NEW s \in Seq(S), Len(s) > 0
    PROVE  /\ Front(s) \in Seq(S) /\ Len(Front(s)) = Len(s) - 1
           /\ \A k \in 1 .. (Len(s) - 1) : Front(s)[k] = s[k]
<1> DEFINE n == Len(s) - 1
<1>1. n \in Nat /\ n <= Len(s) /\ 1 \in Int /\ n \in Int
  OBVIOUS
<1>2. \A i \in 1 .. n : s[i] \in S
  BY <1>1
<1>3. Front(s) = SubSeq(s, 1, n)
  BY DEF Front
<1> HIDE DEF n
<1>4. /\ SubSeq(s, 1, n) \in Seq(S)
      /\ Len(SubSeq(s, 1, n)) = IF 1 <= n THEN n - 1 + 1 ELSE 0
      /\ \A i \in 1 .. n - 1 + 1 : SubSeq(s, 1, n)[i] = s[1 + i - 1]
  BY <1>1, <1>2, SubSeqProperties
<1>5. n - 1 + 1 = n /\ (~ (1 <= n) => n = 0) /\ \A i \in 1 .. n : 1 + i - 1 = i
  BY <1>1
<1> QED
  BY <1>3, <1>4, <1>5 DEF n

LEMMA NoteCompletedTypes == ASSUME StreamTypes, NoteCompleted PROVE StreamTypes'
<1> DEFINE n == Len(listStack)
           at == listStack[n].at
           contents == CropFrom(out, at)
           h == ListHeader(Len(contents))
           H == 1 + MaxLengthBytes
           R == [left : Nat \ {0}, at : Nat]
<1>1. /\ listStack # <<>>
      /\ out' = Crop(out, 0, at) \o h \o contents
      /\ listStack' = Front(listStack)
      /\ opened' = LET outer == Front(opened)
                   IN  [outer EXCEPT ![Len(outer)].items = Append(@, ListItem(Top(opened).count, Top(opened).items))]
      /\ noting' = 1 /\ made' = made /\ calls' = calls
  BY DEF NoteCompleted, Top
<1>2. /\ listStack \in Seq(R) /\ n \in 1 .. n /\ n \in Nat
      /\ out \in Seq(Bytes) /\ Len(out) \in Nat /\ Len(opened) = n + 1
  <2>1. listStack \in Seq(R) /\ out \in Seq(Bytes) /\ Len(opened) = n + 1
    BY DEF StreamTypes
  <2> HIDE DEF R
  <2>2. n \in Nat /\ n # 0 /\ Len(out) \in Nat
    BY <1>1, <2>1
  <2> QED
    BY <2>1, <2>2
<1>3. at \in Nat /\ at <= Len(out)
  <2>1. listStack[n] \in R
    BY <1>2, ElementOfSeq
  <2> QED
    BY <1>2, <2>1 DEF StreamTypes
<1>4. /\ contents \in Seq(Bytes) /\ Len(contents) = Len(out) - at
      /\ Crop(out, 0, at) \in Seq(Bytes) /\ Len(Crop(out, 0, at)) = at
  <2>1. at \in 0 .. Len(out) /\ 0 + at <= Len(out) /\ 0 \in Nat
    BY <1>2, <1>3
  <2> HIDE DEF at
  <2> QED
    BY <1>2, <2>1, Cropped, CroppedFrom
<1> HIDE DEF at, contents, H
<1>5. Len(out) + H * n < MaxSize - Base /\ H * n \in Nat /\ H \in Nat /\ n >= 1
      /\ MaxSize - Base \in Nat
  <2>1. MaxSize - Base \in Nat
    BY WidthIs
  <2>2. H * n \in Nat /\ H \in Nat
    BY <1>2, WidthIs DEF H
  <2> QED
    BY <1>2, <2>1, <2>2 DEF StreamTypes, H
<1>6. h \in Seq(Bytes) /\ Len(h) \in Nat /\ Len(h) <= H
  <2>1. Len(contents) \in Nat
    BY <1>4
  <2>2. Len(contents) < MaxSize - Base
    <3> DEFINE top == MaxSize - Base
               more == H * n
    <3>1. top \in Nat /\ more \in Nat /\ Len(out) + more < top
      BY <1>5
    <3> HIDE DEF top, more
    <3>2. Len(contents) < top
      BY <1>2, <1>3, <1>4, <2>1, <3>1
    <3> QED
      BY <3>2 DEF top
  <2>3. h \in Seq(Bytes) /\ Len(h) <= 1 + MaxLengthBytes
    BY <2>1, <2>2, Headers
  <2> QED
    BY <2>3 DEF H
<1> HIDE DEF h
<1>7. out' \in Seq(Bytes) /\ Len(out') = Len(out) + Len(h)
  <2> DEFINE front == Crop(out, 0, at) \o h
  <2>1. front \in Seq(Bytes) /\ Len(front) = at + Len(h)
    <3> DEFINE c == Crop(out, 0, at)
    <3>1. c \in Seq(Bytes) /\ Len(c) = at
      BY <1>4
    <3> HIDE DEF c
    <3> QED
      BY <1>6, <3>1 DEF c
  <2>2. out' = front \o contents
    BY <1>1
  <2> HIDE DEF front
  <2>3. out' \in Seq(Bytes) /\ Len(out') = Len(front) + Len(contents)
    BY <1>4, <2>1, <2>2, ConcatProperties
  <2> QED
    BY <1>2, <1>3, <1>4, <1>6, <2>1, <2>3
<1>8. /\ listStack' \in Seq(R) /\ Len(listStack') = n - 1
      /\ \A k \in 1 .. (n - 1) : listStack'[k] = listStack[k]
  <2>1. listStack' = Front(listStack) /\ Len(listStack) > 0
    BY <1>1, <1>2
  <2> HIDE DEF R
  <2> QED
    BY <1>2, <2>1, FrontIs
<1>9. \A k \in 1 .. Len(listStack') : listStack'[k].at <= Len(out')
  <2>1. ASSUME NEW k \in 1 .. (n - 1) PROVE listStack'[k].at <= Len(out')
    <3>1. k \in 1 .. n
      BY <1>2, <2>1
    <3>2. listStack[k] \in R
      BY <1>2, <3>1, ElementOfSeq
    <3>3. listStack[k].at \in Nat /\ listStack[k].at <= Len(out)
      BY <3>1, <3>2 DEF StreamTypes
    <3>4. listStack'[k] = listStack[k]
      BY <1>8, <2>1
    <3> QED
      <4> DEFINE x == listStack[k].at
                 y == Len(out)
                 z == Len(h)
      <4>1. x \in Nat /\ y \in Nat /\ z \in Nat /\ x <= y
        BY <1>2, <1>6, <3>3
      <4> HIDE DEF x, y, z
      <4>2. x <= y + z
        BY <4>1
      <4> QED
        BY <1>7, <3>4, <4>2 DEF x, y, z
  <2> QED
    BY <1>8, <2>1
<1>10. (Len(out) + (1 + MaxLengthBytes) * Len(listStack) < MaxSize - Base)'
  <2>1. n - 1 \in Nat /\ (n - 1) + 1 = n
    BY <1>2, <1>5
  <2>2. H * (n - 1) \in Nat /\ H * n = H * (n - 1) + H
    BY <2>1, WidthIs DEF H
  <2> DEFINE top == MaxSize - Base
             less == H * (n - 1)
  <2>3. less \in Nat /\ top \in Nat /\ Len(out) + (less + H) < top
    BY <1>5, <2>2
  <2> HIDE DEF top, less
  <2>4. Len(out') + less < top
    BY <1>2, <1>5, <1>6, <1>7, <2>3
  <2> QED
    BY <1>8, <2>4 DEF top, less, H
<1>11. PICK I : Kept(I)
  BY DEF StreamTypes
<1> DEFINE item == ListItem(Top(opened).count, Top(opened).items)
           J == I \union {item}
           S == [count : Nat, items : Seq(J)]
           outer == Front(opened)
           e == outer[Len(outer)]
           f == [e EXCEPT !.items = Append(@, item)]
<1>12. Kept(J) /\ item \in J
  BY <1>11, KeptMore
<1> HIDE DEF item, J
<1>13. opened \in Seq(S) /\ made' \in [bytes : Seq(Bytes), items : Seq(J)]
  BY <1>1, <1>12 DEF Kept
<1>14. outer \in Seq(S) /\ Len(outer) = n
  <2> HIDE DEF S
  <2> QED
    BY <1>2, <1>13 DEF Front
<1>15. f \in S
  <2>1. e \in S
    BY <1>2, <1>14, ElementOfSeq
  <2> HIDE DEF e
  <2> QED
    BY <1>12, <2>1
<1>16. opened' \in Seq(S) /\ Len(opened') = n
  <2> HIDE DEF outer, S
  <2>1. opened' = [outer EXCEPT ![Len(outer)] = f]
    BY <1>1 DEF outer, item
  <2>2. Len(outer) \in 1 .. Len(outer)
    BY <1>2, <1>14
  <2> HIDE DEF f
  <2> QED
    BY <1>14, <1>15, <2>1, <2>2, ExceptSeq
<1>17. \E K : Kept(K)'
  BY <1>13, <1>16 DEF Kept
<1>18. noting' \in Nat /\ calls' \in Nat
  BY <1>1 DEF StreamTypes
<1>19. Len(opened') = Len(listStack') + 1
  BY <1>2, <1>8, <1>16
<1> QED
  BY <1>7, <1>8, <1>9, <1>10, <1>17, <1>18, <1>19 DEF StreamTypes

\* An empty stream beside the output that was taken.
LEMMA EmptiedTypes ==
    ASSUME StreamTypes, Emptied, calls' \in Nat,
           \E I : made' \in [bytes : Seq(Bytes), items : Seq(I)]
    PROVE  StreamTypes'
<1>1. out' = <<>> /\ listStack' = <<>> /\ noting' = 0 /\ opened' = <<Announced(0)>>
  BY DEF Emptied
<1>2. PICK I : made' \in [bytes : Seq(Bytes), items : Seq(I)]
  OBVIOUS
<1>3. Kept(I)'
  <2>1. Announced(0) \in [count : Nat, items : Seq(I)]
    BY DEF Announced
  <2>2. opened' \in Seq([count : Nat, items : Seq(I)])
    BY <1>1, <2>1
  <2> QED
    BY <1>2, <2>2 DEF Kept
<1>4. (Len(out) + (1 + MaxLengthBytes) * Len(listStack) < MaxSize - Base)'
  <2>1. Len(out') = 0 /\ Len(listStack') = 0
    BY <1>1
  <2>2. (1 + MaxLengthBytes) * 0 = 0
    BY WidthIs
  <2> QED
    BY <2>1, <2>2, WidthIs
<1>5. Len(opened') = 1 /\ Len(listStack') = 0
  BY <1>1
<1> QED
  BY <1>1, <1>3, <1>4, <1>5 DEF StreamTypes

LEMMA StreamKeepsTypes == ASSUME StreamTypes, StreamNext PROVE StreamTypes'
<1>1. ASSUME NEW s \in Strings, Append_(s) \/ AppendCompact(s) PROVE StreamTypes'
  <2>1. s \in Seq(Bytes) /\ Compact(s) \in Seq(Bytes)
    BY StreamAssumption, CompactIs
  <2>2. ASSUME NEW t \in Seq(Bytes), Write(StringBytes(t), <<StringItem(t)>>) PROVE StreamTypes'
    <3> DEFINE items == <<StringItem(t)>>
    <3>1. items \in Seq({StringItem(t)})
      OBVIOUS
    <3> HIDE DEF items
    <3> QED
      BY <2>2, <3>1, StringWritten, WriteTypes DEF items
  <2> QED
    BY <1>1, <2>1, <2>2 DEF Append_, AppendCompact
<1>2. ASSUME NEW n \in Numbers, AppendNumber(n) PROVE StreamTypes'
  <2> DEFINE items == <<StringItem(BigEndian(n))>>
             bytes == IntBytes(n)
  <2>1. items \in Seq({StringItem(BigEndian(n))})
    OBVIOUS
  <2>2. /\ Len(bytes) \in Nat
        /\ Len(bytes) < MaxSize - Base => bytes \in Seq(Bytes)
    BY StreamAssumption, IntWritten
  <2>3. Write(bytes, items)
    BY <1>2 DEF AppendNumber
  <2> HIDE DEF items, bytes
  <2> QED
    BY <2>1, <2>2, <2>3, WriteTypes
<1>3. ASSUME NEW n \in ListSizes, AppendList(n) PROVE StreamTypes'
  BY <1>3, StreamAssumption, AppendListTypes
<1>4. PICK I : made \in [bytes : Seq(Bytes), items : Seq(I)]
  BY DEF StreamTypes, Kept
<1>5. CASE AppendRaw
  <2>1. Len(made.bytes) \in Nat /\ made.bytes \in Seq(Bytes) /\ made.items \in Seq(I)
    BY <1>4
  <2>2. Write(made.bytes, made.items)
    BY <1>5 DEF AppendRaw
  <2> QED
    BY <2>1, <2>2, WriteTypes
<1>6. CASE AppendListBytes
  <2> DEFINE b == made.bytes
             bytes == ListHeader(Len(b)) \o b
             items == <<ListItem(Len(made.items), made.items)>>
  <2>1. items \in Seq({ListItem(Len(made.items), made.items)})
    OBVIOUS
  <2>2. /\ Len(bytes) \in Nat
        /\ Len(bytes) < MaxSize - Base => bytes \in Seq(Bytes)
    <3>1. b \in Seq(Bytes)
      BY <1>4
    <3> HIDE DEF b
    <3> QED
      BY <3>1, WithHeader
  <2>3. Write(bytes, items)
    BY <1>6 DEF AppendListBytes
  <2> HIDE DEF items, bytes
  <2> QED
    BY <2>1, <2>2, <2>3, WriteTypes
<1>7. CASE NoteEnds
  BY <1>7 DEF NoteEnds, StreamTypes, Kept
<1>8. CASE Clear
  BY <1>4, <1>8, EmptiedTypes DEF Clear, StreamTypes
<1>9. CASE SwapOut
  <2>1. opened[1].items \in Seq(I) \/ \E J : opened[1].items \in Seq(J)
    <3>1. PICK J : Kept(J)
      BY DEF StreamTypes
    <3>2. 1 \in 1 .. Len(opened)
      BY DEF StreamTypes
    <3>3. opened[1] \in [count : Nat, items : Seq(J)]
      BY <3>1, <3>2, ElementOfSeq DEF Kept
    <3> QED
      BY <3>3
  <2>2. \E J : made' \in [bytes : Seq(Bytes), items : Seq(J)]
    BY <1>9, <2>1 DEF SwapOut, StreamTypes
  <2> QED
    BY <1>9, <2>2, EmptiedTypes DEF SwapOut, StreamTypes
<1> QED
  BY <1>1, <1>2, <1>3, <1>5, <1>6, <1>7, <1>8, <1>9,
     NoteRefusedTypes, NoteCountedTypes, NoteCompletedTypes DEF StreamNext

-----------------------------------------------------------------------------
(* The invariants of the two together, and the theorem. *)

LEMMA Invariant == Spec => [](StreamTypes /\ RInv)
<1>1. Init => StreamTypes /\ RInv
  BY StreamStarts, ReaderStarts DEF Init
<1>2. StreamTypes /\ RInv /\ [Next]_vars => (StreamTypes /\ RInv)'
  <2> SUFFICES ASSUME StreamTypes, RInv, [Next]_vars PROVE (StreamTypes /\ RInv)'
    OBVIOUS
  <2>1. ASSUME UNCHANGED streamVars PROVE StreamTypes'
    BY <2>1 DEF streamVars, StreamTypes, Kept
  <2>2. ASSUME UNCHANGED readerVars PROVE RInv'
    <3>1. /\ rlp' = rlp /\ lastIndex' = lastIndex /\ lastEnd' = lastEnd /\ lastItem' = lastItem
          /\ reading' = reading /\ index' = index /\ iterator' = iterator
          /\ answer' = answer /\ threw' = threw /\ visited' = visited
      BY <2>2 DEF readerVars, cache
    <3> QED
      BY <3>1 DEF RInv, ReaderTypes, Cached, Asking, Answers, Looping, EndIterator
  <2>3. CASE Written
    BY <2>2, <2>3, StreamKeepsTypes DEF Written
  <2>4. CASE ReadMade
    <3> DEFINE input == [bytes |-> made.bytes, flags |-> VeryStrict]
    <3>1. PICK I : Kept(I)
      BY DEF StreamTypes
    <3>2. input \in [bytes : Seq(Bytes), flags : SUBSET Flags]
      BY <3>1 DEF Kept, VeryStrict, Flags
    <3>3. Construct(input)
      BY <2>4 DEF ReadMade
    <3>4. RInv'
      <4> HIDE DEF input
      <4> QED
        BY <3>2, <3>3, ConstructKeeps
    <3>5. Kept(I)'
      <4>1. made' \in [bytes : Seq(Bytes), items : Seq(I)]
        BY <2>4 DEF ReadMade, Nothing
      <4> QED
        BY <2>4, <3>1, <4>1 DEF ReadMade, Kept
    <3> QED
      BY <2>4, <3>4, <3>5 DEF ReadMade, StreamTypes
  <2>5. CASE Read
    BY <2>1, <2>5, ReaderKeeps DEF Read
  <2>6. CASE UNCHANGED vars
    BY <2>1, <2>2, <2>6 DEF vars
  <2> QED
    BY <2>3, <2>4, <2>5, <2>6 DEF Next
<1> QED
  BY <1>1, <1>2, PTL DEF Spec

\* An item is the same however it is reached: what operator[] answers from the item it kept is
\* what a new object would answer, unless a call before it threw, and a loop has the items in
\* their order, all of them when it ends.
THEOREM ReadersAlwaysAgree == Spec => []ReadersAgree
BY Invariant, InvariantAgrees, PTL

-----------------------------------------------------------------------------
(* StrictIsCanonical: bytes that say their own size are the only ones of what they hold. *)

\* A number of bytes that do not begin with zero has these bytes.
LEMMA NumberBack ==
    ASSUME NEW s \in Seq(Bytes), s # <<>>, s[1] # 0
    PROVE  BigEndian(NumberOf(s)) = s /\ NumberOf(s) \in Nat /\ NumberOf(s) > 0
<1> DEFINE n == Len(s)
<1>0. n \in Nat /\ n > 0 /\ \A k \in 1 .. n : s[k] \in Bytes
  OBVIOUS
<1>1. PICK f : /\ f \in [0 .. n -> Nat]
               /\ f[0] = 0
               /\ \A k \in 0 .. (n - 1) : f[k + 1] = f[k] * Base + s[k + 1]
               /\ NumberOf(s) = f[n]
  BY NumberOfType
<1> DEFINE Back(k) == /\ f[k] \in Nat /\ (k > 0 => f[k] > 0)
                      /\ BigEndian(f[k]) \in Seq(Bytes) /\ Len(BigEndian(f[k])) = k
                      /\ \A j \in 1 .. k : BigEndian(f[k])[j] = s[j]
           T == {k \in Nat : k <= n => Back(k)}
<1>2. 0 \in T
  <2>1. f[0] = 0 /\ BigEndian(f[0]) = <<>>
    BY <1>1, BigEndianType
  <2>2. <<>> \in Seq(Bytes) /\ Len(<<>>) = 0
    OBVIOUS
  <2>3. Back(0)
    <3>1. \A j \in 1 .. 0 : BigEndian(f[0])[j] = s[j]
      OBVIOUS
    <3>2. f[0] \in Nat /\ ~ (0 > 0)
      BY <2>1
    <3>3. BigEndian(f[0]) \in Seq(Bytes) /\ Len(BigEndian(f[0])) = 0
      BY <2>1, <2>2
    <3> QED
      BY <3>1, <3>2, <3>3, Zenon
  <2> HIDE DEF Back
  <2> QED
    BY <2>3
<1>3. ASSUME NEW k \in Nat, k \in T PROVE k + 1 \in T
  <2> SUFFICES ASSUME k + 1 <= n PROVE Back(k + 1)
    OBVIOUS
  <2>1. Back(k)
    BY <1>0, <1>3
  <2> DEFINE b == BigEndian(f[k])
             c == s[k + 1]
             m == f[k] * Base + c
  <2>2. k \in 0 .. (n - 1) /\ k + 1 \in 1 .. n
    BY <1>0
  <2>3. f[k + 1] = m /\ c \in Bytes /\ f[k] \in Nat
    BY <1>0, <1>1, <2>1, <2>2
  <2>4. m \div Base = f[k] /\ (m % Base) = c /\ m \in Nat
    BY <2>3, Quotient
  <2>5. m > 0
    <3>1. CASE k = 0
      <4>1. f[k] = 0 /\ c # 0
        BY <1>1, <3>1
      <4>2. 0 * Base = 0
        BY Parameters
      <4> HIDE DEF c
      <4>3. m = c
        BY <2>3, <4>1, <4>2 DEF Bytes
      <4> QED
        BY <2>4, <4>1, <4>3
    <3>2. CASE k > 0
      <4>1. f[k] > 0
        BY <2>1, <3>2
      <4>2. f[k] * Base > 0 /\ f[k] * Base \in Nat
        BY <2>3, <4>1, Parameters
      <4> HIDE DEF c
      <4> QED
        BY <2>3, <4>2 DEF Bytes
    <3> QED
      BY <3>1, <3>2
  <2> HIDE DEF m
  <2>6. BigEndian(m) = Append(b, c)
    BY <2>4, <2>5, BigEndianType
  <2>7. b \in Seq(Bytes) /\ Len(b) = k /\ \A j \in 1 .. k : b[j] = s[j]
    BY <2>1
  <2> HIDE DEF b, c
  <2>8. /\ Append(b, c) \in Seq(Bytes) /\ Len(Append(b, c)) = k + 1
        /\ \A j \in 1 .. k : Append(b, c)[j] = b[j]
        /\ Append(b, c)[k + 1] = c
    BY <2>3, <2>7
  <2>9. \A j \in 1 .. (k + 1) : Append(b, c)[j] = s[j]
    <3>1. ASSUME NEW j \in 1 .. (k + 1) PROVE Append(b, c)[j] = s[j]
      <4>1. CASE j = k + 1
        BY <2>8, <4>1 DEF c
      <4>2. CASE j # k + 1
        <5>1. j \in 1 .. k
          BY <4>2
        <5> QED
          BY <2>7, <2>8, <5>1
      <4> QED
        BY <4>1, <4>2
    <3> QED
      BY <3>1
  <2> QED
    BY <2>3, <2>4, <2>5, <2>6, <2>8, <2>9
<1>4. Nat \subseteq T
  <2> HIDE DEF T
  <2> QED
    BY <1>2, <1>3, SetInduction, Zenon
<1>5. Back(n)
  BY <1>0, <1>4
<1> HIDE DEF Back
<1>6. BigEndian(f[n]) = s /\ f[n] \in Nat /\ f[n] > 0
  BY <1>0, <1>5, SameBytes DEF Back
<1> QED
  BY <1>1, <1>6

\* The header of contents is in front of them again.
LEMMA HeaderBack ==
    ASSUME NEW d \in Seq(Bytes), d # <<>>, HasLength(d), ActualSize(d) = Len(d), ~ IsSingleByte(d)
    PROVE  /\ Payload(d) \in Seq(Bytes) /\ Len(Payload(d)) = Length(d)
           /\ PayloadOffset(d) \in Nat /\ PayloadOffset(d) >= 1
           /\ PayloadOffset(d) + Length(d) = Len(d)
           /\ IsList(d) => d = ListHeader(Len(Payload(d))) \o Payload(d)
           /\ ~ IsList(d) => d = DataHeader(Len(Payload(d))) \o Payload(d)
<1> DEFINE p == Payload(d)
           off == PayloadOffset(d)
           l == LengthSize(d)
           ls == SubSeq(d, 2, 1 + l)
           start == IF IsList(d) THEN ListStart ELSE DataImmLenStart
           count == IF IsList(d) THEN ListImmLenCount ELSE DataImmLenCount
           head == Header(Length(d), start, count)
<1>1. /\ l \in 0 .. MaxLengthBytes /\ l \in Nat /\ off = 1 + l /\ Length(d) \in Nat
      /\ off + Length(d) = Len(d) /\ Len(d) \in Nat
  BY Lengths, Parameters DEF PayloadOffset
<1>2. p \in Seq(Bytes) /\ Len(p) = Length(d) /\ \A k \in 1 .. Length(d) : p[k] = d[off + k]
  <2>1. off \in Nat /\ off + Length(d) <= Len(d)
    BY <1>1
  <2> HIDE DEF off
  <2> QED
    BY <1>1, <2>1, CutThere DEF Cut, Payload, off
<1>3. d[1] \in Bytes /\ d[1] \in Nat /\ (IsList(d) <=> d[1] >= ListStart) /\ (IsData(d) <=> d[1] < ListStart)
      /\ d[1] >= DataImmLenStart
  <2>1. d[1] \in Bytes
    BY <1>1
  <2> QED
    BY <2>1, Parameters DEF Bytes, IsList, IsData, IsSingleByte
<1>4. head \in Seq(Bytes) /\ Len(head) = off /\ \A k \in 1 .. off : head[k] = d[k]
  <2>1. CASE l = 0
    <3>1. Length(d) = d[1] - start /\ Length(d) < count
      BY <1>1, <1>3, <2>1, Parameters
         DEF Length, LengthSize, IsNull, DataIndLenZero, ListIndLenZero
    <3>2. head = <<start + Length(d)>> /\ start + Length(d) = d[1]
      BY <1>3, <3>1, Parameters DEF Header
    <3>3. head = <<d[1]>>
      BY <3>2
    <3>4. off = 1
      BY <1>1, <2>1
    <3> HIDE DEF head, off
    <3> QED
      BY <1>3, <3>3, <3>4
  <2>2. CASE l > 0
    <3>1. /\ Length(d) = NumberOf(ls) /\ Len(d) > l /\ d[2] # 0
          /\ Length(d) >= count
      BY <1>3, <2>2 DEF HasLength, Length, LengthRead, IsNull
    <3>2. ls \in Seq(Bytes) /\ Len(ls) = l /\ \A k \in 1 .. l : ls[k] = d[1 + k]
      <4>1. 2 \in Int /\ 1 + l \in Int /\ \A i \in 2 .. (1 + l) : d[i] \in Bytes
        BY <1>1, <3>1
      <4>2. /\ ls \in Seq(Bytes)
            /\ Len(ls) = IF 2 <= 1 + l THEN (1 + l) - 2 + 1 ELSE 0
            /\ \A i \in 1 .. (1 + l) - 2 + 1 : ls[i] = d[2 + i - 1]
        <5> HIDE DEF l
        <5> QED
          BY <4>1, SubSeqProperties
      <4>3. (1 + l) - 2 + 1 = l /\ 2 <= 1 + l /\ \A i \in 1 .. l : 2 + i - 1 = 1 + i
        BY <1>1, <2>2
      <4> HIDE DEF ls, l
      <4> QED
        BY <4>2, <4>3
    <3>3. ls # <<>> /\ ls[1] # 0
      <4>1. ls[1] = d[1 + 1] /\ 1 + 1 = 2
        BY <1>1, <2>2, <3>2
      <4> HIDE DEF ls, l
      <4> QED
        BY <2>2, <3>1, <3>2, <4>1
    <3> HIDE DEF ls
    <3>4. BigEndian(Length(d)) = ls /\ BytesRequired(Length(d)) = l
      BY <1>1, <3>1, <3>2, <3>3, NumberBack, BigEndianLength
    <3>5. start + count - 1 + l = d[1]
      BY <1>1, <1>3, <2>2, Parameters DEF LengthSize, DataIndLenZero, ListIndLenZero
    <3>6. head = <<d[1]>> \o ls
      <4>1. ~ (Length(d) < count)
        BY <1>1, <3>1, Parameters
      <4> QED
        BY <3>4, <3>5, <4>1 DEF Header
    <3> HIDE DEF head, l
    <3>7. head \in Seq(Bytes) /\ Len(head) = 1 + l
          /\ head[1] = d[1] /\ \A k \in 1 .. l : head[1 + k] = ls[k]
      BY <1>1, <1>3, <3>2, <3>6
    <3>8. ASSUME NEW k \in 1 .. (1 + l) PROVE head[k] = d[k]
      <4>1. CASE k = 1
        BY <3>7, <4>1
      <4>2. CASE k # 1
        <5>1. k - 1 \in 1 .. l /\ k = 1 + (k - 1)
          BY <1>1, <4>2
        <5> QED
          BY <3>2, <3>7, <5>1
      <4> QED
        BY <4>1, <4>2
    <3> QED
      BY <1>1, <3>7, <3>8
  <2> QED
    BY <1>1, <2>1, <2>2
<1> HIDE DEF head, p, off
<1>5. head \o p = d
  <2>1. /\ head \o p \in Seq(Bytes) /\ Len(head \o p) = Len(head) + Len(p)
        /\ \A i \in 1 .. Len(head) + Len(p) : (head \o p)[i] = IF i <= Len(head) THEN head[i] ELSE p[i - Len(head)]
    <3>1. head \in Seq(Bytes) /\ p \in Seq(Bytes)
      BY <1>2, <1>4
    <3> QED
      BY <3>1, ConcatProperties
  <2>2. ASSUME NEW k \in 1 .. Len(d) PROVE (head \o p)[k] = d[k]
    <3>1. (head \o p)[k] = IF k <= off THEN head[k] ELSE p[k - off]
      BY <1>1, <1>2, <1>4, <2>1
    <3>2. CASE k <= off
      <4>1. k \in 1 .. off
        BY <1>1, <3>2
      <4> QED
        BY <1>4, <3>1, <3>2, <4>1
    <3>3. CASE ~ (k <= off)
      <4>1. k - off \in 1 .. Length(d) /\ off + (k - off) = k
        BY <1>1, <3>3
      <4> QED
        BY <1>2, <3>1, <3>3, <4>1
    <3> QED
      BY <3>2, <3>3
  <2>3. Len(head \o p) = Len(d)
    BY <1>1, <1>2, <1>4, <2>1
  <2> QED
    BY <2>1, <2>2, <2>3, SameBytes
<1>6. head = IF IsList(d) THEN ListHeader(Len(p)) ELSE DataHeader(Len(p))
  BY <1>2 DEF head, ListHeader, DataHeader
<1> QED
  BY <1>1, <1>2, <1>5, <1>6 DEF p, off

\* The items of a payload are in it, and those of one that ends with an item are there.
LEMMA ItemShorter ==
    ASSUME NEW p \in Seq(Bytes), NEW i \in Nat
    PROVE  Item(p, i) \in Seq(Bytes) /\ Len(Item(p, i)) <= Len(p)
<1> DEFINE a == ItemStart(p)[i]
           b == ItemStart(p)[i + 1]
<1>1. a \in 0 .. Len(p) /\ b \in 0 .. Len(p) /\ b = Ahead(p, a) /\ Len(p) \in Nat
  <2>1. i + 1 \in Nat /\ Len(p) \in Nat
    OBVIOUS
  <2> QED
    BY <2>1, ItemStarts
<1>2. a <= b
  <2>1. HasSize(CropFrom(p, a)) => ActualSize(CropFrom(p, a)) \in Nat
    BY <1>1, CroppedFrom, Lengths DEF HasSize
  <2> HIDE DEF a, b
  <2> QED
    BY <1>1, <2>1 DEF Ahead
<1>3. Item(p, i) = Crop(p, a, b - a)
  BY DEF Item
<1> HIDE DEF a, b
<1>4. b - a \in Nat /\ a \in Nat /\ a + (b - a) <= Len(p) /\ b - a <= Len(p)
  BY <1>1, <1>2
<1> QED
  BY <1>3, <1>4, Cropped

LEMMA ItemsThere ==
    ASSUME NEW p \in Seq(Bytes), HasItems(p)
    PROVE  /\ ItemCount(p) \in Nat /\ ItemStart(p)[ItemCount(p)] = Len(p)
           /\ \A i \in 0 .. (ItemCount(p) - 1) : HasItem(p, i) /\ HasSize(CropFrom(p, ItemStart(p)[i]))
<1> DEFINE s == ItemStart(p)
           n == ItemCount(p)
           L == Len(p)
<1>0. s \in [Nat -> 0 .. L] /\ \A k \in Nat : s[k + 1] = Ahead(p, s[k])
  BY ItemStarts
<1>1. n \in Ends(p) /\ n \in Nat /\ s[n] = L
  <2>1. Ends(p) \in SUBSET Nat /\ Ends(p) # {}
    BY DEF Ends, HasItems
  <2>2. PICK m \in Ends(p) : \A k \in Ends(p) : m <= k
    BY <2>1, LeastNumber
  <2>3. Min(Ends(p)) \in Ends(p)
    BY <2>2 DEF Min
  <2> QED
    BY <2>1, <2>3 DEF ItemCount, Ends, HasItems
<1> HIDE DEF n
<1>2. ASSUME NEW i \in 0 .. (n - 1), ~ HasSize(CropFrom(p, s[i])) PROVE FALSE
  <2> DEFINE T == {k \in Nat : s[i + k] = s[i]}
  <2>1. 0 \in T
    <3>1. i + 0 = i
      BY <1>1
    <3> QED
      BY <3>1
  <2>2. ASSUME NEW k \in Nat, k \in T PROVE k + 1 \in T
    <3>1. i + k \in Nat /\ i + (k + 1) = (i + k) + 1 /\ s[i + k] = s[i] /\ s[i] \in 0 .. L
      BY <1>0, <1>1, <2>2
    <3>2. s[(i + k) + 1] = Ahead(p, s[i])
      BY <1>0, <3>1
    <3>3. Ahead(p, s[i]) = s[i] + 0
      BY <1>2 DEF Ahead
    <3>4. s[i] + 0 = s[i]
      BY <3>1
    <3> HIDE DEF s
    <3> QED
      BY <3>1, <3>2, <3>3, <3>4
  <2>3. Nat \subseteq T
    <3> HIDE DEF T
    <3> QED
      BY <2>1, <2>2, SetInduction, Zenon
  <2>4. n - i \in Nat /\ i + (n - i) = n /\ i \in Nat
    BY <1>1
  <2>5. s[i] = L
    BY <1>1, <2>3, <2>4
  <2>6. CropFrom(p, L) = <<>>
    <3>1. L \in 0 .. L /\ L - L = 0
      OBVIOUS
    <3> QED
      BY <3>1, CroppedFrom
  <2> QED
    BY <1>2, <2>5, <2>6, NothingHasSize
<1>3. ASSUME NEW i \in 0 .. (n - 1) PROVE HasItem(p, i) /\ HasSize(CropFrom(p, s[i]))
  <2>1. \A k \in 0 .. i : k \in 0 .. (n - 1)
    BY <1>1
  <2> QED
    BY <1>2, <2>1 DEF HasItem
<1> QED
  BY <1>1, <1>3 DEF n

\* Bytes that are long enough for what they say have their payload in them.
LEMMA SizedPayload ==
    ASSUME NEW b \in Seq(Bytes), HasSize(b)
    PROVE  /\ HasPayload(b) /\ Payload(b) \in Seq(Bytes)
           /\ IsList(b) => Len(Payload(b)) < Len(b)
<1>1. CASE b = <<>>
  <2>1. HasPayload(b) /\ ~ IsList(b)
    BY <1>1 DEF HasPayload, HasLength, Length, IsNull, IsList
  <2> QED
    BY <2>1, PayloadIs
<1>2. CASE b # <<>>
  <2>1. HasLength(b) /\ ActualSize(b) <= Len(b)
    BY DEF HasSize
  <2>2. /\ PayloadOffset(b) \in Nat /\ Length(b) \in Nat
        /\ ActualSize(b) = PayloadOffset(b) + Length(b)
    BY <1>2, <2>1, Lengths
  <2>3. PayloadOffset(b) + Length(b) <= Len(b) /\ Len(b) \in Nat
    BY <2>1, <2>2
  <2>4. HasPayload(b)
    BY <2>1, <2>2, <2>3 DEF HasPayload
  <2>5. Payload(b) \in Seq(Bytes) /\ Len(Payload(b)) = Length(b)
    BY <2>3, <2>4, PayloadIs
  <2>6. ASSUME IsList(b) PROVE PayloadOffset(b) >= 1
    <3>1. ~ IsSingleByte(b)
      <4>1. b[1] \in Nat
        <5>1. b[1] \in Bytes
          BY <1>2
        <5> QED
          BY <5>1 DEF Bytes
      <4> QED
        BY <2>6, <4>1, Parameters DEF IsList, IsSingleByte
    <3>2. LengthSize(b) \in Nat
      BY <2>1, Lengths, Parameters
    <3> QED
      BY <3>1, <3>2 DEF PayloadOffset
  <2> QED
    BY <2>2, <2>3, <2>4, <2>5, <2>6
<1> QED
  BY <1>1, <1>2

\* One sequence after the other.
Joins(f, q, n, S) ==
    /\ f \in [0 .. n -> Seq(S)] /\ f[0] = <<>>
    /\ \A k \in 0 .. (n - 1) : f[k + 1] = f[k] \o q[k + 1]
    /\ FlattenSeq(q) = f[n]

LEMMA Flattened ==
    ASSUME NEW S, NEW q, NEW n \in Nat, q \in [1 .. n -> Seq(S)]
    PROVE  \E f : Joins(f, q, n, S)
<1> DEFINE V == Seq(S)
           F == [k \in Nat |-> [u \in V |-> u \o (IF k < n THEN q[k + 1] ELSE <<>>)]]
           Equation(f) == f = [i \in 1 .. Len(q) |-> IF i = 1 THEN q[i] ELSE f[i - 1] \o q[i]]
           w == CHOOSE f : Equation(f)
<1>0. q \in Seq(Seq(S)) /\ Len(q) = n
  OBVIOUS
<1>1. Keeps(F, V)
  <2>1. ASSUME NEW k \in Nat, NEW u \in V PROVE F[k][u] \in V
    <3>1. CASE k < n
      <4>1. k + 1 \in 1 .. n
        BY <3>1
      <4>2. q[k + 1] \in V
        BY <4>1
      <4>3. u \o q[k + 1] \in V
        BY <4>2
      <4> HIDE DEF V
      <4> QED
        BY <3>1, <4>3
    <3>2. CASE ~ (k < n)
      <4>1. u \o <<>> \in V
        OBVIOUS
      <4> HIDE DEF V
      <4> QED
        BY <3>2, <4>1
    <3> QED
      BY <3>1, <3>2
  <2> HIDE DEF F, V
  <2> QED
    BY <2>1 DEF Keeps
<1>2. PICK g : Iterates(g, n, F, V, <<>>)
  <2>1. <<>> \in V
    OBVIOUS
  <2> HIDE DEF F, V
  <2> QED
    BY <1>1, <2>1, BoundedIteration, Zenon
<1>3. g \in [0 .. n -> V] /\ g[0] = <<>>
  BY <1>2 DEF Iterates
<1>4. ASSUME NEW k \in 0 .. (n - 1) PROVE g[k + 1] = g[k] \o q[k + 1]
  <2>1. g[k + 1] = F[k][g[k]]
    BY <1>2, Zenon DEF Iterates
  <2>2. g[k] \in V /\ k \in Nat /\ k < n
    BY <1>3, <1>4
  <2> HIDE DEF V
  <2> QED
    BY <2>1, <2>2
<1> HIDE DEF V, F
<1>5. CASE n = 0
  <2>1. FlattenSeq(q) = <<>>
    BY <1>0, <1>5 DEF FlattenSeq
  <2> QED
    BY <1>3, <1>4, <1>5, <2>1 DEF V, Joins
<1>6. CASE n > 0
  <2> DEFINE h == [i \in 1 .. n |-> g[i]]
  <2>1. Equation(h)
    <3>1. ASSUME NEW i \in 1 .. n PROVE g[i] = IF i = 1 THEN q[i] ELSE h[i - 1] \o q[i]
      <4>1. i - 1 \in 0 .. (n - 1) /\ (i - 1) + 1 = i
        BY <3>1
      <4>2. g[i] = g[i - 1] \o q[i]
        BY <1>4, <4>1
      <4>3. CASE i = 1
        <5>1. g[i] = <<>> \o q[1] /\ q[1] \in Seq(S)
          BY <1>3, <1>6, <4>2, <4>3
        <5> QED
          BY <4>3, <5>1, ConcatEmptySeq
      <4>4. CASE i # 1
        <5>1. i - 1 \in 1 .. n
          BY <3>1, <4>4
        <5> QED
          BY <4>2, <4>4, <5>1
      <4> QED
        BY <4>3, <4>4
    <3> QED
      BY <1>0, <3>1
  <2>2. Equation(w)
    <3> HIDE DEF Equation, h
    <3> QED
      BY <2>1, Zenon
  <2>3. FlattenSeq(q) = w[n]
    BY <1>0, <1>6 DEF FlattenSeq
  <2> HIDE DEF w
  <2> DEFINE T == {k \in Nat : k + 1 <= n => w[k + 1] = g[k + 1]}
  <2>4. /\ w[1] = q[1]
        /\ \A i \in 1 .. n : i # 1 => w[i] = w[i - 1] \o q[i]
    <3>1. w = [i \in 1 .. n |-> IF i = 1 THEN q[i] ELSE w[i - 1] \o q[i]]
      BY <1>0, <2>2
    <3>2. 1 \in 1 .. n
      BY <1>6
    <3>3. \A i \in 1 .. n : w[i] = IF i = 1 THEN q[i] ELSE w[i - 1] \o q[i]
      BY <3>1, Zenon
    <3> QED
      BY <3>2, <3>3
  <2>5. 0 \in T
    <3>0. 0 \in 0 .. (n - 1) /\ 0 + 1 = 1 /\ 1 \in 1 .. n
      BY <1>6
    <3>1. g[0 + 1] = g[0] \o q[0 + 1] /\ 0 + 1 = 1
      BY <1>4, <3>0
    <3>2. q[1] \in Seq(S)
      BY <3>0
    <3> QED
      BY <1>3, <2>4, <3>1, <3>2, ConcatEmptySeq
  <2>6. ASSUME NEW k \in Nat, k \in T PROVE k + 1 \in T
    <3> SUFFICES ASSUME (k + 1) + 1 <= n PROVE w[(k + 1) + 1] = g[(k + 1) + 1]
      OBVIOUS
    <3>1. k + 1 \in 0 .. (n - 1) /\ (k + 1) + 1 \in 1 .. n /\ (k + 1) + 1 # 1 /\ ((k + 1) + 1) - 1 = k + 1
      OBVIOUS
    <3>2. w[k + 1] = g[k + 1]
      BY <2>6
    <3>3. w[(k + 1) + 1] = w[k + 1] \o q[(k + 1) + 1]
      BY <2>4, <3>1
    <3> QED
      BY <1>4, <3>1, <3>2, <3>3
  <2>7. Nat \subseteq T
    <3> HIDE DEF T
    <3> QED
      BY <2>5, <2>6, SetInduction, Zenon
  <2>8. w[n] = g[n]
    <3>1. n - 1 \in Nat /\ (n - 1) + 1 = n /\ n <= n
      BY <1>6
    <3>2. n - 1 \in T
      BY <2>7, <3>1
    <3>3. (n - 1) + 1 <= n => w[(n - 1) + 1] = g[(n - 1) + 1]
      BY <3>2
    <3> HIDE DEF T
    <3> QED
      BY <3>1, <3>3
  <2>9. g \in [0 .. n -> Seq(S)] /\ FlattenSeq(q) = g[n]
    BY <1>3, <2>3, <2>8 DEF V
  <2>10. \A k \in 0 .. (n - 1) : g[k + 1] = g[k] \o q[k + 1]
    BY <1>4
  <2> WITNESS g
  <2> QED
    BY <1>3, <2>9, <2>10 DEF Joins
<1>7. n = 0 \/ n > 0
  OBVIOUS
<1> QED
  BY <1>5, <1>6, <1>7, Zenon

LEMMA OpensStrict ==
    ASSUME NEW b \in Seq(Bytes), Opens(b, VeryStrict)
    PROVE  HasLength(b) /\ ActualSize(b) = Len(b) /\ HasSize(b)
<1>1. HasLength(b) /\ ActualSize(b) >= Len(b) /\ ActualSize(b) <= Len(b)
  BY DEF Opens, Fits, VeryStrict
<1>2. ActualSize(b) \in Nat /\ Len(b) \in Nat
  BY <1>1, Lengths
<1> QED
  BY <1>1, <1>2 DEF HasSize

LEMMA CountIsNat == ASSUME NEW p \in Seq(Bytes) PROVE ItemCount(p) \in Nat
BY ItemsThere DEF ItemCount

\* The items of a list are shorter than the list.
LEMMA ItemsShorter ==
    ASSUME NEW b \in Seq(Bytes), HasSize(b), IsList(b), NEW i \in Nat
    PROVE  Item(Payload(b), i) \in Seq(Bytes) /\ Len(Item(Payload(b), i)) < Len(b)
<1> DEFINE p == Payload(b)
           d == Item(p, i)
<1>1. p \in Seq(Bytes) /\ Len(p) < Len(b)
  BY SizedPayload
<1> HIDE DEF p
<1>2. d \in Seq(Bytes) /\ Len(d) <= Len(p)
  BY <1>1, ItemShorter
<1> HIDE DEF d
<1>3. Len(d) \in Nat /\ Len(p) \in Nat /\ Len(b) \in Nat
  BY <1>1, <1>2
<1>4. Len(d) < Len(b)
  BY <1>1, <1>2, <1>3
<1> QED
  BY <1>2, <1>4 DEF p, d

LEMMA WholeIs ==
    ASSUME NEW d \in Seq(Bytes)
    PROVE  Whole(d) <=> /\ d # <<>> /\ Opens(d, VeryStrict)
                        /\ IsList(d) => LET p == Payload(d)
                                        IN  HasItems(p) /\ \A i \in 0 .. (ItemCount(p) - 1) : Whole(Item(p, i))
<1> DEFINE D == Seq(Bytes)
           Body(f, b) == /\ b # <<>> /\ Opens(b, VeryStrict)
                         /\ IsList(b) => LET p == Payload(b)
                                         IN  HasItems(p) /\ \A i \in 0 .. (ItemCount(p) - 1) : f[Item(p, i)]
           F == [f \in [D -> BOOLEAN] |-> [b \in D |-> Body(f, b)]]
           M == [b \in D |-> Len(b)]
           Equation(f) == f = [b \in Seq(Bytes) |-> Body(f, b)]
           w == CHOOSE f : Equation(f)
<1>1. M \in [D -> Nat] /\ F \in [[D -> BOOLEAN] -> [D -> BOOLEAN]]
  OBVIOUS
<1>2. ASSUME NEW f \in [D -> BOOLEAN], NEW g \in [D -> BOOLEAN], NEW b \in D,
             \A y \in D : M[y] < M[b] => f[y] = g[y]
      PROVE  F[f][b] = F[g][b]
  <2>1. F[f][b] = Body(f, b) /\ F[g][b] = Body(g, b)
    OBVIOUS
  <2>2. ASSUME Opens(b, VeryStrict), IsList(b), NEW i \in 0 .. (ItemCount(Payload(b)) - 1)
        PROVE  f[Item(Payload(b), i)] = g[Item(Payload(b), i)]
    <3>1. i \in Nat /\ HasSize(b)
      BY <2>2, OpensStrict
    <3>2. Item(Payload(b), i) \in D /\ Len(Item(Payload(b), i)) < Len(b)
      BY <2>2, <3>1, ItemsShorter
    <3> QED
      BY <1>2, <3>2
  <2> HIDE DEF F
  <2> QED
    BY <2>1, <2>2
<1>3. Shrinks(F, D, BOOLEAN, M)
  <2> HIDE DEF F, M, D
  <2> QED
    BY <1>1, <1>2, Zenon DEF Shrinks
<1>4. \E f : Equation(f)
  <2>1. PICK f : Fixes(f, F, D, BOOLEAN)
    <3>1. TRUE \in BOOLEAN
      OBVIOUS
    <3> HIDE DEF F, M, D
    <3> QED
      BY <1>3, <3>1, MeasureRecursion, Zenon
  <2> HIDE DEF Body
  <2>2. f = [b \in D |-> Body(f, b)]
    BY <2>1 DEF Fixes
  <2> QED
    BY <2>2
<1>5. Equation(w)
  <2> HIDE DEF Equation
  <2> QED
    BY <1>4, Zenon
<1>6. \A b : Whole(b) = w[b]
  BY DEF Whole
<1> HIDE DEF w
<1>7. w[d] = Body(w, d)
  <2> HIDE DEF Body
  <2> QED
    BY <1>5
<1> QED
  BY <1>6, <1>7

LEMMA RewrittenIs ==
    ASSUME NEW d \in Seq(Bytes), HasSize(d)
    PROVE  Rewritten(d) =
               IF IsList(d)
               THEN LET p == Payload(d)
                        c == FlattenSeq([k \in 1 .. ItemCount(p) |-> Rewritten(Item(p, k - 1))])
                    IN  ListHeader(Len(c)) \o c
               ELSE StringBytes(Payload(d))
<1> DEFINE D == Seq(Bytes)
           V == Seq(Nat)
           Parts(f, b) == [k \in 1 .. ItemCount(Payload(b)) |-> f[Item(Payload(b), k - 1)]]
           Body(f, b) == IF ~ HasSize(b) THEN <<>>
                         ELSE IF IsList(b)
                         THEN LET p == Payload(b)
                                  c == FlattenSeq([k \in 1 .. ItemCount(p) |-> f[Item(p, k - 1)]])
                              IN  ListHeader(Len(c)) \o c
                         ELSE StringBytes(Payload(b))
           F == [f \in [D -> V] |-> [b \in D |-> Body(f, b)]]
           M == [b \in D |-> Len(b)]
           Equation(f) == f = [b \in Seq(Bytes) |-> Body(f, b)]
           w == CHOOSE f : Equation(f)
<1>0. ASSUME NEW b \in D, HasSize(b), IsList(b), NEW k \in 1 .. ItemCount(Payload(b))
      PROVE  Item(Payload(b), k - 1) \in D /\ Len(Item(Payload(b), k - 1)) < Len(b)
  <2>1. ItemCount(Payload(b)) \in Nat
    BY <1>0, SizedPayload, CountIsNat
  <2>2. k - 1 \in Nat
    BY <2>1
  <2> QED
    BY <1>0, <2>2, ItemsShorter
<1>1. ASSUME NEW f \in [D -> V], NEW b \in D PROVE Body(f, b) \in V
  <2>1. CASE ~ HasSize(b)
    BY <2>1
  <2>2. CASE HasSize(b) /\ IsList(b)
    <3> DEFINE n == ItemCount(Payload(b))
               c == FlattenSeq(Parts(f, b))
    <3>1. n \in Nat
      BY <2>2, SizedPayload, CountIsNat
    <3>2. Parts(f, b) \in [1 .. n -> V]
      BY <1>0, <2>2
    <3> HIDE DEF Parts
    <3>3. c \in V
      <4> DEFINE q == Parts(f, b)
      <4>1. n \in Nat /\ q \in [1 .. n -> Seq(Nat)]
        BY <3>1, <3>2
      <4> HIDE DEF n, q
      <4>2. PICK h : Joins(h, q, n, Nat)
        BY <4>1, Flattened, Zenon
      <4>3. n \in 0 .. n
        BY <4>1
      <4> QED
        BY <4>2, <4>3 DEF q, Joins
    <3> HIDE DEF c
    <3>4. ListHeader(Len(c)) \in V
      BY <3>3, Headers
    <3>5. ListHeader(Len(c)) \o c \in V
      BY <3>3, <3>4
    <3>6. Body(f, b) = ListHeader(Len(c)) \o c
      BY <2>2 DEF c, Parts
    <3> QED
      BY <3>5, <3>6, Zenon
  <2>3. CASE HasSize(b) /\ ~ IsList(b)
    <3> DEFINE s == Payload(b)
    <3>1. s \in Seq(Bytes) /\ Bytes \subseteq Nat
      BY <2>3, SizedPayload DEF Bytes
    <3> HIDE DEF s
    <3>2. s \in V
      BY <3>1, SeqMonotonic
    <3>3. DataHeader(Len(s)) \in V
      BY <3>1, Headers
    <3>4. DataHeader(Len(s)) \o s \in V
      BY <3>2, <3>3
    <3>5. StringBytes(s) \in V
      BY <3>2, <3>4 DEF StringBytes
    <3> QED
      BY <2>3, <3>5 DEF s
  <2> QED
    BY <2>1, <2>2, <2>3
<1>2. M \in [D -> Nat] /\ F \in [[D -> V] -> [D -> V]]
  <2> HIDE DEF Body, V
  <2> QED
    BY <1>1
<1>3. ASSUME NEW f \in [D -> V], NEW g \in [D -> V], NEW b \in D,
             \A y \in D : M[y] < M[b] => f[y] = g[y]
      PROVE  F[f][b] = F[g][b]
  <2>1. F[f][b] = Body(f, b) /\ F[g][b] = Body(g, b)
    OBVIOUS
  <2>2. ASSUME HasSize(b), IsList(b) PROVE Parts(f, b) = Parts(g, b)
    BY <1>0, <1>3, <2>2
  <2>3. Body(f, b) = Body(g, b)
    BY <2>2
  <2> HIDE DEF F, Body
  <2> QED
    BY <2>1, <2>3
<1>4. Shrinks(F, D, V, M)
  <2> HIDE DEF F, M, D, V
  <2> QED
    BY <1>2, <1>3, Zenon DEF Shrinks
<1>5. \E f : Equation(f)
  <2>1. PICK f : Fixes(f, F, D, V)
    <3>1. <<>> \in V
      OBVIOUS
    <3> HIDE DEF F, M, D, V
    <3> QED
      BY <1>4, <3>1, MeasureRecursion, Zenon
  <2> HIDE DEF Body
  <2>2. f = [b \in D |-> Body(f, b)]
    BY <2>1 DEF Fixes
  <2> QED
    BY <2>2
<1>6. Equation(w)
  <2> HIDE DEF Equation
  <2> QED
    BY <1>5, Zenon
<1>7. \A b : Rewritten(b) = w[b]
  BY DEF Rewritten
<1> HIDE DEF w
<1>8. w[d] = Body(w, d)
  <2> HIDE DEF Body
  <2> QED
    BY <1>6
<1> QED
  BY <1>7, <1>8

LEMMA CropsJoin ==
    ASSUME NEW p \in Seq(Bytes), NEW a \in Nat, NEW b \in Nat, a <= b, b <= Len(p)
    PROVE  Crop(p, 0, a) \o Crop(p, a, b - a) = Crop(p, 0, b)
<1> DEFINE x == Crop(p, 0, a)
           y == Crop(p, a, b - a)
           z == Crop(p, 0, b)
<1>1. /\ b - a \in Nat /\ a + (b - a) <= Len(p) /\ 0 + a <= Len(p) /\ 0 + b <= Len(p) /\ 0 \in Nat
      /\ Len(p) \in Nat
  OBVIOUS
<1>2. x \in Seq(Bytes) /\ Len(x) = a /\ \A k \in 1 .. a : x[k] = p[0 + k]
  BY <1>1, CutThere DEF Cut
<1>3. y \in Seq(Bytes) /\ Len(y) = b - a /\ \A k \in 1 .. (b - a) : y[k] = p[a + k]
  BY <1>1, CutThere DEF Cut
<1>4. z \in Seq(Bytes) /\ Len(z) = b /\ \A k \in 1 .. b : z[k] = p[0 + k]
  BY <1>1, CutThere DEF Cut
<1> HIDE DEF x, y, z
<1> DEFINE w == x \o y
<1>5. /\ w \in Seq(Bytes) /\ Len(w) = Len(x) + Len(y)
      /\ \A k \in 1 .. Len(x) : w[k] = x[k]
      /\ \A k \in 1 .. Len(y) : w[Len(x) + k] = y[k]
  BY <1>2, <1>3, Joined, Zenon
<1> HIDE DEF w
<1>6. Len(w) = b
  BY <1>2, <1>3, <1>5
<1>7. ASSUME NEW k \in 1 .. b PROVE w[k] = z[k]
  <2>1. CASE k <= a
    <3>1. k \in 1 .. a /\ 0 + k = k
      BY <2>1
    <3> QED
      BY <1>2, <1>4, <1>5, <3>1
  <2>2. CASE ~ (k <= a)
    <3>1. k - a \in 1 .. (b - a) /\ a + (k - a) = k /\ 0 + k = k
      BY <2>2
    <3>2. w[a + (k - a)] = y[k - a]
      BY <1>2, <1>3, <1>5, <3>1
    <3>3. y[k - a] = p[a + (k - a)] /\ z[k] = p[k]
      BY <1>3, <1>4, <3>1
    <3> QED
      BY <3>1, <3>2, <3>3
  <2> QED
    BY <2>1, <2>2
<1>8. w = z
  BY <1>4, <1>5, <1>6, <1>7, SameBytes
<1> QED
  BY <1>8 DEF w, x, y, z

LEMMA ItemsFlattened ==
    ASSUME NEW p \in Seq(Bytes), HasItems(p)
    PROVE  FlattenSeq([k \in 1 .. ItemCount(p) |-> Item(p, k - 1)]) = p
<1> DEFINE n == ItemCount(p)
           s == ItemStart(p)
           q == [k \in 1 .. n |-> Item(p, k - 1)]
<1>1. n \in Nat /\ s[n] = Len(p) /\ Len(p) \in Nat
  BY ItemsThere
<1>2. q \in [1 .. n -> Seq(Bytes)]
  <2>1. ASSUME NEW k \in 1 .. n PROVE Item(p, k - 1) \in Seq(Bytes)
    <3>1. k - 1 \in Nat
      BY <1>1, <2>1
    <3> QED
      BY <3>1, ItemShorter
  <2> QED
    BY <2>1
<1>3. PICK f : Joins(f, q, n, Bytes)
  <2> HIDE DEF q, n
  <2> QED
    BY <1>1, <1>2, Flattened, Zenon
<1>4. s \in [Nat -> 0 .. Len(p)] /\ s[0] = 0
  BY ItemStarts
<1> DEFINE T == {k \in Nat : k <= n => f[k] = Crop(p, 0, s[k])}
<1>5. 0 \in T
  <2>1. f[0] = <<>>
    BY <1>3 DEF Joins
  <2>2. Crop(p, 0, 0) \in Seq(Bytes) /\ Len(Crop(p, 0, 0)) = 0
    <3>1. 0 \in Nat /\ 0 + 0 <= Len(p)
      BY <1>1
    <3> QED
      BY <3>1, Cropped
  <2> DEFINE x == Crop(p, 0, 0)
  <2>3. x = <<>>
    <3> HIDE DEF x
    <3>1. x \in Seq(Bytes) /\ Len(x) = 0
      BY <2>2 DEF x
    <3> QED
      BY <3>1
  <2> QED
    BY <1>4, <2>1, <2>3
<1>6. ASSUME NEW k \in Nat, k \in T PROVE k + 1 \in T
  <2> SUFFICES ASSUME k + 1 <= n PROVE f[k + 1] = Crop(p, 0, s[k + 1])
    OBVIOUS
  <2>1. k \in 0 .. (n - 1) /\ k <= n /\ k + 1 \in 1 .. n /\ (k + 1) - 1 = k
    BY <1>1
  <2>2. f[k] = Crop(p, 0, s[k])
    BY <1>6, <2>1
  <2>3. f[k + 1] = f[k] \o q[k + 1]
    BY <1>3, <2>1 DEF Joins
  <2>4. q[k + 1] = Crop(p, s[k], s[k + 1] - s[k])
    BY <2>1 DEF Item
  <2>5. s[k] \in Nat /\ s[k + 1] \in Nat /\ s[k] <= s[k + 1] /\ s[k + 1] <= Len(p)
    <3>1. s[k] \in 0 .. Len(p) /\ s[k + 1] \in 0 .. Len(p)
      BY <1>4
    <3>2. HasSize(CropFrom(p, s[k]))
      BY <2>1, ItemsThere
    <3>3. s[k + 1] = s[k] + ActualSize(CropFrom(p, s[k])) /\ ActualSize(CropFrom(p, s[k])) \in Nat
      BY <3>2, ItemIs
    <3> HIDE DEF s
    <3> QED
      BY <1>1, <3>1, <3>3
  <2> HIDE DEF s, q
  <2> QED
    BY <2>2, <2>3, <2>4, <2>5, CropsJoin
<1>7. Nat \subseteq T
  <2> HIDE DEF T
  <2> QED
    BY <1>5, <1>6, SetInduction, Zenon
<1>8. f[n] = Crop(p, 0, Len(p))
  BY <1>1, <1>7
<1>9. Crop(p, 0, Len(p)) = p
  <2>1. 0 \in Nat /\ 0 + Len(p) <= Len(p) /\ \A k \in 1 .. Len(p) : 0 + k = k
    BY <1>1
  <2>2. /\ Crop(p, 0, Len(p)) \in Seq(Bytes) /\ Len(Crop(p, 0, Len(p))) = Len(p)
        /\ \A k \in 1 .. Len(p) : Crop(p, 0, Len(p))[k] = p[0 + k]
    BY <1>1, <2>1, CutThere DEF Cut
  <2> QED
    BY <2>1, <2>2, SameBytes
<1>10. FlattenSeq(q) = f[n]
  BY <1>3 DEF Joins
<1> QED
  BY <1>8, <1>9, <1>10

\* A string of one byte below the strings is that byte itself.
LEMMA NotItself ==
    ASSUME NEW d \in Seq(Bytes), d # <<>>, HasLength(d), ActualSize(d) = Len(d),
           ~ IsSingleByte(d), ~ IsList(d), Len(Payload(d)) = 1
    PROVE  Payload(d)[1] >= DataImmLenStart
<1>1. /\ LengthSize(d) \in Nat /\ Length(d) = 1 /\ PayloadOffset(d) = 1 + LengthSize(d)
      /\ PayloadOffset(d) + Length(d) = Len(d)
  <2>1. LengthSize(d) \in Nat
    BY Lengths, Parameters
  <2>2. Length(d) = Len(Payload(d)) /\ PayloadOffset(d) + Length(d) = Len(d)
    BY HeaderBack
  <2>3. PayloadOffset(d) = 1 + LengthSize(d)
    BY DEF PayloadOffset
  <2> QED
    BY <2>1, <2>2, <2>3
<1>2. d[1] \in Nat /\ d[1] >= DataImmLenStart /\ d[1] < ListStart
  <2>1. d[1] \in Bytes
    OBVIOUS
  <2> QED
    BY <2>1, Parameters DEF Bytes, IsSingleByte, IsList
<1>3. CASE LengthSize(d) = 0
  <2>1. d[1] = DataImmLenStart + 1
    BY <1>1, <1>2, <1>3, Parameters DEF Length, IsNull
  <2>2. d[2] >= DataImmLenStart
    BY <2>1 DEF HasLength, IsNull, IsGood
  <2>3. Payload(d)[1] = d[1 + 1] /\ 1 + 1 = 2
    <3>1. 1 \in 1 .. Length(d) /\ PayloadOffset(d) + Length(d) <= Len(d) /\ PayloadOffset(d) = 1
      BY <1>1, <1>3
    <3>2. HasPayload(d)
      BY <1>1, <1>3 DEF HasPayload
    <3> QED
      BY <3>1, <3>2, PayloadIs
  <2> QED
    BY <2>2, <2>3
<1>4. CASE LengthSize(d) > 0
  <2>1. Length(d) >= DataImmLenCount
    BY <1>4 DEF HasLength, Length, IsNull
  <2> QED
    BY <1>1, <2>1, Parameters
<1> QED
  BY <1>1, <1>3, <1>4

LEMMA SingleByteBack ==
    ASSUME NEW d \in Seq(Bytes), d # <<>>, ActualSize(d) = Len(d), IsSingleByte(d)
    PROVE  Payload(d) = d /\ d = <<d[1]>> /\ Len(d) = 1 /\ d[1] \in Nat /\ ~ IsList(d)
<1>1. Len(d) = 1
  BY DEF ActualSize, IsNull
<1>2. PayloadOffset(d) = 0 /\ Length(d) = 1
  BY DEF PayloadOffset, Length, IsNull
<1>3. d = <<d[1]>> /\ d[1] \in Bytes
  BY <1>1
<1>4. Payload(d) = d
  <2>1. 0 \in Nat /\ 1 \in Nat /\ 0 + 1 <= Len(d) /\ 0 + 1 = 1
    BY <1>1
  <2>2. Crop(d, 0, 1) \in Seq(Bytes) /\ Len(Crop(d, 0, 1)) = 1 /\ \A k \in 1 .. 1 : Crop(d, 0, 1)[k] = d[0 + k]
    BY <1>1, <2>1, CutThere, Zenon DEF Cut
  <2>3. \A k \in 1 .. 1 : 0 + k = k
    OBVIOUS
  <2> DEFINE c == Crop(d, 0, 1)
  <2>4. c \in Seq(Bytes) /\ Len(c) = Len(d) /\ \A k \in 1 .. Len(d) : c[k] = d[k]
    BY <1>1, <2>2, <2>3
  <2> HIDE DEF c
  <2>5. c = d
    BY <2>4, SameBytes
  <2> QED
    BY <1>2, <2>5 DEF Payload, c
<1>5. ~ IsList(d) /\ d[1] \in Nat
  <2>1. d # <<>> /\ d[1] \in Bytes
    BY <1>3, Zenon
  <2>2. d[1] \in Nat /\ d[1] < DataImmLenStart
    BY <2>1, Parameters DEF IsSingleByte, Bytes
  <2> QED
    BY <2>2, Parameters DEF IsList
<1> QED
  BY <1>1, <1>3, <1>4, <1>5, Zenon

LEMMA RewrittenBack == \A d \in Seq(Bytes) : Whole(d) => Rewritten(d) = d
<1> DEFINE T == {n \in Nat : \A d \in Seq(Bytes) : Len(d) = n /\ Whole(d) => Rewritten(d) = d}
<1>1. ASSUME NEW n \in Nat, 0 .. (n - 1) \subseteq T PROVE n \in T
  <2> SUFFICES ASSUME NEW d \in Seq(Bytes), Len(d) = n, Whole(d) PROVE Rewritten(d) = d
    OBVIOUS
  <2> DEFINE p == Payload(d)
  <2>1. /\ d # <<>> /\ Opens(d, VeryStrict)
        /\ IsList(d) => HasItems(p) /\ \A i \in 0 .. (ItemCount(p) - 1) : Whole(Item(p, i))
    BY WholeIs
  <2>2. HasLength(d) /\ ActualSize(d) = Len(d) /\ HasSize(d)
    BY <2>1, OpensStrict
  <2>3. p \in Seq(Bytes)
    BY <2>2, SizedPayload
  <2>4. CASE IsList(d)
    <3>1. ASSUME NEW k \in 1 .. ItemCount(p) PROVE Rewritten(Item(p, k - 1)) = Item(p, k - 1)
      <4>1. ItemCount(p) \in Nat /\ k - 1 \in 0 .. (ItemCount(p) - 1) /\ k - 1 \in Nat
        BY <2>3, CountIsNat
      <4>2. Item(p, k - 1) \in Seq(Bytes) /\ Len(Item(p, k - 1)) < Len(d)
        BY <2>2, <2>4, <4>1, ItemsShorter
      <4>3. Whole(Item(p, k - 1))
        BY <2>1, <2>4, <4>1
      <4>4. Len(Item(p, k - 1)) \in 0 .. (n - 1)
        BY <4>2
      <4> QED
        BY <1>1, <4>2, <4>3, <4>4
    <3>2. [k \in 1 .. ItemCount(p) |-> Rewritten(Item(p, k - 1))] = [k \in 1 .. ItemCount(p) |-> Item(p, k - 1)]
      BY <3>1
    <3>3. FlattenSeq([k \in 1 .. ItemCount(p) |-> Rewritten(Item(p, k - 1))]) = p
      BY <2>1, <2>3, <2>4, <3>2, ItemsFlattened
    <3>4. Rewritten(d) = ListHeader(Len(p)) \o p
      BY <2>2, <2>4, <3>3, RewrittenIs
    <3>5. ~ IsSingleByte(d)
      BY <2>1, <2>2, <2>4, SingleByteBack
    <3> QED
      BY <2>1, <2>2, <2>4, <3>4, <3>5, HeaderBack
  <2>5. CASE ~ IsList(d)
    <3>1. Rewritten(d) = StringBytes(p)
      BY <2>2, <2>5, RewrittenIs
    <3>2. CASE IsSingleByte(d)
      <4>1. p = d /\ Len(p) = 1 /\ p[1] < DataImmLenStart
        BY <2>1, <2>2, <3>2, SingleByteBack DEF IsSingleByte
      <4> QED
        BY <3>1, <4>1 DEF StringBytes
    <3>3. CASE ~ IsSingleByte(d)
      <4>1. ~ (Len(p) = 1 /\ p[1] < DataImmLenStart)
        <5>1. Len(p) = 1 => p[1] >= DataImmLenStart /\ p[1] \in Nat
          <6>1. Len(p) = 1 => p[1] \in Bytes
            BY <2>3
          <6> QED
            BY <2>1, <2>2, <2>5, <3>3, <6>1, NotItself DEF Bytes
        <5> QED
          BY <5>1, Parameters
      <4>2. StringBytes(p) = DataHeader(Len(p)) \o p
        BY <4>1 DEF StringBytes
      <4> QED
        BY <2>1, <2>2, <2>5, <3>1, <3>3, <4>2, HeaderBack
    <3> QED
      BY <3>2, <3>3
  <2> QED
    BY <2>4, <2>5
<1>2. Nat \subseteq T
  <2> HIDE DEF T
  <2> QED
    BY <1>1, LessInduction, Zenon
<1>3. \A d \in Seq(Bytes) : Len(d) \in Nat
  OBVIOUS
<1> QED
  BY <1>2, <1>3

\* A number that is read, and written again.
LEMMA IntBack ==
    ASSUME NEW d \in Seq(Bytes), Whole(d), HasInt(d, MaxLengthBytes)
    PROVE  IntBytes(ToInt(d)) = d
<1> DEFINE s == Payload(d)
           n == NumberOf(s)
<1>1. d # <<>> /\ HasLength(d) /\ ActualSize(d) = Len(d)
  BY WholeIs, OpensStrict
<1>2. /\ ~ IsList(d) /\ HasPayload(d)
      /\ d[1] # DataImmLenStart => Len(d) > PayloadOffset(d) /\ d[PayloadOffset(d) + 1] # 0
  <2>1. d[1] \in Nat
    <3>1. d[1] \in Bytes
      BY <1>1
    <3> QED
      BY <3>1 DEF Bytes
  <2> QED
    BY <2>1, Parameters DEF HasInt, IsData, IsList
<1>3. s \in Seq(Bytes) /\ n \in Nat
  BY <1>2, PayloadIs, NumberIsNat
<1>4. CASE IsSingleByte(d)
  <2>1. s = d /\ d = <<d[1]>> /\ Len(d) = 1 /\ d[1] \in Nat
    BY <1>1, <1>4, SingleByteBack
  <2>2. d[1] # 0 /\ d[1] < DataImmLenStart
    <3>1. PayloadOffset(d) = 0 /\ 0 + 1 = 1
      BY <1>4 DEF PayloadOffset
    <3>2. d[1] < DataImmLenStart
      BY <1>4 DEF IsSingleByte
    <3> QED
      BY <1>2, <2>1, <3>1, <3>2, Parameters
  <2>3. n = d[1]
    <3>1. PICK f : /\ f \in [0 .. Len(s) -> Nat] /\ f[0] = 0
                   /\ \A k \in 0 .. (Len(s) - 1) : f[k + 1] = f[k] * Base + s[k + 1]
                   /\ NumberOf(s) = f[Len(s)]
      BY <1>3, NumberOfType
    <3>2. 0 \in 0 .. (Len(s) - 1) /\ 0 + 1 = 1 /\ Len(s) = 1
      BY <2>1
    <3>3. f[1] = 0 * Base + s[1]
      BY <3>1, <3>2
    <3>4. 0 * Base = 0
      BY Parameters
    <3> QED
      BY <2>1, <3>1, <3>2, <3>3, <3>4
  <2> QED
    BY <2>1, <2>2, <2>3 DEF ToInt, IntBytes
<1>5. CASE ~ IsSingleByte(d) /\ d[1] = DataImmLenStart
  <2>1. LengthSize(d) = 0 /\ Length(d) = 0
    BY <1>1, <1>2, <1>5, Parameters DEF LengthSize, Length, IsNull, DataIndLenZero
  <2>2. PayloadOffset(d) = 1 /\ ActualSize(d) = 1 /\ Len(d) = 1
    BY <1>1, <1>5, <2>1 DEF PayloadOffset, ActualSize, IsNull
  <2>3. d = <<DataImmLenStart>>
    BY <1>5, <2>2
  <2>4. s = <<>>
    BY <1>1, <1>3, <1>5, <2>1, HeaderBack
  <2>5. n = 0
    BY <1>3, <2>4, NumberOfType
  <2> QED
    BY <2>3, <2>5 DEF ToInt, IntBytes
<1>6. CASE ~ IsSingleByte(d) /\ d[1] # DataImmLenStart
  <2>1. /\ PayloadOffset(d) \in Nat /\ Length(d) \in Nat /\ Len(s) = Length(d)
        /\ PayloadOffset(d) + Length(d) = Len(d)
        /\ d = DataHeader(Len(s)) \o s
    BY <1>1, <1>2, <1>6, HeaderBack, Lengths
  <2>2. Len(s) > 0 /\ s[1] # 0
    <3>1. Len(d) > PayloadOffset(d) /\ d[PayloadOffset(d) + 1] # 0
      BY <1>2, <1>6
    <3>2. Length(d) > 0 /\ 1 \in 1 .. Length(d) /\ PayloadOffset(d) + Length(d) <= Len(d)
      BY <2>1, <3>1
    <3>3. s[1] = d[PayloadOffset(d) + 1]
      BY <1>2, <3>2, PayloadIs
    <3> QED
      BY <2>1, <3>1, <3>2, <3>3
  <2>3. BigEndian(n) = s /\ n > 0 /\ BytesRequired(n) = Len(s)
    <3>1. s # <<>>
      BY <2>2
    <3> HIDE DEF s
    <3>2. BigEndian(n) = s /\ n > 0
      BY <1>3, <2>2, <3>1, NumberBack
    <3> QED
      BY <1>3, <3>2, BigEndianLength
  <2>4. ~ (n < DataImmLenStart)
    <3>1. CASE Len(s) = 1
      <4>1. s[1] >= DataImmLenStart
        BY <1>1, <1>2, <1>6, <3>1, NotItself
      <4>2. n = s[1] /\ s[1] \in Nat
        <5>1. PICK f : /\ f \in [0 .. Len(s) -> Nat] /\ f[0] = 0
                       /\ \A k \in 0 .. (Len(s) - 1) : f[k + 1] = f[k] * Base + s[k + 1]
                       /\ NumberOf(s) = f[Len(s)]
          BY <1>3, NumberOfType
        <5>2. 0 \in 0 .. (Len(s) - 1) /\ 0 + 1 = 1
          BY <3>1
        <5>3. f[1] = 0 * Base + s[1]
          BY <5>1, <5>2
        <5>4. 0 * Base = 0 /\ s[1] \in Nat
          <6>1. s[1] \in Bytes
            BY <1>3, <3>1
          <6> QED
            BY <6>1, Parameters DEF Bytes
        <5> HIDE DEF s
        <5> QED
          BY <3>1, <5>1, <5>3, <5>4
      <4> QED
        BY <4>1, <4>2, Parameters
    <3>2. CASE Len(s) # 1
      <4>1. n < Base => BytesRequired(n) <= 1
        <5>1. Power[0 + 1] = Power[0] * Base /\ Power[0] = 1
          BY PowerType
        <5>2. 0 + 1 = 1 /\ 1 * Base = Base
          BY Parameters
        <5>3. Power[1] = Base
          BY <5>1, <5>2
        <5> HIDE DEF n
        <5> QED
          BY <1>3, <5>3, BytesRequiredBound
      <4>2. ~ (n < Base)
        <5>1. Len(s) \in Nat
          BY <1>3
        <5> QED
          BY <2>2, <2>3, <3>2, <4>1, <5>1
      <4> QED
        BY <1>3, <4>2, Parameters
    <3> QED
      BY <3>1, <3>2
  <2>5. IntBytes(n) = DataHeader(BytesRequired(n)) \o BigEndian(n)
    <3>1. n # 0
      BY <1>3, <2>3
    <3> HIDE DEF n
    <3> QED
      BY <2>4, <3>1 DEF IntBytes
  <2> QED
    BY <2>1, <2>3, <2>5 DEF ToInt
<1> QED
  BY <1>4, <1>5, <1>6

\* Bytes that VeryStrict takes with every item in them are what their contents are written as,
\* so nothing else is written as these; the same holds for the number they may be.
THEOREM StrictAlwaysCanonical == Spec => []StrictIsCanonical
<1>1. RInv => StrictIsCanonical
  <2> SUFFICES ASSUME RInv, Whole(rlp.bytes) PROVE StrictIsCanonical
    BY DEF StrictIsCanonical
  <2>1. rlp.bytes \in Seq(Bytes)
    BY DEF RInv, ReaderTypes
  <2> QED
    BY <2>1, RewrittenBack, IntBack DEF StrictIsCanonical
<1> QED
  BY <1>1, Invariant, PTL

-----------------------------------------------------------------------------
(* ReadsBack: what was written reads as what was given. *)

\* What reading some bytes says, when g says it of the items in them.
ReadBy(g, b) ==
    IF ~HasSize(b) THEN ListItem(0, <<>>)
    ELSE IF IsList(b)
    THEN LET p == Payload(b)
             n == ItemCount(p)
         IN  ListItem(n, [k \in 1..n |-> g[Item(p, k - 1)]])
    ELSE StringItem(Payload(b))
UpTo(n) == {b \in Seq(Bytes) : Len(b) <= n}
ReadsUpTo(g, n) == g = [b \in UpTo(n) |-> ReadBy(g, b)]

\* It says the same when the shorter ones are said the same of.
LEMMA SameReading ==
    ASSUME NEW b \in Seq(Bytes), NEW g, NEW h,
           \A c \in Seq(Bytes) : Len(c) < Len(b) => g[c] = h[c]
    PROVE  ReadBy(g, b) = ReadBy(h, b)
<1>1. ASSUME HasSize(b), IsList(b), NEW k \in 1 .. ItemCount(Payload(b))
      PROVE  g[Item(Payload(b), k - 1)] = h[Item(Payload(b), k - 1)]
  <2>1. ItemCount(Payload(b)) \in Nat
    BY <1>1, SizedPayload, CountIsNat
  <2>2. k - 1 \in Nat
    BY <2>1
  <2> QED
    BY <1>1, <2>2, ItemsShorter
<1>2. ASSUME HasSize(b), IsList(b)
      PROVE  [k \in 1 .. ItemCount(Payload(b)) |-> g[Item(Payload(b), k - 1)]]
                = [k \in 1 .. ItemCount(Payload(b)) |-> h[Item(Payload(b), k - 1)]]
  BY <1>1, <1>2
<1> QED
  BY <1>2 DEF ReadBy

LEMMA ReadingUpTo == \A n \in Nat : \E g : ReadsUpTo(g, n)
<1> DEFINE T == {n \in Nat : \E g : ReadsUpTo(g, n)}
<1>1. 0 \in T
  <2> DEFINE g == [b \in UpTo(0) |-> ReadBy(<<>>, b)]
  <2>1. ASSUME NEW b \in UpTo(0) PROVE ReadBy(<<>>, b) = ReadBy(g, b)
    <3>1. b \in Seq(Bytes) /\ \A c \in Seq(Bytes) : ~ (Len(c) < Len(b))
      BY DEF UpTo
    <3> HIDE DEF g
    <3> QED
      BY <3>1, SameReading
  <2>2. g = [b \in UpTo(0) |-> ReadBy(g, b)]
    <3> HIDE DEF g
    <3>1. [b \in UpTo(0) |-> ReadBy(<<>>, b)] = [b \in UpTo(0) |-> ReadBy(g, b)]
      BY <2>1
    <3> QED
      BY <3>1 DEF g
  <2>3. ReadsUpTo(g, 0)
    BY <2>2 DEF ReadsUpTo
  <2> QED
    BY <2>3
<1>2. ASSUME NEW n \in Nat, n \in T PROVE n + 1 \in T
  <2>1. PICK g : ReadsUpTo(g, n)
    BY <1>2
  <2> DEFINE h == [b \in UpTo(n + 1) |-> ReadBy(g, b)]
  <2>2. ASSUME NEW c \in UpTo(n) PROVE g[c] = h[c]
    <3>1. c \in UpTo(n + 1)
      BY DEF UpTo
    <3>2. g[c] = ReadBy(g, c)
      BY <2>1 DEF ReadsUpTo
    <3> QED
      BY <3>1, <3>2
  <2>3. ASSUME NEW b \in UpTo(n + 1) PROVE ReadBy(g, b) = ReadBy(h, b)
    <3>1. b \in Seq(Bytes) /\ \A c \in Seq(Bytes) : Len(c) < Len(b) => c \in UpTo(n)
      BY DEF UpTo
    <3> HIDE DEF h
    <3> QED
      BY <2>2, <3>1, SameReading
  <2>4. h = [b \in UpTo(n + 1) |-> ReadBy(h, b)]
    <3> HIDE DEF h
    <3>1. [b \in UpTo(n + 1) |-> ReadBy(g, b)] = [b \in UpTo(n + 1) |-> ReadBy(h, b)]
      BY <2>3
    <3> QED
      BY <3>1 DEF h
  <2>5. ReadsUpTo(h, n + 1)
    BY <2>4 DEF ReadsUpTo
  <2> QED
    BY <2>5
<1> HIDE DEF T
<1>3. Nat \subseteq T
  BY <1>1, <1>2, SetInduction, Zenon
<1> QED
  BY <1>3 DEF T

LEMMA OneReading ==
    ASSUME NEW n \in Nat, NEW m \in Nat, NEW g, NEW h, ReadsUpTo(g, n), ReadsUpTo(h, m)
    PROVE  \A b \in Seq(Bytes) : Len(b) <= n /\ Len(b) <= m => g[b] = h[b]
<1> DEFINE T == {k \in Nat : \A b \in Seq(Bytes) : Len(b) <= n /\ Len(b) <= m /\ Len(b) = k => g[b] = h[b]}
<1>1. ASSUME NEW k \in Nat, 0 .. (k - 1) \subseteq T PROVE k \in T
  <2> SUFFICES ASSUME NEW b \in Seq(Bytes), Len(b) <= n, Len(b) <= m, Len(b) = k PROVE g[b] = h[b]
    OBVIOUS
  <2>1. g[b] = ReadBy(g, b) /\ h[b] = ReadBy(h, b)
    BY DEF ReadsUpTo, UpTo
  <2>2. ASSUME NEW c \in Seq(Bytes), Len(c) < Len(b) PROVE g[c] = h[c]
    <3>1. Len(c) \in 0 .. (k - 1) /\ Len(c) <= n /\ Len(c) <= m
      BY <2>2
    <3>2. Len(c) \in T
      BY <1>1, <3>1
    <3> QED
      BY <3>1, <3>2
  <2> QED
    BY <2>1, <2>2, SameReading
<1> HIDE DEF T
<1>2. Nat \subseteq T
  BY <1>1, LessInduction, Zenon
<1> QED
  BY <1>2 DEF T

\* Items(d) is what ReadBy says with Items.
LEMMA ItemsIs ==
    ASSUME NEW d \in Seq(Bytes)
    PROVE  Items(d) =
               IF ~HasSize(d) THEN ListItem(0, <<>>)
               ELSE IF IsList(d)
               THEN LET p == Payload(d)
                        n == ItemCount(p)
                    IN  ListItem(n, [k \in 1..n |-> Items(Item(p, k - 1))])
               ELSE StringItem(Payload(d))
<1> DEFINE Reader(n) == CHOOSE g : ReadsUpTo(g, n)
           r == [b \in Seq(Bytes) |-> Reader(Len(b))[b]]
           Body(f, b) == IF ~HasSize(b) THEN ListItem(0, <<>>)
                         ELSE IF IsList(b)
                         THEN LET p == Payload(b)
                                  n == ItemCount(p)
                              IN  ListItem(n, [k \in 1..n |-> f[Item(p, k - 1)]])
                         ELSE StringItem(Payload(b))
           Equation(f) == f = [b \in Seq(Bytes) |-> Body(f, b)]
           w == CHOOSE f : Equation(f)
<1>1. ASSUME NEW n \in Nat PROVE ReadsUpTo(Reader(n), n)
  <2>1. \E g : ReadsUpTo(g, n)
    BY ReadingUpTo
  <2> QED
    BY <2>1, Zenon
<1> HIDE DEF Reader
<1>2. ASSUME NEW b \in Seq(Bytes) PROVE Reader(Len(b))[b] = ReadBy(r, b)
  <2>1. ReadsUpTo(Reader(Len(b)), Len(b)) /\ b \in UpTo(Len(b))
    BY <1>1 DEF UpTo
  <2>2. Reader(Len(b))[b] = ReadBy(Reader(Len(b)), b)
    BY <2>1 DEF ReadsUpTo
  <2>3. ASSUME NEW c \in Seq(Bytes), Len(c) < Len(b) PROVE Reader(Len(b))[c] = r[c]
    <3>1. r[c] = Reader(Len(c))[c]
      OBVIOUS
    <3>2. Len(b) \in Nat /\ Len(c) \in Nat /\ Len(c) <= Len(b) /\ Len(c) <= Len(c)
      BY <2>3
    <3>3. ReadsUpTo(Reader(Len(c)), Len(c)) /\ ReadsUpTo(Reader(Len(b)), Len(b))
      BY <1>1, <3>2
    <3> HIDE DEF r
    <3>4. Reader(Len(b))[c] = Reader(Len(c))[c]
      BY <3>2, <3>3, OneReading
    <3> QED
      BY <3>1, <3>4
  <2> HIDE DEF r
  <2> QED
    BY <2>2, <2>3, SameReading
<1>3. \A f, b : Body(f, b) = ReadBy(f, b)
  BY DEF ReadBy
<1>4. Equation(r)
  <2> HIDE DEF Body
  <2>1. [b \in Seq(Bytes) |-> Reader(Len(b))[b]] = [b \in Seq(Bytes) |-> Body(r, b)]
    <3> HIDE DEF r
    <3> QED
      BY <1>2, <1>3
  <2> QED
    BY <2>1
<1>5. Equation(w)
  <2> HIDE DEF Equation, r
  <2> QED
    BY <1>4, Zenon
<1>6. \A b : Items(b) = w[b]
  BY DEF Items
<1> HIDE DEF w
<1>7. w[d] = Body(w, d)
  <2> HIDE DEF Body
  <2> QED
    BY <1>5
<1> QED
  BY <1>6, <1>7

\* The bytes of a number are read as it.
LEMMA OneMoreByte ==
    ASSUME NEW s \in Seq(Bytes), NEW c \in Bytes
    PROVE  NumberOf(Append(s, c)) = NumberOf(s) * Base + c
<1> DEFINE n == Len(s)
           t == Append(s, c)
<1>1. n \in Nat /\ t \in Seq(Bytes) /\ Len(t) = n + 1 /\ t[n + 1] = c /\ \A k \in 1 .. n : t[k] = s[k]
  OBVIOUS
<1>2. PICK f : /\ f \in [0 .. n -> Nat]
               /\ f[0] = 0
               /\ \A k \in 0 .. (n - 1) : f[k + 1] = f[k] * Base + s[k + 1]
               /\ NumberOf(s) = f[n]
  BY NumberOfType
<1> HIDE DEF t
<1>3. PICK g : /\ g \in [0 .. (n + 1) -> Nat]
               /\ g[0] = 0
               /\ \A k \in 0 .. ((n + 1) - 1) : g[k + 1] = g[k] * Base + t[k + 1]
               /\ NumberOf(t) = g[n + 1]
  BY <1>1, NumberOfType
<1> HIDE DEF n
<1> DEFINE T == {k \in Nat : k <= n => g[k] = f[k]}
<1>4. 0 \in T
  BY <1>2, <1>3
<1>5. ASSUME NEW k \in Nat, k \in T PROVE k + 1 \in T
  <2> SUFFICES ASSUME k + 1 <= n PROVE g[k + 1] = f[k + 1]
    OBVIOUS
  <2>1. k \in 0 .. (n - 1) /\ k \in 0 .. ((n + 1) - 1) /\ k + 1 \in 1 .. n /\ k <= n
    BY <1>1
  <2>2. g[k + 1] = g[k] * Base + t[k + 1] /\ f[k + 1] = f[k] * Base + s[k + 1]
    BY <1>2, <1>3, <2>1
  <2>3. g[k] = f[k] /\ t[k + 1] = s[k + 1]
    BY <1>1, <1>5, <2>1
  <2> QED
    BY <2>2, <2>3
<1> HIDE DEF T
<1>6. Nat \subseteq T
  BY <1>4, <1>5, SetInduction, Zenon
<1>7. g[n] = f[n]
  BY <1>1, <1>6 DEF T
<1>8. n \in 0 .. ((n + 1) - 1)
  BY <1>1
<1>9. g[n + 1] = g[n] * Base + t[n + 1]
  BY <1>3, <1>8
<1> QED
  BY <1>1, <1>2, <1>3, <1>7, <1>9 DEF t

LEMMA NumberAgain ==
    \A n \in Nat : /\ NumberOf(BigEndian(n)) = n
                   /\ n > 0 => BigEndian(n) # <<>> /\ BigEndian(n)[1] # 0
<1> DEFINE T == {n \in Nat : /\ NumberOf(BigEndian(n)) = n
                             /\ n > 0 => BigEndian(n) # <<>> /\ BigEndian(n)[1] # 0}
<1>1. ASSUME NEW n \in Nat, 0 .. (n - 1) \subseteq T PROVE n \in T
  <2>1. CASE n = 0
    <3>1. BigEndian(n) = <<>> /\ <<>> \in Seq(Bytes) /\ Len(<<>>) = 0
      BY <2>1, BigEndianType
    <3>2. NumberOf(<<>>) = 0
      BY <3>1, NumberOfType
    <3> QED
      BY <2>1, <3>1, <3>2
  <2>2. CASE n > 0
    <3> DEFINE q == n \div Base
               r == n % Base
               b == BigEndian(q)
    <3>1. q \in Nat /\ r \in Bytes /\ n = q * Base + r /\ q < n
      BY <2>2, Division
    <3>2. BigEndian(n) = Append(b, r) /\ b \in Seq(Bytes)
      BY <2>2, <3>1, BigEndianType
    <3>3. q \in T
      BY <1>1, <3>1
    <3>4. NumberOf(b) = q /\ (q > 0 => b # <<>> /\ b[1] # 0)
      BY <3>3
    <3> HIDE DEF q, r, b
    <3>5. NumberOf(Append(b, r)) = n
      BY <3>1, <3>2, <3>4, OneMoreByte
    <3>6. Append(b, r) # <<>> /\ Append(b, r)[1] # 0
      <4>1. CASE q = 0
        <5>1. b = <<>>
          BY <4>1, BigEndianType DEF b
        <5>2. r = n
          BY <3>1, <4>1, Parameters DEF Bytes
        <5>3. Append(<<>>, r) = <<r>>
          OBVIOUS
        <5> QED
          BY <2>2, <5>1, <5>2, <5>3
      <4>2. CASE q > 0
        <5>1. Len(b) > 0 /\ b[1] # 0
          BY <3>2, <3>4, <4>2
        <5>2. Append(b, r)[1] = b[1] /\ Len(Append(b, r)) > 0
          BY <3>1, <3>2, <5>1
        <5> QED
          BY <5>1, <5>2
      <4> QED
        BY <3>1, <4>1, <4>2
    <3> QED
      BY <3>2, <3>5, <3>6
  <2> QED
    BY <2>1, <2>2
<1> HIDE DEF T
<1>2. Nat \subseteq T
  BY <1>1, LessInduction, Zenon
<1> QED
  BY <1>2 DEF T

\* Contents behind their header are taken whole, with any flags, and are the payload; a byte that
\* is itself has none.
LEMMA HeaderReads ==
    ASSUME NEW c \in Seq(Bytes), Len(c) < MaxSize - Base, NEW list \in BOOLEAN, NEW h,
           h = IF list THEN ListHeader(Len(c)) ELSE DataHeader(Len(c)),
           ~ list /\ Len(c) = 1 => c[1] >= DataImmLenStart
    PROVE  /\ h \o c \in Seq(Bytes) /\ h \o c # <<>>
           /\ HasSize(h \o c) /\ Opens(h \o c, VeryStrict)
           /\ IsList(h \o c) <=> list
           /\ Payload(h \o c) = c
<1> DEFINE d == h \o c
           size == Len(c)
           m == BytesRequired(size)
           e == BigEndian(size)
           start == IF list THEN ListStart ELSE DataImmLenStart
           count == IF list THEN ListImmLenCount ELSE DataImmLenCount
           l == IF size < count THEN 0 ELSE m
<1>1. size \in Nat /\ h \in Seq(Bytes) /\ Len(h) > 0 /\ Len(h) \in Nat
  <2>1. size \in Nat /\ size < MaxSize - Base
    OBVIOUS
  <2>2. /\ DataHeader(size) \in Seq(Bytes) /\ Len(DataHeader(size)) > 0
        /\ ListHeader(size) \in Seq(Bytes) /\ Len(ListHeader(size)) > 0
    <3> HIDE DEF size
    <3> QED
      BY <2>1, Headers
  <2>3. h = DataHeader(size) \/ h = ListHeader(size)
    OBVIOUS
  <2>4. h \in Seq(Bytes) /\ Len(h) > 0
    <3> HIDE DEF size
    <3> QED
      BY <2>2, <2>3, Zenon
  <2>5. Len(h) \in Nat
    BY <2>4
  <2> QED
    BY <2>1, <2>4, <2>5, Zenon
<1>2. h = Header(size, start, count)
  BY DEF ListHeader, DataHeader
<1>3. /\ m \in Nat /\ e \in Seq(Bytes) /\ Len(e) = m /\ NumberOf(e) = size
      /\ size > 0 => m > 0 /\ e[1] # 0
  <2>1. e \in Seq(Bytes) /\ Len(e) = m /\ NumberOf(e) = size /\ (size > 0 => e # <<>> /\ e[1] # 0)
    BY <1>1, BigEndianType, BigEndianLength, NumberAgain
  <2> HIDE DEF e, m
  <2> QED
    BY <2>1
<1>4. m <= MaxLengthBytes
  <2>1. size < Power[MaxLengthBytes]
    <3>1. size < MaxSize - Base /\ Power[MaxLengthBytes] \in Nat
      BY Parameters, PowerType
    <3> HIDE DEF size
    <3> QED
      BY <1>1, <3>1, Parameters DEF MaxSize
  <2> QED
    BY <1>1, <2>1, Parameters, BytesRequiredBound
<1>5. /\ start \in Nat /\ count \in Nat /\ count > 1 /\ start >= DataImmLenStart
      /\ l \in Nat /\ (l > 0 <=> ~ (size < count)) /\ (l > 0 => l = m /\ size > 0)
      /\ list => start + count + MaxLengthBytes = Base
      /\ ~ list => start + count + MaxLengthBytes = ListStart
  BY <1>1, <1>3, Parameters DEF ListImmLenCount, DataImmLenCount
<1>6. /\ Len(h) = 1 + l
      /\ h[1] = IF l = 0 THEN start + size ELSE start + count - 1 + l
      /\ \A k \in 1 .. l : h[1 + k] = e[k]
  <2>1. CASE size < count
    <3>1. h = <<start + size>> /\ l = 0
      BY <1>2, <2>1 DEF Header
    <3> HIDE DEF l
    <3> QED
      BY <3>1
  <2>2. CASE ~ (size < count)
    <3> DEFINE x == start + count - 1 + m
    <3>1. h = <<x>> \o e /\ l = m /\ l # 0
      <4>1. h = <<x>> \o e
        BY <1>2, <2>2 DEF Header
      <4> HIDE DEF e, x
      <4> QED
        BY <1>2, <1>5, <2>2, <4>1
    <3>2. x \in Nat
      BY <1>3, <1>5
    <3>3. e \in Seq(Nat)
      <4>1. Bytes \subseteq Nat
        BY DEF Bytes
      <4> QED
        BY <1>3, <4>1, SeqMonotonic
    <3>4. x = start + count - 1 + l
      BY <3>1
    <3> HIDE DEF l, x, e, m
    <3>5. Len(h) = 1 + Len(e) /\ h[1] = x /\ \A k \in 1 .. Len(e) : h[1 + k] = e[k]
      BY <3>1, <3>2, <3>3
    <3> QED
      BY <1>3, <3>1, <3>4, <3>5
  <2> QED
    BY <2>1, <2>2
<1> HIDE DEF l, e, m, start, count
<1>7. /\ d \in Seq(Bytes) /\ Len(d) = Len(h) + size /\ Len(d) \in Nat
      /\ \A k \in 1 .. Len(h) : d[k] = h[k]
      /\ \A k \in 1 .. size : d[Len(h) + k] = c[k]
  BY <1>1
<1>8. d # <<>> /\ d[1] = h[1] /\ d[1] \in Nat
  <2>1. Len(d) > 0 /\ 1 \in 1 .. Len(h)
    BY <1>1, <1>7
  <2>2. d[1] = h[1] /\ d[1] \in Bytes
    BY <1>7, <2>1
  <2> QED
    BY <2>1, <2>2 DEF Bytes
<1> HIDE DEF d, size
<1>9. /\ IsList(d) <=> list
      /\ IsData(d) <=> ~ list
      /\ ~ IsSingleByte(d) /\ ~ IsNull(d)
  <2>1. d[1] >= DataImmLenStart
    BY <1>1, <1>5, <1>6, <1>8, Parameters
  <2>2. list => d[1] >= ListStart
    BY <1>1, <1>5, <1>6, <1>8 DEF start
  <2>3. ~ list => d[1] < ListStart
    BY <1>1, <1>4, <1>5, <1>6, <1>8, Parameters
  <2> QED
    BY <1>8, <2>1, <2>2, <2>3, Parameters DEF IsList, IsData, IsSingleByte, IsNull
<1>10. LengthSize(d) = l /\ PayloadOffset(d) = 1 + l
  <2>1. IF list THEN start + count - 1 = ListIndLenZero ELSE start + count - 1 = DataIndLenZero
    BY <1>5, Parameters
  <2>2. l = 0 => d[1] <= start + count - 1
    BY <1>1, <1>5, <1>6, <1>8
  <2>3. l > 0 => d[1] = start + count - 1 + l
    BY <1>5, <1>6, <1>8
  <2>4. DataIndLenZero \in Nat /\ ListIndLenZero \in Nat
    BY Parameters
  <2>5. l = 0 \/ l > 0
    BY <1>5
  <2>6. LengthSize(d) = l
    <3>1. l \in Nat /\ d # <<>> /\ d[1] \in Nat /\ start \in Nat /\ count \in Nat
      BY <1>5, <1>8
    <3>2. CASE list
      <4>1. IsList(d) /\ ~ IsData(d) /\ start + count - 1 = ListIndLenZero
        BY <1>9, <2>1, <3>2
      <4> QED
        BY <2>2, <2>3, <2>4, <2>5, <3>1, <4>1 DEF LengthSize
    <3>3. CASE ~ list
      <4>1. ~ IsList(d) /\ IsData(d) /\ start + count - 1 = DataIndLenZero
        BY <1>9, <2>1, <3>3
      <4> QED
        BY <2>2, <2>3, <2>4, <2>5, <3>1, <4>1 DEF LengthSize
    <3> QED
      BY <3>2, <3>3
  <2> QED
    BY <1>9, <2>6 DEF PayloadOffset
<1>11. ASSUME l > 0 PROVE LengthRead(d) = size /\ d[2] # 0 /\ Len(d) > l
  <2> DEFINE s == SubSeq(d, 2, 1 + l)
  <2>1. s = e
    <3>1. Len(d) >= 1 + l
      BY <1>1, <1>6, <1>7
    <3>2. s \in Seq(Bytes) /\ Len(s) = l /\ \A k \in 1 .. l : s[k] = d[1 + k]
      <4>1. 2 \in Int /\ 1 + l \in Int /\ \A i \in 2 .. (1 + l) : d[i] \in Bytes
        BY <1>5, <1>7, <3>1
      <4>2. /\ s \in Seq(Bytes)
            /\ Len(s) = IF 2 <= 1 + l THEN (1 + l) - 2 + 1 ELSE 0
            /\ \A i \in 1 .. (1 + l) - 2 + 1 : s[i] = d[2 + i - 1]
        BY <1>7, <4>1, SubSeqProperties
      <4>3. (1 + l) - 2 + 1 = l /\ 2 <= 1 + l /\ \A i \in 1 .. l : 2 + i - 1 = 1 + i
        BY <1>5, <1>11
      <4> HIDE DEF s
      <4> QED
        BY <4>2, <4>3
    <3>3. \A k \in 1 .. l : 1 + k \in 1 .. Len(h)
      BY <1>5, <1>6
    <3>4. \A k \in 1 .. l : s[k] = e[k]
      BY <1>6, <1>7, <3>2, <3>3
    <3> HIDE DEF s
    <3> QED
      BY <1>3, <1>5, <1>11, <3>2, <3>4, SameBytes
  <2>2. LengthRead(d) = size
    BY <1>3, <1>10, <2>1 DEF LengthRead
  <2>3. d[2] = e[1]
    <3>1. 1 \in 1 .. l /\ 1 + 1 \in 1 .. Len(h)
      BY <1>5, <1>6, <1>11
    <3>2. d[1 + 1] = h[1 + 1] /\ h[1 + 1] = e[1]
      BY <1>6, <1>7, <3>1
    <3> QED
      BY <3>2
  <2> QED
    BY <1>1, <1>3, <1>5, <1>6, <1>7, <1>11, <2>2, <2>3
<1>12. Length(d) = size
  <2>1. CASE l > 0
    BY <1>9, <1>10, <1>11, <2>1 DEF Length
  <2>2. CASE l = 0
    <3>1. d[1] = start + size
      BY <1>6, <1>8, <2>2
    <3>2. Length(d) = d[1] - IF list THEN ListStart ELSE DataImmLenStart
      BY <1>9, <1>10, <2>2 DEF Length
    <3>3. Length(d) = d[1] - start
      BY <3>2 DEF start
    <3> QED
      BY <1>1, <1>5, <3>1, <3>3
  <2> QED
    BY <1>5, <2>1, <2>2
<1>13. HasLength(d)
  <2>1. IsGood(d)
    <3>1. ASSUME d[1] = DataImmLenStart + 1 PROVE Len(d) > 1 /\ d[2] >= DataImmLenStart
      <4>1. ~ list
        BY <1>8, <1>9, <3>1, Parameters DEF IsList
      <4>2. start = DataImmLenStart
        BY <4>1 DEF start
      <4>3. l = 0 /\ size = 1
        BY <1>1, <1>5, <1>6, <1>8, <3>1, <4>2
      <4>4. 1 \in 1 .. size /\ Len(h) = 1
        BY <1>6, <4>3
      <4>5. d[1 + 1] = c[1]
        BY <1>7, <4>4
      <4>6. c[1] >= DataImmLenStart
        BY <4>1, <4>3 DEF size
      <4>7. Len(d) = Len(h) + size
        BY <1>7
      <4>8. 1 + 1 = 2 /\ Len(d) > 1
        BY <4>3, <4>4, <4>7
      <4> QED
        BY <4>5, <4>6, <4>8
    <3> QED
      BY <1>8, <3>1 DEF IsGood
  <2>2. l > 0 => size >= count /\ size < MaxSize - Base
    BY <1>1, <1>5 DEF size
  <2>3. count = IF IsList(d) THEN ListImmLenCount ELSE DataImmLenCount
    BY <1>9 DEF count
  <2> QED
    BY <1>10, <1>11, <2>1, <2>2, <2>3 DEF HasLength
<1>14. ActualSize(d) = Len(d)
  <2>1. ActualSize(d) = PayloadOffset(d) + Length(d)
    BY <1>9 DEF ActualSize
  <2> QED
    BY <1>1, <1>5, <1>6, <1>7, <1>10, <1>12, <2>1
<1>15. HasSize(d) /\ Opens(d, VeryStrict)
  BY <1>7, <1>13, <1>14 DEF HasSize, Opens, Fits
<1>16. Payload(d) = c
  <2>1. Payload(d) = Crop(d, Len(h), size)
    <3>1. PayloadOffset(d) = Len(h)
      BY <1>6, <1>10
    <3> QED
      BY <1>12, <3>1, Zenon DEF Payload
  <2>2. /\ Crop(d, Len(h), size) \in Seq(Bytes) /\ Len(Crop(d, Len(h), size)) = size
        /\ \A k \in 1 .. size : Crop(d, Len(h), size)[k] = d[Len(h) + k]
    <3>1. /\ d \in Seq(Bytes) /\ Len(h) \in Nat /\ size \in Nat /\ Len(h) + size = Len(d)
          /\ Len(h) + size <= Len(d)
      BY <1>1, <1>7
    <3> HIDE DEF size
    <3> QED
      BY <3>1, CutThere DEF Cut
  <2>3. \A k \in 1 .. size : Crop(d, Len(h), size)[k] = c[k]
    BY <1>7, <2>2
  <2>4. Len(c) = size
    BY DEF size
  <2>5. Crop(d, Len(h), size) = c
    BY <2>2, <2>3, <2>4, SameBytes
  <2> QED
    BY <2>1, <2>5
<1> QED
  BY <1>7, <1>8, <1>9, <1>15, <1>16 DEF d

\* A string is taken, and read as itself.
LEMMA StringReads ==
    ASSUME NEW s \in Seq(Bytes), Len(s) < MaxSize - Base
    PROVE  /\ StringBytes(s) \in Seq(Bytes)
           /\ Whole(StringBytes(s)) /\ Items(StringBytes(s)) = StringItem(s)
<1> DEFINE b == StringBytes(s)
<1>1. /\ b \in Seq(Bytes) /\ b # <<>> /\ HasSize(b) /\ Opens(b, VeryStrict)
      /\ ~ IsList(b) /\ Payload(b) = s
  <2>1. CASE Len(s) = 1 /\ s[1] < DataImmLenStart
    <3>1. b = s /\ s # <<>> /\ IsSingleByte(s) /\ s[1] \in Nat
      <4>1. s[1] \in Bytes
        BY <2>1
      <4>2. s # <<>>
        <5>1. <<>> \in Seq(Bytes) /\ Len(<<>>) = 0
          OBVIOUS
        <5>2. Len(s) = 1
          BY <2>1, Zenon
        <5>3. 0 # 1
          OBVIOUS
        <5> QED
          BY <5>1, <5>2, <5>3, Zenon
      <4> QED
        BY <2>1, <4>1, <4>2 DEF StringBytes, IsSingleByte, Bytes
    <3>2. ActualSize(s) = 1 /\ LengthSize(s) = 0 /\ ~ IsList(s)
      BY <3>1, Parameters DEF ActualSize, LengthSize, IsData, IsList, IsSingleByte, IsNull
    <3>3. HasLength(s)
      <4>1. s[1] # DataImmLenStart + 1
        BY <2>1, <3>1, Parameters
      <4> QED
        BY <3>1, <3>2, <4>1 DEF HasLength, IsGood
    <3>4. Opens(s, VeryStrict) /\ HasSize(s)
      BY <2>1, <3>2, <3>3 DEF Opens, Fits, HasSize
    <3>5. Payload(s) = s
      BY <2>1, <3>1, <3>2, SingleByteBack
    <3> HIDE DEF b
    <3> QED
      BY <3>1, <3>2, <3>4, <3>5, Zenon
  <2>2. CASE ~ (Len(s) = 1 /\ s[1] < DataImmLenStart)
    <3> DEFINE h == DataHeader(Len(s))
    <3>1. b = h \o s
      BY <2>2 DEF StringBytes
    <3>2. Len(s) = 1 => s[1] >= DataImmLenStart
      <4>1. Len(s) = 1 => s[1] \in Bytes
        OBVIOUS
      <4> QED
        BY <2>2, <4>1, Parameters DEF Bytes
    <3>3. FALSE \in BOOLEAN /\ h = IF FALSE THEN ListHeader(Len(s)) ELSE DataHeader(Len(s))
      OBVIOUS
    <3> HIDE DEF h, b
    <3>4. /\ h \o s \in Seq(Bytes) /\ h \o s # <<>>
          /\ HasSize(h \o s) /\ Opens(h \o s, VeryStrict)
          /\ IsList(h \o s) <=> FALSE
          /\ Payload(h \o s) = s
      BY <3>2, <3>3, HeaderReads
    <3> QED
      BY <3>1, <3>4
  <2> QED
    BY <2>1, <2>2
<1> HIDE DEF b
<1>2. Whole(b)
  BY <1>1, WholeIs
<1>3. Items(b) = StringItem(s)
  BY <1>1, ItemsIs
<1> QED
  BY <1>1, <1>2, <1>3 DEF b

\* A number is written as the string of its bytes.
LEMMA IntIsString == ASSUME NEW n \in Nat PROVE IntBytes(n) = StringBytes(BigEndian(n))
<1> DEFINE b == BigEndian(n)
<1>1. b \in Seq(Bytes) /\ Len(b) = BytesRequired(n) /\ NumberOf(b) = n
  BY BigEndianType, BigEndianLength, NumberAgain
<1>2. CASE n = 0
  <2>1. b = <<>>
    BY <1>2, BigEndianType
  <2>2. DataHeader(0) = <<DataImmLenStart>>
    BY Parameters DEF DataHeader, Header
  <2>3. StringBytes(<<>>) = <<DataImmLenStart>> \o <<>>
    BY <2>2 DEF StringBytes
  <2>4. <<DataImmLenStart>> \o <<>> = <<DataImmLenStart>>
    <3>1. <<DataImmLenStart>> \in Seq(Nat)
      BY Parameters
    <3> QED
      BY <3>1
  <2> QED
    BY <1>2, <2>1, <2>3, <2>4 DEF IntBytes
<1>3. CASE n > 0 /\ n < DataImmLenStart
  <2>1. n \div Base = 0 /\ n % Base = n
    <3>1. n \in Bytes /\ 0 \in Nat /\ 0 * Base + n = n
      BY <1>3, Parameters DEF Bytes
    <3>2. (0 * Base + n) \div Base = 0 /\ (0 * Base + n) % Base = n
      BY <3>1, Quotient
    <3> QED
      BY <3>1, <3>2
  <2>2. b = Append(<<>>, n)
    BY <1>3, <2>1, BigEndianType
  <2>3. b = <<n>> /\ Len(<<n>>) = 1 /\ <<n>>[1] = n
    BY <2>2
  <2> QED
    BY <1>3, <2>3 DEF IntBytes, StringBytes
<1>4. CASE n > 0 /\ ~ (n < DataImmLenStart)
  <2>1. ~ (Len(b) = 1 /\ b[1] < DataImmLenStart)
    <3> SUFFICES ASSUME Len(b) = 1, b[1] < DataImmLenStart PROVE FALSE
      OBVIOUS
    <3>1. b[1] \in Bytes
      BY <1>1
    <3> DEFINE c == b[1]
    <3>2. b = Append(<<>>, c)
      <4> HIDE DEF b
      <4> QED
        BY <1>1
    <3>3. c \in Bytes /\ <<>> \in Seq(Bytes) /\ Len(<<>>) = 0
      BY <3>1
    <3>4. NumberOf(<<>>) = 0
      BY <3>3, NumberOfType
    <3> HIDE DEF c, b
    <3>5. NumberOf(b) = 0 * Base + c
      BY <3>2, <3>3, <3>4, OneMoreByte
    <3>6. n = c
      BY <1>1, <3>3, <3>5, Parameters DEF Bytes
    <3> QED
      BY <1>4, <3>6 DEF c
  <2>2. IntBytes(n) = DataHeader(BytesRequired(n)) \o BigEndian(n)
    BY <1>4 DEF IntBytes
  <2>3. StringBytes(b) = DataHeader(Len(b)) \o b
    BY <2>1 DEF StringBytes
  <2> QED
    BY <1>1, <2>2, <2>3
<1>5. n = 0 \/ n > 0
  OBVIOUS
<1> QED
  BY <1>2, <1>3, <1>4, <1>5

\* Bytes that are items, each taken whole and read as the one given.
Reads(p, items) ==
    /\ HasItems(p) /\ ItemCount(p) = Len(items)
    /\ \A k \in 1..ItemCount(p) : Whole(Item(p, k - 1)) /\ Items(Item(p, k - 1)) = items[k]

\* As many items as it takes to reach the end.
LEMMA CountIs ==
    ASSUME NEW p \in Seq(Bytes), NEW n \in 0 .. Len(p), ItemStart(p)[n] = Len(p),
           \A k \in 0 .. (n - 1) : ItemStart(p)[k] < Len(p)
    PROVE  HasItems(p) /\ ItemCount(p) = n
<1>1. n \in Ends(p) /\ Ends(p) \subseteq 0 .. Len(p)
  BY DEF Ends
<1>2. ASSUME NEW m \in Ends(p) PROVE n <= m
  <2>1. m \in Nat /\ n \in Nat /\ Len(p) \in Nat /\ ItemStart(p)[m] = Len(p)
    BY DEF Ends
  <2>2. ASSUME m < n PROVE FALSE
    <3>1. m \in 0 .. (n - 1)
      BY <2>1, <2>2
    <3> QED
      BY <2>1, <3>1
  <2> QED
    BY <2>1, <2>2
<1> DEFINE x == Min(Ends(p))
<1>3. x \in Ends(p) /\ \A m \in Ends(p) : x <= m
  BY <1>1, <1>2 DEF Min
<1>4. x = n
  <2>1. x <= n /\ n <= x
    BY <1>1, <1>2, <1>3
  <2>2. x \in Nat /\ n \in Nat
    BY <1>1, <1>3
  <2> HIDE DEF x
  <2> QED
    BY <2>1, <2>2
<1> QED
  BY <1>1, <1>4 DEF HasItems, ItemCount

\* Where the items are that are taken whole.
LEMMA ReadsStarts ==
    ASSUME NEW p \in Seq(Bytes), NEW items, Reads(p, items)
    PROVE  LET n == ItemCount(p)
               s == ItemStart(p)
           IN  /\ n \in 0 .. Len(p) /\ n = Len(items) /\ s[n] = Len(p)
               /\ \A k \in 0 .. (n - 1) :
                      /\ HasSize(CropFrom(p, s[k]))
                      /\ s[k] \in Nat /\ s[k] < Len(p)
                      /\ s[k + 1] \in Nat /\ s[k] <= s[k + 1] /\ s[k + 1] <= Len(p)
<1> DEFINE n == ItemCount(p)
           s == ItemStart(p)
<1>1. HasItems(p) /\ n = Len(items)
  BY DEF Reads
<1>2. n \in Nat /\ s[n] = Len(p)
  BY <1>1, ItemsThere
<1>3. n \in 0 .. Len(p)
  <2>1. PICK e \in Ends(p) : \A m \in Ends(p) : e <= m
    <3>1. Ends(p) \in SUBSET Nat /\ Ends(p) # {}
      BY <1>1 DEF Ends, HasItems
    <3> QED
      BY <3>1, LeastNumber
  <2>2. Min(Ends(p)) \in Ends(p)
    BY <2>1 DEF Min
  <2> QED
    BY <1>1, <2>2 DEF ItemCount, Ends
<1> HIDE DEF n, s
<1>4. ASSUME NEW k \in 0 .. (n - 1)
      PROVE  /\ HasSize(CropFrom(p, s[k]))
             /\ s[k] \in Nat /\ s[k] < Len(p)
             /\ s[k + 1] \in Nat /\ s[k] <= s[k + 1] /\ s[k + 1] <= Len(p)
  <2>1. k \in Nat /\ k + 1 \in 1 .. n /\ (k + 1) - 1 = k
    BY <1>2
  <2>2. HasSize(CropFrom(p, s[k]))
    BY <1>1, ItemsThere DEF n, s
  <2>3. Item(p, k) # <<>>
    <3>1. Whole(Item(p, k))
      BY <2>1 DEF Reads, n
    <3>2. Item(p, k) \in Seq(Bytes)
      BY <2>1, ItemShorter
    <3> QED
      BY <3>1, <3>2, WholeIs
  <2>4. s[k] # Len(p)
    BY <2>1, <2>2, <2>3, ItemHasSize DEF s
  <2>5. /\ s[k] \in 0 .. Len(p)
        /\ s[k + 1] = s[k] + ActualSize(CropFrom(p, s[k]))
        /\ ActualSize(CropFrom(p, s[k])) \in Nat
    BY <2>1, <2>2, ItemStarts, ItemIs DEF s
  <2>6. s[k + 1] \in 0 .. Len(p)
    BY <2>1, ItemStarts DEF s
  <2> QED
    BY <2>2, <2>4, <2>5, <2>6
<1> QED
  BY <1>1, <1>2, <1>3, <1>4 DEF n, s

\* What follows a place is the same when more comes behind it, and the same as in what came.
LEMMA AheadOfMore ==
    ASSUME NEW p \in Seq(Bytes), NEW q \in Seq(Bytes), NEW at \in Nat, at < Len(p),
           HasSize(CropFrom(p, at))
    PROVE  Ahead(p \o q, at) = Ahead(p, at)
<1> DEFINE w == p \o q
           d == CropFrom(p, at)
           e == CropFrom(w, at)
<1>1. /\ w \in Seq(Bytes) /\ Len(w) = Len(p) + Len(q) /\ Len(p) \in Nat /\ Len(q) \in Nat
      /\ \A k \in 1 .. Len(p) : w[k] = p[k]
  BY Joined
<1> HIDE DEF w
<1>2. at \in 0 .. Len(p) /\ at \in 0 .. Len(w)
  BY <1>1
<1>3. /\ d \in Seq(Bytes) /\ Len(d) = Len(p) - at
      /\ \A k \in 1 .. (Len(p) - at) : d[k] = p[at + k]
  BY <1>2, CutFromThere DEF CutFrom
<1>4. /\ e \in Seq(Bytes) /\ Len(e) = Len(w) - at
      /\ \A k \in 1 .. (Len(w) - at) : e[k] = w[at + k]
  BY <1>1, <1>2, CutFromThere DEF CutFrom
<1>5. HasSize(d)
  OBVIOUS
<1> HIDE DEF d, e
<1>6. Len(d) > 0 /\ d # <<>> /\ Len(d) <= Len(e)
  <2>1. Len(d) > 0 /\ Len(d) <= Len(e)
    BY <1>1, <1>2, <1>3, <1>4
  <2> QED
    BY <1>3, <2>1
<1>7. HasLength(d) /\ ActualSize(d) <= Len(d) /\ ActualSize(d) \in Nat
  <2>1. HasLength(d) /\ ActualSize(d) <= Len(d)
    BY <1>5 DEF HasSize
  <2> QED
    BY <1>3, <2>1, Lengths
<1>8. ActualSize(d) <= Len(e)
  BY <1>3, <1>4, <1>6, <1>7
<1>9. \A k \in 1 .. ActualSize(d) : d[k] = e[k]
  <2> SUFFICES ASSUME NEW k \in 1 .. ActualSize(d) PROVE d[k] = e[k]
    OBVIOUS
  <2>1. k \in 1 .. (Len(p) - at) /\ k \in 1 .. (Len(w) - at) /\ at + k \in 1 .. Len(p)
    BY <1>1, <1>2, <1>3, <1>7
  <2> QED
    BY <1>1, <1>3, <1>4, <2>1
<1>10. HasLength(e) /\ ActualSize(e) = ActualSize(d)
  BY <1>3, <1>4, <1>6, <1>7, <1>8, <1>9, SameHead, Zenon
<1>11. HasSize(e)
  BY <1>8, <1>10, Zenon DEF HasSize
<1>12. Ahead(w, at) = Ahead(p, at)
  BY <1>5, <1>10, <1>11 DEF Ahead, d, e
<1> QED
  BY <1>12 DEF w

LEMMA AheadInMore ==
    ASSUME NEW p \in Seq(Bytes), NEW q \in Seq(Bytes), NEW at \in 0 .. Len(q)
    PROVE  Ahead(p \o q, Len(p) + at) = Len(p) + Ahead(q, at)
<1> DEFINE w == p \o q
           to == Len(p) + at
           d == CropFrom(q, at)
           e == CropFrom(w, to)
<1>1. /\ w \in Seq(Bytes) /\ Len(w) = Len(p) + Len(q) /\ Len(p) \in Nat /\ Len(q) \in Nat
      /\ \A k \in 1 .. Len(q) : w[Len(p) + k] = q[k]
  BY Joined
<1> HIDE DEF w
<1>2. to \in 0 .. Len(w) /\ Len(w) - to = Len(q) - at
  BY <1>1
<1>3. /\ d \in Seq(Bytes) /\ Len(d) = Len(q) - at
      /\ \A k \in 1 .. (Len(q) - at) : d[k] = q[at + k]
  BY CutFromThere DEF CutFrom
<1>4. /\ e \in Seq(Bytes) /\ Len(e) = Len(q) - at
      /\ \A k \in 1 .. (Len(q) - at) : e[k] = w[to + k]
  <2> HIDE DEF to
  <2> QED
    BY <1>1, <1>2, CutFromThere DEF CutFrom
<1> HIDE DEF d, e
<1>5. ASSUME NEW k \in 1 .. Len(d) PROVE e[k] = d[k]
  <2>1. k \in 1 .. (Len(q) - at) /\ at + k \in 1 .. Len(q) /\ to + k = Len(p) + (at + k)
    BY <1>1, <1>3
  <2>2. w[Len(p) + (at + k)] = q[at + k]
    BY <1>1, <2>1
  <2> HIDE DEF to
  <2> QED
    BY <1>3, <1>4, <2>1, <2>2
<1>6. e = d
  BY <1>3, <1>4, <1>5, SameBytes
<1>7. HasSize(d) => ActualSize(d) \in Nat
  <2>1. HasSize(d) => HasLength(d)
    BY DEF HasSize
  <2> QED
    BY <1>3, <2>1, Lengths
<1>8. Ahead(q, at) = at + (IF HasSize(d) THEN ActualSize(d) ELSE 0)
  BY DEF Ahead, d
<1>9. Ahead(w, to) = to + (IF HasSize(d) THEN ActualSize(d) ELSE 0)
  <2> HIDE DEF to
  <2> QED
    BY <1>2, <1>6 DEF Ahead, e
<1>10. Ahead(w, to) = Len(p) + Ahead(q, at)
  BY <1>1, <1>7, <1>8, <1>9
<1> QED
  BY <1>10 DEF w

\* The same for the bytes between two places.
LEMMA CropOfMore ==
    ASSUME NEW p \in Seq(Bytes), NEW q \in Seq(Bytes), NEW at \in Nat, NEW size \in Nat, at + size <= Len(p)
    PROVE  Crop(p \o q, at, size) = Crop(p, at, size)
<1> DEFINE w == p \o q
<1>1. /\ w \in Seq(Bytes) /\ Len(w) = Len(p) + Len(q) /\ Len(p) \in Nat /\ Len(q) \in Nat
      /\ \A k \in 1 .. Len(p) : w[k] = p[k]
  BY Joined
<1> HIDE DEF w
<1>2. at + size <= Len(w)
  BY <1>1
<1>3. Cut(p, at, size) /\ Cut(w, at, size)
  BY <1>1, <1>2, CutThere, Zenon
<1>4. \A k \in 1 .. size : at + k \in 1 .. Len(p)
  BY <1>1
<1>5. \A k \in 1 .. size : Crop(w, at, size)[k] = Crop(p, at, size)[k]
  BY <1>1, <1>3, <1>4, Zenon DEF Cut
<1>6. Crop(w, at, size) = Crop(p, at, size)
  <2>1. /\ Crop(p, at, size) \in Seq(Bytes) /\ Len(Crop(p, at, size)) = size
        /\ Crop(w, at, size) \in Seq(Bytes) /\ Len(Crop(w, at, size)) = size
    BY <1>3, Zenon DEF Cut
  <2> QED
    BY <1>5, <2>1, SameBytes, Zenon
<1> QED
  BY <1>6 DEF w

LEMMA CropInMore ==
    ASSUME NEW p \in Seq(Bytes), NEW q \in Seq(Bytes), NEW at \in Nat, NEW size \in Nat, at + size <= Len(q)
    PROVE  Crop(p \o q, Len(p) + at, size) = Crop(q, at, size)
<1> DEFINE w == p \o q
           to == Len(p) + at
<1>1. /\ w \in Seq(Bytes) /\ Len(w) = Len(p) + Len(q) /\ Len(p) \in Nat /\ Len(q) \in Nat
      /\ \A k \in 1 .. Len(q) : w[Len(p) + k] = q[k]
  BY Joined
<1> HIDE DEF w
<1>2. to \in Nat /\ to + size <= Len(w)
  BY <1>1
<1>3. \A k \in 1 .. size : at + k \in 1 .. Len(q) /\ to + k = Len(p) + (at + k)
  BY <1>1
<1> HIDE DEF to
<1>4. Cut(q, at, size) /\ Cut(w, to, size)
  BY <1>1, <1>2, CutThere, Zenon
<1>5. \A k \in 1 .. size : Crop(w, to, size)[k] = Crop(q, at, size)[k]
  BY <1>1, <1>3, <1>4, Zenon DEF Cut
<1>6. Crop(w, to, size) = Crop(q, at, size)
  <2>1. /\ Crop(q, at, size) \in Seq(Bytes) /\ Len(Crop(q, at, size)) = size
        /\ Crop(w, to, size) \in Seq(Bytes) /\ Len(Crop(w, to, size)) = size
    BY <1>4, Zenon DEF Cut
  <2> QED
    BY <1>5, <2>1, SameBytes, Zenon
<1> QED
  BY <1>6 DEF w, to

\* Items behind items are read as those and these.
LEMMA ReadsBoth ==
    ASSUME NEW p \in Seq(Bytes), NEW q \in Seq(Bytes), NEW I, NEW u \in Seq(I), NEW v \in Seq(I),
           Reads(p, u), Reads(q, v)
    PROVE  Reads(p \o q, u \o v)
<1> DEFINE n == ItemCount(p)
           m == ItemCount(q)
           s == ItemStart(p)
           t == ItemStart(q)
           w == ItemStart(p \o q)
<1>1. /\ n \in 0 .. Len(p) /\ n = Len(u) /\ s[n] = Len(p) /\ s[0] = 0
      /\ \A k \in 0 .. (n - 1) :
             /\ HasSize(CropFrom(p, s[k]))
             /\ s[k] \in Nat /\ s[k] < Len(p)
             /\ s[k + 1] \in Nat /\ s[k] <= s[k + 1] /\ s[k + 1] <= Len(p)
             /\ s[k + 1] = Ahead(p, s[k])
  <2>1. /\ s[0] = 0 /\ \A k \in Nat : s[k + 1] = Ahead(p, s[k])
    BY ItemStarts
  <2>2. /\ n \in 0 .. Len(p) /\ n = Len(u) /\ s[n] = Len(p)
        /\ \A k \in 0 .. (n - 1) :
               /\ HasSize(CropFrom(p, s[k]))
               /\ s[k] \in Nat /\ s[k] < Len(p)
               /\ s[k + 1] \in Nat /\ s[k] <= s[k + 1] /\ s[k + 1] <= Len(p)
    BY ReadsStarts
  <2> HIDE DEF s, n
  <2>3. \A k \in 0 .. (n - 1) : k \in Nat
    OBVIOUS
  <2>4. \A k \in 0 .. (n - 1) : s[k + 1] = Ahead(p, s[k])
    BY <2>1, <2>3, Zenon
  <2> QED
    BY <2>1, <2>2, <2>4, Zenon
<1>2. /\ m \in 0 .. Len(q) /\ m = Len(v) /\ t[m] = Len(q) /\ t[0] = 0
      /\ \A k \in 0 .. (m - 1) :
             /\ HasSize(CropFrom(q, t[k]))
             /\ t[k] \in Nat /\ t[k] < Len(q)
             /\ t[k + 1] \in Nat /\ t[k] <= t[k + 1] /\ t[k + 1] <= Len(q)
             /\ t[k + 1] = Ahead(q, t[k])
  <2>1. /\ t[0] = 0 /\ \A k \in Nat : t[k + 1] = Ahead(q, t[k])
    BY ItemStarts
  <2>2. /\ m \in 0 .. Len(q) /\ m = Len(v) /\ t[m] = Len(q)
        /\ \A k \in 0 .. (m - 1) :
               /\ HasSize(CropFrom(q, t[k]))
               /\ t[k] \in Nat /\ t[k] < Len(q)
               /\ t[k + 1] \in Nat /\ t[k] <= t[k + 1] /\ t[k + 1] <= Len(q)
    BY ReadsStarts
  <2> HIDE DEF t, m
  <2>3. \A k \in 0 .. (m - 1) : k \in Nat
    OBVIOUS
  <2>4. \A k \in 0 .. (m - 1) : t[k + 1] = Ahead(q, t[k])
    BY <2>1, <2>3, Zenon
  <2> QED
    BY <2>1, <2>2, <2>4, Zenon
<1>3. /\ p \o q \in Seq(Bytes) /\ Len(p \o q) = Len(p) + Len(q)
      /\ Len(p) \in Nat /\ Len(q) \in Nat
  OBVIOUS
<1>4. w[0] = 0 /\ \A k \in Nat : w[k + 1] = Ahead(p \o q, w[k])
  BY <1>3, ItemStarts
<1>0. n \in Nat /\ m \in Nat
  BY <1>1, <1>2, <1>3
<1> HIDE DEF n, m, s, t, w
<1> DEFINE T == {k \in Nat : k <= n => w[k] = s[k]}
<1>5. Nat \subseteq T
  <2>1. 0 \in T
    BY <1>1, <1>4
  <2>2. ASSUME NEW k \in Nat, k \in T PROVE k + 1 \in T
    <3> SUFFICES ASSUME k + 1 <= n PROVE w[k + 1] = s[k + 1]
      OBVIOUS
    <3>1. k \in 0 .. (n - 1) /\ k <= n
      BY <1>0
    <3>2. w[k] = s[k]
      BY <2>2, <3>1
    <3>3. HasSize(CropFrom(p, s[k])) /\ s[k] \in Nat /\ s[k] < Len(p) /\ s[k + 1] = Ahead(p, s[k])
      BY <1>1, <3>1
    <3>4. Ahead(p \o q, s[k]) = Ahead(p, s[k])
      BY <3>3, AheadOfMore
    <3> QED
      BY <1>4, <3>2, <3>3, <3>4
  <2> HIDE DEF T
  <2> QED
    BY <2>1, <2>2, SetInduction, Zenon
<1> DEFINE U == {k \in Nat : k <= m => w[n + k] = Len(p) + t[k]}
<1>6. Nat \subseteq U
  <2>1. 0 \in U
    <3>1. n + 0 = n /\ Len(p) + 0 = Len(p) /\ n <= n
      BY <1>0, <1>3
    <3>2. w[n] = s[n]
      BY <1>0, <1>5, <3>1
    <3> QED
      BY <1>1, <1>2, <3>1, <3>2
  <2>2. ASSUME NEW k \in Nat, k \in U PROVE k + 1 \in U
    <3> SUFFICES ASSUME k + 1 <= m PROVE w[n + (k + 1)] = Len(p) + t[k + 1]
      OBVIOUS
    <3>1. k \in 0 .. (m - 1) /\ k <= m /\ n + (k + 1) = (n + k) + 1 /\ n + k \in Nat
      BY <1>0
    <3>2. w[n + k] = Len(p) + t[k]
      BY <2>2, <3>1
    <3>3. t[k] \in Nat /\ t[k] < Len(q) /\ t[k + 1] = Ahead(q, t[k])
      BY <1>2, <3>1
    <3>4. t[k] \in 0 .. Len(q)
      BY <1>3, <3>3
    <3>5. Ahead(p \o q, Len(p) + t[k]) = Len(p) + Ahead(q, t[k])
      BY <3>4, AheadInMore
    <3>6. w[(n + k) + 1] = Ahead(p \o q, w[n + k])
      BY <1>4, <3>1
    <3> QED
      BY <3>1, <3>2, <3>3, <3>5, <3>6
  <2> HIDE DEF U
  <2> QED
    BY <2>1, <2>2, SetInduction, Zenon
<1>7. \A k \in 0 .. n : w[k] = s[k]
  BY <1>0, <1>5
<1>8. \A k \in 0 .. m : w[n + k] = Len(p) + t[k]
  BY <1>0, <1>6
<1> HIDE DEF T, U
<1>9. ASSUME NEW k \in 0 .. ((n + m) - 1) PROVE w[k] < Len(p \o q)
  <2>1. CASE k < n
    <3>1. k \in 0 .. (n - 1) /\ k \in 0 .. n
      BY <1>0, <2>1
    <3>2. w[k] = s[k] /\ s[k] < Len(p) /\ s[k] \in Nat
      BY <1>1, <1>7, <3>1
    <3> QED
      BY <1>3, <3>2
  <2>2. CASE ~ (k < n)
    <3>1. k - n \in 0 .. (m - 1) /\ k - n \in 0 .. m /\ n + (k - n) = k
      BY <1>0, <2>2
    <3>2. w[n + (k - n)] = Len(p) + t[k - n] /\ t[k - n] < Len(q) /\ t[k - n] \in Nat
      BY <1>2, <1>8, <3>1
    <3> QED
      BY <1>3, <3>1, <3>2
  <2> QED
    BY <2>1, <2>2
<1>10. HasItems(p \o q) /\ ItemCount(p \o q) = n + m
  <2>1. n + m \in 0 .. Len(p \o q)
    BY <1>1, <1>2, <1>3
  <2>2. w[n + m] = Len(p \o q)
    <3>1. m \in 0 .. m
      BY <1>0
    <3> QED
      BY <1>2, <1>3, <1>8, <3>1
  <2> QED
    BY <1>3, <1>9, <2>1, <2>2, CountIs DEF w
<1>11. /\ Len(u \o v) = n + m
       /\ \A k \in 1 .. n : (u \o v)[k] = u[k]
       /\ \A k \in 1 .. m : (u \o v)[n + k] = v[k]
  BY <1>1, <1>2
<1>12. ASSUME NEW k \in 1 .. (n + m)
       PROVE  Whole(Item(p \o q, k - 1)) /\ Items(Item(p \o q, k - 1)) = (u \o v)[k]
  <2>1. CASE k <= n
    <3> DEFINE j == k - 1
    <3>1. j \in 0 .. (n - 1) /\ j \in 0 .. n /\ j + 1 \in 0 .. n /\ k \in 1 .. n
      BY <1>0, <2>1
    <3>2. w[j] = s[j] /\ w[j + 1] = s[j + 1]
      BY <1>7, <3>1
    <3>3. s[j] \in Nat /\ s[j + 1] \in Nat /\ s[j] <= s[j + 1] /\ s[j + 1] <= Len(p)
      BY <1>1, <3>1
    <3>4. s[j + 1] - s[j] \in Nat /\ s[j] + (s[j + 1] - s[j]) <= Len(p)
      BY <1>3, <3>3
    <3>5. Crop(p \o q, s[j], s[j + 1] - s[j]) = Crop(p, s[j], s[j + 1] - s[j])
      BY <3>3, <3>4, CropOfMore
    <3>6. Item(p \o q, j) = Item(p, j)
      BY <3>2, <3>5 DEF Item, w, s
    <3>7. Whole(Item(p, j)) /\ Items(Item(p, j)) = u[k]
      BY <3>1 DEF Reads, n
    <3> QED
      BY <1>11, <3>1, <3>6, <3>7
  <2>2. CASE ~ (k <= n)
    <3> DEFINE i == k - n
               j == i - 1
    <3>1. j \in 0 .. (m - 1) /\ j \in 0 .. m /\ j + 1 \in 0 .. m /\ i \in 1 .. m /\ n + i = k
          /\ k - 1 = n + j /\ (k - 1) + 1 = n + (j + 1)
      BY <1>0, <2>2
    <3>2. w[n + j] = Len(p) + t[j] /\ w[n + (j + 1)] = Len(p) + t[j + 1]
      BY <1>8, <3>1
    <3>3. t[j] \in Nat /\ t[j + 1] \in Nat /\ t[j] <= t[j + 1] /\ t[j + 1] <= Len(q)
      BY <1>2, <3>1
    <3>4. /\ t[j + 1] - t[j] \in Nat /\ t[j] + (t[j + 1] - t[j]) <= Len(q)
          /\ (Len(p) + t[j + 1]) - (Len(p) + t[j]) = t[j + 1] - t[j]
      BY <1>3, <3>3
    <3>5. Crop(p \o q, Len(p) + t[j], t[j + 1] - t[j]) = Crop(q, t[j], t[j + 1] - t[j])
      BY <3>3, <3>4, CropInMore
    <3> HIDE DEF j, i
    <3>6. Item(p \o q, k - 1) = Item(q, j)
      BY <3>1, <3>2, <3>4, <3>5 DEF Item, w, t
    <3>7. Whole(Item(q, j)) /\ Items(Item(q, j)) = v[i]
      BY <3>1 DEF Reads, m, j
    <3>8. (u \o v)[n + i] = v[i]
      BY <1>11, <3>1
    <3> QED
      BY <3>1, <3>6, <3>7, <3>8
  <2> QED
    BY <2>1, <2>2
<1> QED
  BY <1>10, <1>11, <1>12 DEF Reads

\* One item alone.
LEMMA ReadsOne ==
    ASSUME NEW c \in Seq(Bytes), Whole(c)
    PROVE  Reads(c, <<Items(c)>>)
<1> DEFINE s == ItemStart(c)
<1>1. c # <<>> /\ HasSize(c) /\ ActualSize(c) = Len(c) /\ CropFrom(c, 0) = c
  BY WholeIs, OpensStrict, WholeFrom
<1>2. s[0] = 0 /\ s[0 + 1] = Ahead(c, 0)
  <2>1. 0 \in Nat
    OBVIOUS
  <2> QED
    BY <2>1, ItemStarts
<1>3. Len(c) \in Nat /\ Len(c) > 0 /\ 0 + 1 = 1
  BY <1>1
<1>4. s[1] = Len(c)
  <2>1. Ahead(c, 0) = 0 + Len(c)
    BY <1>1 DEF Ahead
  <2> QED
    BY <1>2, <1>3, <2>1
<1>5. HasItems(c) /\ ItemCount(c) = 1
  <2>1. 1 \in 0 .. Len(c) /\ \A k \in 0 .. (1 - 1) : s[k] < Len(c)
    BY <1>2, <1>3
  <2> QED
    BY <1>4, <2>1, CountIs
<1>6. Item(c, 0) = c
  <2>1. Item(c, 0) = Crop(c, 0, Len(c) - 0)
    <3>1. Item(c, 0) = Crop(c, s[0], s[0 + 1] - s[0])
      BY DEF Item
    <3> HIDE DEF s
    <3>2. s[0 + 1] = Len(c) /\ s[0] = 0
      BY <1>2, <1>3, <1>4
    <3> QED
      BY <3>1, <3>2, Zenon
  <2>2. /\ Crop(c, 0, Len(c)) \in Seq(Bytes) /\ Len(Crop(c, 0, Len(c))) = Len(c)
        /\ \A k \in 1 .. Len(c) : Crop(c, 0, Len(c))[k] = c[0 + k]
    <3>1. 0 \in Nat /\ Len(c) \in Nat /\ 0 + Len(c) <= Len(c)
      BY <1>3
    <3> QED
      BY <3>1, Cropped, Zenon
  <2>3. Crop(c, 0, Len(c)) = c
    <3>1. \A k \in 1 .. Len(c) : 0 + k = k
      OBVIOUS
    <3> QED
      BY <2>2, <3>1, SameBytes
  <2>4. Len(c) - 0 = Len(c)
    BY <1>3
  <2> QED
    BY <2>1, <2>3, <2>4
<1>7. \A k \in 1 .. 1 : k = 1 /\ k - 1 = 0
  OBVIOUS
<1>8. Len(<<Items(c)>>) = 1 /\ <<Items(c)>>[1] = Items(c)
  OBVIOUS
<1> QED
  BY <1>5, <1>6, <1>7, <1>8 DEF Reads

LEMMA ReadsNothing == Reads(<<>>, <<>>)
<1>1. <<>> \in Seq(Bytes) /\ Len(<<>>) = 0
  OBVIOUS
<1>2. ItemStart(<<>>)[0] = 0 /\ 0 \in 0 .. Len(<<>>)
  <2>1. ItemStart(<<>>)[0] = 0
    BY <1>1, ItemStarts, Zenon
  <2> QED
    BY <1>1, <2>1
<1>3. \A k \in 0 .. (0 - 1) : FALSE
  OBVIOUS
<1>4. HasItems(<<>>) /\ ItemCount(<<>>) = 0
  BY <1>1, <1>2, <1>3, CountIs
<1>5. \A k \in 1 .. 0 : FALSE
  OBVIOUS
<1> QED
  BY <1>1, <1>4, <1>5 DEF Reads

\* Items behind the header of a list are read as the list of them.
LEMMA ListReads ==
    ASSUME NEW c \in Seq(Bytes), Len(c) < MaxSize - Base, NEW I, NEW u \in Seq(I), Reads(c, u)
    PROVE  LET b == ListHeader(Len(c)) \o c
           IN  b \in Seq(Bytes) /\ Whole(b) /\ Items(b) = ListItem(Len(u), u)
<1> DEFINE h == ListHeader(Len(c))
           b == h \o c
           n == ItemCount(c)
<1>1. /\ b \in Seq(Bytes) /\ b # <<>> /\ HasSize(b) /\ Opens(b, VeryStrict)
      /\ IsList(b) /\ Payload(b) = c
  <2>1. TRUE \in BOOLEAN /\ h = IF TRUE THEN ListHeader(Len(c)) ELSE DataHeader(Len(c))
    OBVIOUS
  <2> HIDE DEF h
  <2> QED
    BY <2>1, HeaderReads
<1> HIDE DEF h, b
<1>2. /\ HasItems(c) /\ n = Len(u) /\ n \in Nat
      /\ \A k \in 1 .. n : Whole(Item(c, k - 1)) /\ Items(Item(c, k - 1)) = u[k]
  BY DEF Reads
<1>3. Whole(b)
  <2>1. ASSUME NEW i \in 0 .. (n - 1) PROVE Whole(Item(c, i))
    <3>1. i + 1 \in 1 .. n /\ (i + 1) - 1 = i
      BY <1>2
    <3> QED
      BY <1>2, <3>1
  <2> QED
    BY <1>1, <1>2, <2>1, WholeIs
<1>4. [k \in 1 .. n |-> Items(Item(c, k - 1))] = u
  <2>1. [k \in 1 .. n |-> Items(Item(c, k - 1))] = [k \in 1 .. n |-> u[k]]
    BY <1>2
  <2>2. u = [k \in 1 .. n |-> u[k]]
    BY <1>2
  <2> QED
    BY <2>1, <2>2
<1>5. Items(b) = ListItem(n, [k \in 1 .. n |-> Items(Item(c, k - 1))])
  BY <1>1, ItemsIs
<1> QED
  BY <1>1, <1>2, <1>3, <1>4, <1>5 DEF b, h

(* The invariant of a stream: the bytes of each open list, up to where the next one begins, read  *)
(* as the items it was given, and it waits for as many as it was announced to have beyond those.   *)

Begin(st, k) == IF k = 1 THEN 0 ELSE st[k - 1].at
End(o, st, k) == IF k = Len(st) + 1 THEN Len(o) ELSE st[k].at
Part(o, st, k) == Crop(o, Begin(st, k), End(o, st, k) - Begin(st, k))

Stacked(o, st) ==
    /\ o \in Seq(Bytes) /\ st \in Seq([left : Nat \ {0}, at : Nat])
    /\ \A k \in 1..Len(st) : st[k].at <= Len(o)
Ordered(st) == \A j, k \in 1..Len(st) : j <= k => st[j].at <= st[k].at
PartsRead(o, st, op) == \A k \in 1..(Len(st) + 1) : Reads(Part(o, st, k), op[k].items)
\* What is being noted counts for the last list.
PartsCounted(st, op, m) ==
    \A k \in 1..Len(st) :
        op[k + 1].count + (IF k = Len(st) THEN m ELSE 0) = Len(op[k + 1].items) + st[k].left

SInv ==
    /\ Ordered(listStack)
    /\ PartsRead(out, listStack, opened)
    /\ PartsCounted(listStack, opened, noting)
    /\ Reads(made.bytes, made.items)

LEMMA PartBounds ==
    ASSUME NEW o, NEW st, Stacked(o, st), Ordered(st), NEW k \in 1 .. (Len(st) + 1)
    PROVE  /\ Begin(st, k) \in Nat /\ End(o, st, k) \in Nat
           /\ Begin(st, k) <= End(o, st, k) /\ End(o, st, k) <= Len(o)
           /\ End(o, st, k) - Begin(st, k) \in Nat
           /\ Begin(st, k) + (End(o, st, k) - Begin(st, k)) <= Len(o)
           /\ Part(o, st, k) \in Seq(Bytes)
           /\ k <= Len(st) => End(o, st, k) = st[k].at
<1> DEFINE n == Len(st)
           b == Begin(st, k)
           e == End(o, st, k)
<1>1. /\ o \in Seq(Bytes) /\ Len(o) \in Nat /\ n \in Nat
      /\ \A j \in 1 .. n : st[j].at \in Nat /\ st[j].at <= Len(o)
  <2>1. ASSUME NEW j \in 1 .. n PROVE st[j].at \in Nat
    <3>1. st[j] \in [left : Nat \ {0}, at : Nat]
      BY ElementOfSeq DEF Stacked
    <3> QED
      BY <3>1
  <2> QED
    BY <2>1 DEF Stacked
<1> HIDE DEF n
<1>2. b \in Nat /\ b <= Len(o) /\ (k <= n /\ b # 0 => b <= st[k].at)
  <2>1. CASE k = 1
    BY <1>1, <2>1 DEF Begin
  <2>2. CASE k # 1
    <3>1. k - 1 \in 1 .. n /\ (k <= n => k \in 1 .. n) /\ k - 1 <= k
      BY <1>1, <2>2 DEF n
    <3>2. b = st[k - 1].at
      BY <2>2 DEF Begin
    <3>3. k <= n => st[k - 1].at <= st[k].at
      BY <3>1 DEF Ordered, n
    <3> HIDE DEF b
    <3> QED
      BY <1>1, <3>1, <3>2, <3>3
  <2> QED
    BY <2>1, <2>2
<1>3. k <= n \/ k = n + 1
  BY <1>1 DEF n
<1>4. CASE k <= n
  <2>1. k \in 1 .. n /\ k # n + 1
    BY <1>1, <1>4
  <2>2. e = st[k].at
    BY <2>1 DEF End, n
  <2> HIDE DEF b, e
  <2>3. e \in Nat /\ e <= Len(o) /\ b <= e /\ e - b \in Nat /\ b + (e - b) <= Len(o)
    BY <1>1, <1>2, <2>1, <2>2
  <2>4. Crop(o, b, e - b) \in Seq(Bytes)
    BY <1>1, <1>2, <2>3, Cropped
  <2> QED
    BY <1>2, <2>2, <2>3, <2>4 DEF Part, b, e
<1>5. CASE k = n + 1
  <2>1. e = Len(o) /\ ~ (k <= n)
    BY <1>1, <1>5 DEF End, n
  <2> HIDE DEF b, e
  <2>3. e \in Nat /\ e <= Len(o) /\ b <= e /\ e - b \in Nat /\ b + (e - b) <= Len(o)
    BY <1>1, <1>2, <2>1
  <2>4. Crop(o, b, e - b) \in Seq(Bytes)
    BY <1>1, <1>2, <2>3, Cropped
  <2> QED
    BY <1>2, <2>1, <2>3, <2>4 DEF Part, b, e, n
<1> QED
  BY <1>3, <1>4, <1>5

LEMMA StreamStacked == ASSUME StreamTypes PROVE Stacked(out, listStack) /\ Len(opened) = Len(listStack) + 1
BY DEF StreamTypes, Stacked

\* Joining does not depend on the order in which it is done.
LEMMA JoinedTwice ==
    ASSUME NEW p \in Seq(Bytes), NEW q \in Seq(Bytes), NEW r \in Seq(Bytes)
    PROVE  (p \o q) \o r = p \o (q \o r)
BY ConcatAssociative

\* Bytes up to their end, and what comes behind them.
LEMMA CropToEnd ==
    ASSUME NEW o \in Seq(Bytes), NEW at \in 0 .. Len(o)
    PROVE  /\ Crop(o, at, Len(o) - at) = CropFrom(o, at)
           /\ o = Crop(o, 0, at) \o CropFrom(o, at)
           /\ Crop(o, 0, at) \in Seq(Bytes) /\ Len(Crop(o, 0, at)) = at
<1> DEFINE c == CropFrom(o, at)
           f == Crop(o, 0, at)
           d == Crop(o, at, Len(o) - at)
<1>1. /\ at \in Nat /\ Len(o) \in Nat /\ 0 \in Nat /\ 0 + at <= Len(o)
      /\ Len(o) - at \in Nat /\ at + (Len(o) - at) <= Len(o)
  OBVIOUS
<1>2. c \in Seq(Bytes) /\ Len(c) = Len(o) - at /\ \A k \in 1 .. (Len(o) - at) : c[k] = o[at + k]
  BY CroppedFrom
<1>3. f \in Seq(Bytes) /\ Len(f) = at /\ \A k \in 1 .. at : f[k] = o[0 + k]
  BY <1>1, CutThere DEF Cut
<1>4. d \in Seq(Bytes) /\ Len(d) = Len(o) - at /\ \A k \in 1 .. (Len(o) - at) : d[k] = o[at + k]
  BY <1>1, CutThere DEF Cut
<1> HIDE DEF c, f, d
<1>5. d = c
  BY <1>2, <1>4, SameBytes
<1> DEFINE w == f \o c
<1>6. /\ w \in Seq(Bytes) /\ Len(w) = Len(f) + Len(c)
      /\ \A i \in 1 .. Len(f) : w[i] = f[i]
      /\ \A i \in 1 .. Len(c) : w[Len(f) + i] = c[i]
  BY <1>2, <1>3, Joined, Zenon
<1> HIDE DEF w
<1>7. Len(w) = Len(o)
  BY <1>1, <1>2, <1>3, <1>6
<1>8. ASSUME NEW i \in 1 .. Len(o) PROVE w[i] = o[i]
  <2>1. CASE i <= at
    <3>1. i \in 1 .. at /\ 0 + i = i
      BY <1>1, <2>1
    <3> QED
      BY <1>3, <1>6, <3>1
  <2>2. CASE ~ (i <= at)
    <3>1. i - at \in 1 .. (Len(o) - at) /\ at + (i - at) = i
      BY <1>1, <2>2
    <3>2. w[at + (i - at)] = c[i - at]
      BY <1>2, <1>3, <1>6, <3>1
    <3>3. c[i - at] = o[at + (i - at)]
      BY <1>2, <3>1
    <3> QED
      BY <3>1, <3>2, <3>3
  <2> QED
    BY <2>1, <2>2
<1>9. w = o
  BY <1>6, <1>7, <1>8, SameBytes
<1> QED
  BY <1>3, <1>5, <1>9 DEF c, f, d, w

LEMMA CropAndMore ==
    ASSUME NEW p \in Seq(Bytes), NEW q \in Seq(Bytes), NEW at \in 0 .. Len(p)
    PROVE  Crop(p \o q, at, Len(p \o q) - at) = Crop(p, at, Len(p) - at) \o q
<1> DEFINE f == Crop(p, 0, at)
           c == CropFrom(p, at)
<1>1. /\ p \o q \in Seq(Bytes) /\ Len(p \o q) = Len(p) + Len(q) /\ Len(p) \in Nat /\ Len(q) \in Nat
  OBVIOUS
<1>2. Crop(p, at, Len(p) - at) = c /\ p = f \o c /\ f \in Seq(Bytes) /\ Len(f) = at
  BY CropToEnd
<1>3. c \in Seq(Bytes) /\ Len(c) = Len(p) - at
  BY CroppedFrom
<1> HIDE DEF f, c
<1> DEFINE x == c \o q
           w == p \o q
<1>4. w = f \o x
  <2>1. (f \o c) \o q = f \o (c \o q)
    <3>1. f \in Seq(Bytes) /\ c \in Seq(Bytes) /\ q \in Seq(Bytes)
      BY <1>2, <1>3
    <3> HIDE DEF x, w
    <3> QED
      BY <3>1, JoinedTwice, Zenon
  <2> QED
    BY <1>2, <2>1, Zenon
<1>5. x \in Seq(Bytes) /\ Len(x) = (Len(p) - at) + Len(q)
  BY <1>3
<1>6. w \in Seq(Bytes) /\ Len(w) = Len(p) + Len(q)
  BY <1>1
<1> HIDE DEF x, w
<1>7. /\ 0 \in Nat /\ Len(x) \in Nat /\ 0 + Len(x) <= Len(x)
      /\ Len(f) + 0 = at /\ Len(w) - at = Len(x)
      /\ 0 \in 0 .. Len(x) /\ Len(x) - 0 = Len(x)
  BY <1>1, <1>2, <1>5, <1>6
<1>8. Crop(f \o x, Len(f) + 0, Len(x)) = Crop(x, 0, Len(x))
  BY <1>2, <1>5, <1>7, CropInMore, Zenon
<1>9. Crop(x, 0, Len(x)) = x
  <2>1. Crop(x, 0, Len(x) - 0) = CropFrom(x, 0)
    BY <1>5, <1>7, CropToEnd
  <2>2. CropFrom(x, 0) = x
    BY <1>5, WholeFrom
  <2> QED
    BY <1>7, <2>1, <2>2
<1>10. Crop(w, at, Len(w) - at) = x
  BY <1>4, <1>7, <1>8, <1>9
<1> QED
  BY <1>2, <1>10 DEF x, w

\* Bytes that read as the items noted with them.
LEMMA WriteReads ==
    ASSUME StreamTypes, SInv, NEW bytes \in Seq(Bytes), NEW J, NEW items \in Seq(J),
           Reads(bytes, items), Write(bytes, items)
    PROVE  SInv'
<1> DEFINE n == Len(listStack)
           e == opened[n + 1]
           o == out
           p == out \o bytes
           st == listStack
<1>1. /\ out' = p /\ noting' = Len(items) /\ noting = 0
      /\ opened' = [opened EXCEPT ![Len(opened)].items = @ \o items]
      /\ listStack' = st /\ made' = made
  BY DEF Write
<1>2. /\ Stacked(o, st) /\ Ordered(st) /\ Len(opened) = n + 1 /\ n \in Nat
      /\ o \in Seq(Bytes)
  BY StreamStacked DEF SInv, StreamTypes
<1>3. PICK I : Kept(I)
  BY DEF StreamTypes
<1> DEFINE K == I \union J
           R == [count : Nat, items : Seq(K)]
           f == [e EXCEPT !.items = @ \o items]
<1>4. opened \in Seq(R) /\ n + 1 \in 1 .. Len(opened)
  <2>1. Kept(K)
    BY <1>3, KeptMore
  <2> QED
    BY <1>2, <2>1 DEF Kept
<1>5. e \in R /\ items \in Seq(K)
  <2>1. J \subseteq K
    OBVIOUS
  <2>2. e \in R
    BY <1>4, ElementOfSeq
  <2> HIDE DEF K
  <2> QED
    BY <2>1, <2>2, SeqMonotonic
<1>6. /\ f \in R /\ f.items = e.items \o items /\ f.count = e.count
      /\ e.items \in Seq(K)
  <2>1. e.items \o items \in Seq(K) /\ e.items \in Seq(K)
    BY <1>5
  <2> HIDE DEF e
  <2> QED
    BY <1>5, <2>1
<1>7. \A k \in 1 .. (n + 1) : opened'[k] = IF k = n + 1 THEN f ELSE opened[k]
  <2> HIDE DEF R
  <2>1. opened' = [opened EXCEPT ![n + 1] = f]
    BY <1>1, <1>2
  <2> HIDE DEF e, f
  <2> QED
    BY <1>2, <1>4, <1>6, <2>1, ExceptSeq
<1>8. p \in Seq(Bytes) /\ Len(p) \in Nat /\ Len(o) \in Nat
  BY <1>2
<1> HIDE DEF e, f, K, R, o, p
<1>9. ASSUME NEW k \in 1 .. (n + 1) PROVE Reads(Part(p, st, k), opened'[k].items)
  <2> DEFINE b == Begin(st, k)
  <2>1. Reads(Part(o, st, k), opened[k].items)
    BY DEF SInv, PartsRead, o
  <2>2. /\ b \in Nat /\ End(o, st, k) \in Nat /\ End(o, st, k) - b \in Nat
        /\ b + (End(o, st, k) - b) <= Len(o) /\ b <= End(o, st, k) /\ End(o, st, k) <= Len(o)
        /\ Part(o, st, k) \in Seq(Bytes)
    BY <1>2, PartBounds
  <2>3. CASE k # n + 1
    <3>1. End(p, st, k) = End(o, st, k) /\ opened'[k] = opened[k]
      BY <1>7, <2>3 DEF End
    <3>2. Part(p, st, k) = Part(o, st, k)
      <4> HIDE DEF b
      <4>1. Crop(p, b, End(o, st, k) - b) = Crop(o, b, End(o, st, k) - b)
        BY <1>2, <2>2, CropOfMore DEF p, o
      <4> QED
        BY <3>1, <4>1 DEF Part, b
    <3> QED
      BY <2>1, <3>1, <3>2
  <2>4. CASE k = n + 1
    <3>1. End(p, st, k) = Len(p) /\ End(o, st, k) = Len(o)
      BY <2>4 DEF End
    <3>2. Part(p, st, k) = Part(o, st, k) \o bytes
      <4> HIDE DEF b
      <4>1. b \in 0 .. Len(o)
        BY <1>8, <2>2, <3>1
      <4>2. Crop(p, b, Len(p) - b) = Crop(o, b, Len(o) - b) \o bytes
        BY <1>2, <4>1, CropAndMore DEF p, o
      <4> QED
        BY <3>1, <4>2 DEF Part, b
    <3>3. opened'[k].items = e.items \o items /\ opened[k] = e
      BY <1>6, <1>7, <2>4 DEF e
    <3>4. Reads(Part(o, st, k) \o bytes, e.items \o items)
      BY <1>5, <1>6, <2>1, <2>2, <3>3, ReadsBoth
    <3> QED
      BY <3>2, <3>3, <3>4
  <2> QED
    BY <2>3, <2>4
<1>10. ASSUME NEW k \in 1 .. n
       PROVE  opened'[k + 1].count + (IF k = n THEN Len(items) ELSE 0) = Len(opened'[k + 1].items) + st[k].left
  <2>1. opened[k + 1].count + (IF k = n THEN 0 ELSE 0) = Len(opened[k + 1].items) + st[k].left
    BY <1>1 DEF SInv, PartsCounted
  <2>2. k + 1 \in 1 .. (n + 1) /\ (k + 1 = n + 1 <=> k = n)
    BY <1>2
  <2>3. opened'[k + 1] = IF k = n THEN f ELSE opened[k + 1]
    BY <1>7, <2>2
  <2>4. CASE k # n
    BY <2>1, <2>3, <2>4
  <2>5. CASE k = n
    <3>1. e.count + 0 = Len(e.items) + st[k].left
      BY <2>1, <2>5 DEF e
    <3>2. Len(e.items \o items) = Len(e.items) + Len(items) /\ Len(items) \in Nat /\ Len(e.items) \in Nat
      BY <1>5, <1>6
    <3>3. e.count \in Nat /\ st[k].left \in Nat
      <4>1. st[k] \in [left : Nat \ {0}, at : Nat]
        BY <1>2, ElementOfSeq DEF Stacked
      <4> QED
        BY <1>5, <4>1 DEF R
    <3>4. opened'[k + 1].count = e.count /\ opened'[k + 1].items = e.items \o items
      BY <1>6, <2>3, <2>5
    <3>5. e.count + Len(items) = (Len(e.items) + Len(items)) + st[k].left
      <4> DEFINE x == e.count
                 y == Len(e.items)
                 z == st[k].left
                 i == Len(items)
      <4>1. x \in Nat /\ y \in Nat /\ z \in Nat /\ i \in Nat /\ x + 0 = y + z
        BY <3>1, <3>2, <3>3
      <4> HIDE DEF x, y, z, i
      <4>2. x + i = (y + i) + z
        BY <4>1
      <4> QED
        BY <4>2 DEF x, y, z, i
    <3> QED
      BY <2>5, <3>2, <3>4, <3>5
  <2> QED
    BY <2>4, <2>5
<1>11. PartsRead(out', listStack', opened')
  BY <1>1, <1>9 DEF PartsRead
<1>12. PartsCounted(listStack', opened', noting')
  BY <1>1, <1>10 DEF PartsCounted
<1> QED
  BY <1>1, <1>2, <1>11, <1>12 DEF SInv

\* Room is for fewer bytes than a reader takes for a length.
LEMMA RoomBounds ==
    ASSUME StreamTypes, NEW size \in Nat, Room(size, 0)
    PROVE  size < MaxSize - Base
<1> DEFINE more == (1 + MaxLengthBytes) * Len(listStack)
           top == MaxSize - Base
<1>1. Len(out) \in Nat /\ Len(listStack) \in Nat
  BY DEF StreamTypes
<1>2. more \in Nat /\ top \in Int
  BY <1>1, WidthIs
<1>3. Len(out) + size + more < top
  <2>1. Len(listStack) + 0 = Len(listStack)
    BY <1>1
  <2> QED
    BY <2>1 DEF Room
<1> HIDE DEF more, top
<1>4. size < top
  BY <1>1, <1>2, <1>3
<1> QED
  BY <1>4 DEF top

LEMMA WriteString ==
    ASSUME StreamTypes, SInv, NEW s \in Seq(Bytes), Write(StringBytes(s), <<StringItem(s)>>)
    PROVE  SInv'
<1> DEFINE b == StringBytes(s)
           item == StringItem(s)
<1>1. Len(b) \in Nat
  BY StringWritten
<1>2. Len(b) < MaxSize - Base
  BY <1>1, RoomBounds DEF Write
<1>3. Len(s) < MaxSize - Base
  <2>1. CASE Len(s) = 1 /\ s[1] < DataImmLenStart
    BY <1>2, <2>1 DEF StringBytes
  <2>2. CASE ~ (Len(s) = 1 /\ s[1] < DataImmLenStart)
    <3>1. b = DataHeader(Len(s)) \o s
      BY <2>2 DEF StringBytes
    <3>2. Len(b) = Len(DataHeader(Len(s))) + Len(s)
      BY <3>1, WithHeader
    <3>3. Len(DataHeader(Len(s))) \in Nat /\ Len(s) \in Nat /\ MaxSize - Base \in Int
      <4>1. Len(s) \in Nat
        OBVIOUS
      <4> QED
        BY <4>1, Headers, WidthIs
    <3> DEFINE x == Len(DataHeader(Len(s)))
               top == MaxSize - Base
    <3>4. Len(b) = x + Len(s) /\ x \in Nat /\ Len(s) \in Nat /\ top \in Int /\ Len(b) < top
      BY <1>2, <3>2, <3>3
    <3> HIDE DEF x, top, b
    <3>5. Len(s) < top
      BY <3>4
    <3> QED
      BY <3>5 DEF top
  <2> QED
    BY <2>1, <2>2
<1>4. b \in Seq(Bytes) /\ Whole(b) /\ Items(b) = item
  BY <1>3, StringReads
<1>5. Reads(b, <<item>>)
  <2>1. Reads(b, <<Items(b)>>)
    BY <1>4, ReadsOne
  <2> QED
    BY <1>4, <2>1
<1>6. <<item>> \in Seq({item}) /\ Write(b, <<item>>)
  OBVIOUS
<1> HIDE DEF b, item
<1> QED
  BY <1>4, <1>5, <1>6, WriteReads

\* Items that are given as a list of them.
LEMMA WriteList ==
    ASSUME StreamTypes, SInv, NEW c \in Seq(Bytes), NEW I, NEW u \in Seq(I), Reads(c, u),
           Write(ListHeader(Len(c)) \o c, <<ListItem(Len(u), u)>>)
    PROVE  SInv'
<1> DEFINE h == ListHeader(Len(c))
           b == h \o c
           item == ListItem(Len(u), u)
           top == MaxSize - Base
<1>1. Len(b) = Len(h) + Len(c) /\ Len(b) \in Nat
  BY WithHeader
<1>2. Len(c) \in Nat /\ Len(h) \in Nat /\ top \in Int
  <2>1. Len(c) \in Nat
    OBVIOUS
  <2> QED
    BY <2>1, Headers, WidthIs
<1>3. Len(b) < top
  BY <1>1, RoomBounds DEF Write
<1>4. Len(c) < top
  <2> HIDE DEF h, b, top
  <2> QED
    BY <1>1, <1>2, <1>3
<1>5. b \in Seq(Bytes) /\ Whole(b) /\ Items(b) = item
  BY <1>4, ListReads
<1>6. Reads(b, <<item>>)
  <2> HIDE DEF b, item
  <2>1. Reads(b, <<Items(b)>>)
    BY <1>5, ReadsOne
  <2> QED
    BY <1>5, <2>1
<1>7. <<item>> \in Seq({item}) /\ Write(b, <<item>>)
  OBVIOUS
<1> HIDE DEF b, item
<1> QED
  BY <1>5, <1>6, <1>7, WriteReads

LEMMA AppendListReads == ASSUME StreamTypes, SInv, NEW n \in Nat, AppendList(n) PROVE SInv'
<1>1. CASE n = 0
  <2>1. <<>> \in Seq(Bytes) /\ <<>> \in Seq({}) /\ Len(<<>>) = 0
    OBVIOUS
  <2>2. ListHeader(0) \o <<>> = ListHeader(0)
    <3>1. ListHeader(0) \in Seq(Nat)
      BY Headers
    <3> QED
      BY <3>1, ConcatEmptySeq
  <2>3. Write(ListHeader(Len(<<>>)) \o <<>>, <<ListItem(Len(<<>>), <<>>)>>)
    BY <1>1, <2>1, <2>2 DEF AppendList
  <2> QED
    BY <2>1, <2>3, ReadsNothing, WriteList
<1>2. CASE n # 0
  <2> DEFINE N == Len(listStack)
             R == [left : Nat \ {0}, at : Nat]
             f == [left |-> n, at |-> Len(out)]
             st == listStack
  <2>1. /\ noting = 0 /\ noting' = 0
        /\ listStack' = Append(st, f)
        /\ opened' = Append(opened, Announced(n))
        /\ out' = out /\ made' = made
    BY <1>2 DEF AppendList
  <2>2. /\ Stacked(out, st) /\ Ordered(st) /\ Len(opened) = N + 1 /\ N \in Nat
        /\ out \in Seq(Bytes) /\ Len(out) \in Nat /\ st \in Seq(R)
    BY StreamStacked DEF SInv, StreamTypes
  <2>3. PICK I : Kept(I)
    BY DEF StreamTypes
  <2>4. /\ Len(listStack') = N + 1
        /\ listStack'[N + 1] = f
        /\ \A k \in 1 .. N : listStack'[k] = st[k]
    <3>1. f \in R
      BY <1>2, <2>2
    <3> HIDE DEF R, f
    <3> QED
      BY <2>1, <2>2, <3>1, AppendProperties
  <2>5. /\ opened'[N + 2] = Announced(n)
        /\ \A k \in 1 .. (N + 1) : opened'[k] = opened[k]
    <3> DEFINE S == [count : Nat, items : Seq(I)]
    <3>1. Announced(n) \in S /\ opened \in Seq(S)
      BY <2>3 DEF Announced, Kept
    <3>2. (N + 1) + 1 = N + 2
      BY <2>2
    <3> HIDE DEF S, N
    <3> QED
      BY <2>1, <2>2, <3>1, <3>2, AppendProperties
  <2>6. f.at = Len(out) /\ f.left = n
    OBVIOUS
  <2> HIDE DEF f, R, N
  <2>7. Ordered(listStack')
    <3> SUFFICES ASSUME NEW j \in 1 .. (N + 1), NEW k \in 1 .. (N + 1), j <= k
                 PROVE listStack'[j].at <= listStack'[k].at
      BY <2>4 DEF Ordered
    <3>1. CASE k = N + 1
      <4>1. listStack'[k].at = Len(out)
        BY <2>4, <2>6, <3>1
      <4>2. CASE j = N + 1
        BY <2>2, <2>4, <2>6, <4>1, <4>2
      <4>3. CASE j # N + 1
        <5>1. j \in 1 .. N
          BY <2>2, <4>3
        <5> QED
          BY <2>2, <2>4, <4>1, <5>1 DEF Stacked, N
      <4> QED
        BY <4>2, <4>3
    <3>2. CASE k # N + 1
      <4>1. j \in 1 .. N /\ k \in 1 .. N
        BY <2>2, <3>2
      <4> QED
        BY <2>2, <2>4, <4>1 DEF Ordered, N
    <3> QED
      BY <3>1, <3>2
  <2>8. ASSUME NEW k \in 1 .. (N + 2) PROVE Reads(Part(out, listStack', k), opened'[k].items)
    <3>1. CASE k <= N + 1
      <4>1. k \in 1 .. (N + 1)
        BY <2>2, <3>1
      <4>2. Begin(listStack', k) = Begin(st, k)
        <5>1. CASE k = 1
          BY <5>1 DEF Begin
        <5>2. CASE k # 1
          <6>1. k - 1 \in 1 .. N
            BY <2>2, <4>1, <5>2
          <6> QED
            BY <2>4, <5>2, <6>1 DEF Begin
        <5> QED
          BY <5>1, <5>2
      <4>3. End(out, listStack', k) = End(out, st, k)
        <5>1. End(out, listStack', k) = listStack'[k].at
          <6>1. k # (N + 1) + 1
            BY <2>2, <4>1
          <6> QED
            BY <2>4, <6>1 DEF End
        <5>2. CASE k = N + 1
          BY <2>4, <2>6, <5>1, <5>2 DEF End, N
        <5>3. CASE k # N + 1
          <6>1. k \in 1 .. N
            BY <2>2, <4>1, <5>3
          <6> QED
            BY <2>4, <5>1, <5>3, <6>1 DEF End, N
        <5> QED
          BY <5>2, <5>3
      <4>4. Reads(Part(out, st, k), opened[k].items)
        BY <4>1 DEF SInv, PartsRead, N
      <4> QED
        BY <2>5, <4>1, <4>2, <4>3, <4>4 DEF Part
    <3>2. CASE ~ (k <= N + 1)
      <4>1. k = N + 2 /\ k # 1 /\ k - 1 = N + 1 /\ k = (N + 1) + 1
        BY <2>2, <3>2
      <4>2. Begin(listStack', k) = Len(out) /\ End(out, listStack', k) = Len(out)
        BY <2>4, <2>6, <4>1 DEF Begin, End
      <4>3. Crop(out, Len(out), 0) \in Seq(Bytes) /\ Len(Crop(out, Len(out), 0)) = 0
        <5>1. 0 \in Nat /\ Len(out) + 0 <= Len(out)
          BY <2>2
        <5> QED
          BY <2>2, <5>1, Cropped
      <4>4. Part(out, listStack', k) = <<>>
        <5>1. Len(out) - Len(out) = 0
          BY <2>2
        <5>2. Part(out, listStack', k) = Crop(out, Len(out), 0)
          BY <4>2, <5>1 DEF Part
        <5> QED
          BY <4>3, <5>2
      <4>5. opened'[k].items = <<>>
        BY <2>5, <4>1 DEF Announced
      <4> QED
        BY <4>4, <4>5, ReadsNothing
    <3> QED
      BY <3>1, <3>2
  <2>9. PartsRead(out', listStack', opened')
    <3>1. (N + 1) + 1 = N + 2
      BY <2>2
    <3> QED
      BY <2>1, <2>4, <2>8, <3>1 DEF PartsRead
  <2>10. ASSUME NEW k \in 1 .. (N + 1)
         PROVE  opened'[k + 1].count + (IF k = N + 1 THEN 0 ELSE 0) = Len(opened'[k + 1].items) + listStack'[k].left
    <3>1. CASE k = N + 1
      <4>1. k + 1 = N + 2
        BY <2>2, <3>1
      <4>2. opened'[k + 1].count = n /\ opened'[k + 1].items = <<>> /\ listStack'[k].left = n
        BY <2>4, <2>5, <2>6, <3>1, <4>1 DEF Announced
      <4>3. Len(<<>>) = 0 /\ n + 0 = 0 + n
        OBVIOUS
      <4> QED
        BY <3>1, <4>2, <4>3
    <3>2. CASE k # N + 1
      <4>1. k \in 1 .. N /\ k + 1 \in 1 .. (N + 1)
        BY <2>2, <3>2
      <4>2. opened[k + 1].count + (IF k = N THEN 0 ELSE 0) = Len(opened[k + 1].items) + st[k].left
        BY <2>1, <4>1 DEF SInv, PartsCounted, N
      <4> QED
        BY <2>4, <2>5, <4>1, <4>2
    <3> QED
      BY <3>1, <3>2
  <2>11. PartsCounted(listStack', opened', noting')
    BY <2>1, <2>4, <2>10 DEF PartsCounted
  <2> QED
    BY <2>1, <2>7, <2>9, <2>11 DEF SInv
<1> QED
  BY <1>1, <1>2

LEMMA NoteRefusedReads == ASSUME StreamTypes, SInv, NoteRefused PROVE SInv'
<1> DEFINE n == Len(listStack)
           e == opened[n + 1]
<1>1. /\ out' = out /\ listStack' = listStack /\ made' = made /\ noting' = 0
      /\ opened' = [opened EXCEPT ![Len(opened)].count = @ + noting]
  BY DEF NoteRefused
<1>2. /\ Stacked(out, listStack) /\ Len(opened) = n + 1 /\ n \in Nat /\ noting \in Nat
  BY StreamStacked DEF StreamTypes
<1>3. PICK I : Kept(I)
  BY DEF StreamTypes
<1> DEFINE R == [count : Nat, items : Seq(I)]
           f == [e EXCEPT !.count = @ + noting]
<1>4. opened \in Seq(R) /\ n + 1 \in 1 .. Len(opened)
  BY <1>2, <1>3 DEF Kept
<1>5. e \in R
  BY <1>4, ElementOfSeq
<1>6. f \in R /\ f.items = e.items /\ f.count = e.count + noting
  <2> HIDE DEF e
  <2> QED
    BY <1>2, <1>5
<1>7. \A k \in 1 .. (n + 1) : opened'[k] = IF k = n + 1 THEN f ELSE opened[k]
  <2> HIDE DEF R
  <2>1. opened' = [opened EXCEPT ![n + 1] = f]
    BY <1>1, <1>2
  <2> HIDE DEF e, f
  <2> QED
    BY <1>2, <1>4, <1>6, <2>1, ExceptSeq
<1> HIDE DEF e, f, n
<1>8. \A k \in 1 .. (n + 1) : opened'[k].items = opened[k].items
  BY <1>6, <1>7 DEF e
<1>9. PartsRead(out', listStack', opened')
  BY <1>1, <1>8 DEF SInv, PartsRead, n
<1>10. ASSUME NEW k \in 1 .. n
       PROVE  opened'[k + 1].count + (IF k = n THEN 0 ELSE 0) = Len(opened'[k + 1].items) + listStack[k].left
  <2>1. opened[k + 1].count + (IF k = n THEN noting ELSE 0) = Len(opened[k + 1].items) + listStack[k].left
    BY DEF SInv, PartsCounted, n
  <2>2. k + 1 \in 1 .. (n + 1) /\ (k + 1 = n + 1 <=> k = n)
    BY <1>2
  <2>3. opened'[k + 1] = IF k = n THEN f ELSE opened[k + 1]
    BY <1>7, <2>2
  <2>4. CASE k # n
    BY <2>1, <2>3, <2>4
  <2>5. CASE k = n
    <3>1. e.count + noting = Len(e.items) + listStack[k].left /\ e.count \in Nat
      BY <1>5, <2>1, <2>5 DEF e
    <3>2. f.count + 0 = e.count + noting
      BY <1>2, <1>6, <3>1
    <3> QED
      BY <1>6, <2>3, <2>5, <3>1, <3>2
  <2> QED
    BY <2>4, <2>5
<1>11. PartsCounted(listStack', opened', noting')
  BY <1>1, <1>10 DEF PartsCounted, n
<1> QED
  BY <1>1, <1>9, <1>11 DEF SInv

LEMMA NoteCountedReads == ASSUME StreamTypes, SInv, NoteCounted PROVE SInv'
<1> DEFINE R == [left : Nat \ {0}, at : Nat]
           n == Len(listStack)
           e == listStack[n]
           f == [e EXCEPT !.left = @ - noting]
           st == listStack
<1>1. /\ out' = out /\ opened' = opened /\ made' = made /\ noting' = 0
      /\ listStack # <<>> /\ e.left > noting
      /\ listStack' = [listStack EXCEPT ![n].left = @ - noting]
  BY DEF NoteCounted, Top
<1>2. listStack \in Seq(R) /\ n \in 1 .. n /\ n \in Nat /\ noting \in Nat
  BY <1>1 DEF StreamTypes
<1>3. e \in R
  BY <1>2, ElementOfSeq
<1>4. f \in R /\ f.at = e.at /\ f.left = e.left - noting /\ e.left \in Nat
  <2>1. e.left - noting \in Nat \ {0}
    BY <1>1, <1>3 DEF StreamTypes
  <2> QED
    BY <1>3, <2>1
<1>5. /\ Len(listStack') = n
      /\ \A k \in 1 .. n : listStack'[k] = IF k = n THEN f ELSE listStack[k]
  <2>1. listStack' = [listStack EXCEPT ![n] = f]
    BY <1>1
  <2> HIDE DEF R, e, f
  <2> QED
    BY <1>2, <1>4, <2>1, ExceptSeq
<1> HIDE DEF f, R, n, e
<1>6. \A k \in 1 .. n : listStack'[k].at = st[k].at
  BY <1>4, <1>5 DEF e
<1>7. Ordered(listStack')
  BY <1>5, <1>6 DEF SInv, Ordered, n
<1>8. ASSUME NEW k \in 1 .. (n + 1) PROVE Part(out, listStack', k) = Part(out, st, k)
  <2>1. Begin(listStack', k) = Begin(st, k)
    <3>1. k # 1 => k - 1 \in 1 .. n
      BY <1>2
    <3> QED
      BY <1>6, <3>1 DEF Begin
  <2>2. End(out, listStack', k) = End(out, st, k)
    <3>1. k # n + 1 => k \in 1 .. n
      BY <1>2
    <3> QED
      BY <1>5, <1>6, <3>1 DEF End, n
  <2> QED
    BY <2>1, <2>2 DEF Part
<1>9. PartsRead(out', listStack', opened')
  BY <1>1, <1>5, <1>8 DEF SInv, PartsRead, n
<1>10. ASSUME NEW k \in 1 .. n
       PROVE  opened[k + 1].count + (IF k = n THEN 0 ELSE 0) = Len(opened[k + 1].items) + listStack'[k].left
  <2>1. opened[k + 1].count + (IF k = n THEN noting ELSE 0) = Len(opened[k + 1].items) + listStack[k].left
    BY DEF SInv, PartsCounted, n
  <2>2. CASE k # n
    BY <1>5, <2>1, <2>2
  <2>3. CASE k = n
    <3>1. listStack'[k].left = e.left - noting
      BY <1>4, <1>5, <2>3
    <3>2. PICK I : Kept(I)
      BY DEF StreamTypes
    <3>3. k + 1 \in 1 .. Len(opened)
      BY <1>2, StreamStacked DEF n
    <3>4. opened[k + 1] \in [count : Nat, items : Seq(I)]
      BY <3>2, <3>3, ElementOfSeq DEF Kept
    <3>5. opened[k + 1].count \in Nat /\ Len(opened[k + 1].items) \in Nat
      BY <3>4
    <3>6. opened[k + 1].count + noting = Len(opened[k + 1].items) + e.left
      BY <2>1, <2>3 DEF e
    <3>7. opened[k + 1].count + 0 = Len(opened[k + 1].items) + (e.left - noting)
      <4> DEFINE c == opened[k + 1].count
                 l == Len(opened[k + 1].items)
                 x == e.left
      <4>1. c \in Nat /\ l \in Nat /\ x \in Nat /\ noting \in Nat /\ c + noting = l + x
        BY <1>2, <1>4, <3>5, <3>6
      <4> HIDE DEF c, l, x
      <4>2. c + 0 = l + (x - noting)
        BY <4>1
      <4> QED
        BY <4>2 DEF c, l, x
    <3> QED
      BY <2>3, <3>1, <3>7
  <2> QED
    BY <2>2, <2>3
<1>11. PartsCounted(listStack', opened', noting')
  BY <1>1, <1>5, <1>10 DEF PartsCounted
<1> QED
  BY <1>1, <1>7, <1>9, <1>11 DEF SInv

LEMMA NoteCompletedReads == ASSUME StreamTypes, SInv, NoteCompleted PROVE SInv'
<1> DEFINE n == Len(listStack)
           at == listStack[n].at
           c == CropFrom(out, at)
           h == ListHeader(Len(c))
           R == [left : Nat \ {0}, at : Nat]
           st == listStack
           p == Crop(out, 0, at)
           b == h \o c
<1>1. /\ listStack # <<>> /\ listStack[n].left = noting
      /\ out' = p \o h \o c
      /\ listStack' = Front(listStack)
      /\ opened' = LET outer == Front(opened)
                   IN  [outer EXCEPT ![Len(outer)].items = Append(@, ListItem(Top(opened).count, Top(opened).items))]
      /\ noting' = 1 /\ made' = made
  BY DEF NoteCompleted, Top
<1>2. /\ listStack \in Seq(R) /\ n \in 1 .. n /\ n \in Nat
      /\ out \in Seq(Bytes) /\ Len(out) \in Nat /\ Len(opened) = n + 1
      /\ Stacked(out, st) /\ Ordered(st)
  <2>1. listStack \in Seq(R) /\ out \in Seq(Bytes) /\ Len(opened) = n + 1
    BY DEF StreamTypes
  <2>2. Stacked(out, st) /\ Ordered(st)
    BY StreamStacked DEF SInv
  <2> HIDE DEF R
  <2>3. n \in Nat /\ n # 0 /\ Len(out) \in Nat
    BY <1>1, <2>1
  <2> QED
    BY <2>1, <2>2, <2>3
<1>3. at \in Nat /\ at <= Len(out) /\ at \in 0 .. Len(out)
  <2>1. listStack[n] \in R
    BY <1>2, ElementOfSeq
  <2> QED
    BY <1>2, <2>1 DEF StreamTypes
<1> HIDE DEF at
<1>4. /\ c \in Seq(Bytes) /\ Len(c) = Len(out) - at /\ Len(c) \in Nat
      /\ p \in Seq(Bytes) /\ Len(p) = at /\ out = p \o c
      /\ Crop(out, at, Len(out) - at) = c
  <2>1. /\ Crop(out, at, Len(out) - at) = c /\ out = p \o c
        /\ p \in Seq(Bytes) /\ Len(p) = at
    BY <1>2, <1>3, CropToEnd
  <2>2. c \in Seq(Bytes) /\ Len(c) = Len(out) - at
    BY <1>2, <1>3, CroppedFrom
  <2> HIDE DEF c, p
  <2>3. Len(c) \in Nat
    BY <2>2
  <2> QED
    BY <2>1, <2>2, <2>3
<1>5. Len(c) < MaxSize - Base
  <2> DEFINE top == MaxSize - Base
             more == (1 + MaxLengthBytes) * n
  <2>1. top \in Nat /\ more \in Nat /\ Len(out) + more < top
    BY <1>2, WidthIs DEF StreamTypes
  <2> HIDE DEF top, more, c
  <2>2. Len(c) < top
    BY <1>2, <1>3, <1>4, <2>1
  <2> QED
    BY <2>2 DEF top
<1>6. h \in Seq(Bytes) /\ b \in Seq(Bytes)
  <2> HIDE DEF c
  <2>1. h \in Seq(Bytes)
    BY <1>4, <1>5, Headers
  <2> HIDE DEF h
  <2> QED
    BY <1>4, <2>1
<1>7. out' = p \o b
  <2>1. p \in Seq(Bytes) /\ h \in Seq(Bytes) /\ c \in Seq(Bytes) /\ out' = (p \o h) \o c
    BY <1>1, <1>4, <1>6
  <2> HIDE DEF p, h, c
  <2>2. (p \o h) \o c = p \o (h \o c)
    BY <2>1, JoinedTwice, Zenon
  <2> QED
    BY <2>1, <2>2
<1>8. PICK I : Kept(I)
  BY DEF StreamTypes
<1> DEFINE l == opened[n + 1]
           item == ListItem(l.count, l.items)
           J == I \union {item}
           S == [count : Nat, items : Seq(J)]
           e == opened[n]
           f == [e EXCEPT !.items = Append(@, item)]
<1>9. opened \in Seq(S) /\ item \in J
  <2>1. Kept(J)
    BY <1>8, KeptMore
  <2> QED
    BY <2>1 DEF Kept
<1>10. e \in S /\ l \in S /\ n \in 1 .. (n + 1) /\ n + 1 \in 1 .. (n + 1)
  <2>1. n \in 1 .. Len(opened) /\ n + 1 \in 1 .. Len(opened)
    BY <1>2
  <2> HIDE DEF S
  <2> QED
    BY <1>2, <1>9, <2>1, ElementOfSeq
<1>11. /\ Front(opened) \in Seq(S) /\ Len(Front(opened)) = n
       /\ \A k \in 1 .. n : Front(opened)[k] = opened[k]
  <2> HIDE DEF S, n
  <2>1. Len(opened) > 0 /\ Len(opened) - 1 = n
    BY <1>2
  <2> QED
    BY <1>9, <2>1, FrontIs
<1>12. /\ f \in S /\ f.items = Append(e.items, item) /\ f.count = e.count
       /\ e.items \in Seq(J) /\ l.items \in Seq(J) /\ l.count \in Nat /\ e.count \in Nat
  <2> HIDE DEF e, l, item, J
  <2>1. Append(e.items, item) \in Seq(J)
    BY <1>9, <1>10
  <2> QED
    BY <1>10, <2>1
<1>13. \A k \in 1 .. n : opened'[k] = IF k = n THEN f ELSE opened[k]
  <2> DEFINE outer == Front(opened)
  <2>1. outer[n] = e
    BY <1>2, <1>11
  <2>2. opened' = [outer EXCEPT ![n] = f]
    BY <1>1, <1>2, <1>11, <2>1 DEF Top
  <2> HIDE DEF outer, f, S, n
  <2>3. outer \in Seq(S) /\ Len(outer) = n /\ \A k \in 1 .. n : outer[k] = opened[k]
    BY <1>11 DEF outer
  <2> QED
    BY <1>2, <1>12, <2>2, <2>3, ExceptSeq
<1>14. Len(listStack') = n - 1 /\ \A k \in 1 .. (n - 1) : listStack'[k] = listStack[k]
  <2>1. listStack' = Front(listStack) /\ Len(listStack) > 0
    BY <1>1, <1>2
  <2> HIDE DEF R
  <2> QED
    BY <1>2, <2>1, FrontIs
\* The list that is complete.
<1>15. Reads(c, l.items)
  <2>1. Part(out, st, n + 1) = c
    <3>1. n + 1 # 1 /\ (n + 1) - 1 = n
      BY <1>2
    <3>2. Begin(st, n + 1) = at
      BY <3>1 DEF Begin, at
    <3>3. End(out, st, n + 1) = Len(out)
      BY DEF End
    <3> QED
      BY <1>4, <3>2, <3>3 DEF Part
  <2> QED
    BY <1>10, <2>1 DEF SInv, PartsRead
<1>16. l.count = Len(l.items)
  <2>1. l.count + noting = Len(l.items) + noting
    BY <1>1, <1>2 DEF SInv, PartsCounted
  <2>2. Len(l.items) \in Nat /\ noting \in Nat
    BY <1>12 DEF StreamTypes
  <2> DEFINE x == Len(l.items)
             y == l.count
  <2>3. x \in Nat /\ y \in Nat /\ noting \in Nat /\ y + noting = x + noting
    BY <1>12, <2>1, <2>2
  <2> HIDE DEF x, y
  <2>4. y = x
    BY <2>3
  <2> QED
    BY <2>4 DEF x, y
<1>17. Reads(b, <<item>>)
  <2>1. Whole(b) /\ Items(b) = ListItem(Len(l.items), l.items)
    <3> HIDE DEF c, l, J
    <3> QED
      BY <1>4, <1>5, <1>12, <1>15, ListReads
  <2>2. Items(b) = item
    BY <1>16, <2>1
  <2> HIDE DEF b, item
  <2>3. Reads(b, <<Items(b)>>)
    BY <1>6, <2>1, ReadsOne
  <2> QED
    BY <2>2, <2>3
<1> HIDE DEF p, b, c, h, R, S, e, f, l, item, J, n
<1>18. Ordered(listStack')
  <2>1. \A k \in 1 .. (n - 1) : k \in 1 .. n
    BY <1>2
  <2> QED
    BY <1>2, <1>14, <2>1 DEF Ordered, n
<1>19. ASSUME NEW k \in 1 .. n PROVE Begin(listStack', k) = Begin(st, k)
  <2>1. k # 1 => k - 1 \in 1 .. (n - 1)
    BY <1>2
  <2> QED
    BY <1>14, <2>1 DEF Begin
<1>20. ASSUME NEW k \in 1 .. n PROVE Reads(Part(out', listStack', k), opened'[k].items)
  <2> DEFINE m == Begin(st, k)
             z == End(out, st, k)
  <2>1. /\ k \in 1 .. (n + 1) /\ k <= n /\ k # n + 1
    BY <1>2
  <2>2. Reads(Part(out, st, k), opened[k].items)
    BY <2>1 DEF SInv, PartsRead, n
  <2>3. /\ m \in Nat /\ z \in Nat /\ m <= z /\ z - m \in Nat
        /\ Part(out, st, k) \in Seq(Bytes) /\ z = st[k].at
    BY <1>2, <2>1, PartBounds DEF n
  <2>4. z <= at
    BY <1>2, <2>1, <2>3 DEF Ordered, at, n
  <2> HIDE DEF m, z
  <2>5. m + (z - m) <= Len(p)
    BY <1>3, <1>4, <2>3, <2>4
  <2>6. Part(out, st, k) = Crop(p, m, z - m)
    <3>1. Crop(p \o c, m, z - m) = Crop(p, m, z - m)
      BY <1>4, <2>3, <2>5, CropOfMore
    <3> QED
      BY <1>4, <3>1 DEF Part, m, z
  <2>7. CASE k # n
    <3>1. k \in 1 .. (n - 1) /\ k # (n - 1) + 1
      BY <1>2, <2>7
    <3>2. End(out', listStack', k) = z
      <4>1. Len(listStack') + 1 # k
        BY <1>2, <1>14, <3>1
      <4>2. listStack'[k].at = z
        BY <1>14, <2>3, <3>1, Zenon
      <4> QED
        BY <4>1, <4>2, Zenon DEF End
    <3>3. Crop(p \o b, m, z - m) = Crop(p, m, z - m)
      <4>1. p \in Seq(Bytes) /\ b \in Seq(Bytes) /\ m \in Nat /\ z - m \in Nat
        BY <1>4, <1>6, <2>3
      <4> QED
        BY <2>5, <4>1, CropOfMore
    <3>4. Part(out', listStack', k) = Part(out, st, k)
      BY <1>7, <1>19, <2>6, <3>2, <3>3 DEF Part, m
    <3>5. opened'[k] = opened[k]
      BY <1>13, <2>7
    <3> QED
      BY <2>2, <3>4, <3>5
  <2>8. CASE k = n
    <3>1. k = (n - 1) + 1 /\ z = at
      BY <1>2, <2>3, <2>8 DEF at, n
    <3>2. End(out', listStack', k) = Len(p \o b)
      BY <1>7, <1>14, <3>1 DEF End
    <3>3. m \in 0 .. Len(p)
      BY <1>3, <1>4, <2>3, <3>1
    <3>4. Crop(p \o b, m, Len(p \o b) - m) = Crop(p, m, Len(p) - m) \o b
      BY <1>4, <1>6, <3>3, CropAndMore
    <3>5. Part(out', listStack', k) = Part(out, st, k) \o b
      BY <1>4, <1>7, <1>19, <2>6, <3>1, <3>2, <3>4 DEF Part, m
    <3>6. opened'[k].items = e.items \o <<item>> /\ opened[k] = e
      <4>1. Append(e.items, item) = e.items \o <<item>>
        BY <1>9, <1>12, AppendIsConcat
      <4> QED
        BY <1>12, <1>13, <2>8, <4>1 DEF e
    <3>7. <<item>> \in Seq(J)
      BY <1>9
    <3>8. Reads(Part(out, st, k) \o b, e.items \o <<item>>)
      BY <1>6, <1>12, <1>17, <2>2, <2>3, <3>6, <3>7, ReadsBoth
    <3> QED
      BY <3>5, <3>6, <3>8
  <2> QED
    BY <2>7, <2>8
<1>21. ASSUME NEW k \in 1 .. (n - 1)
       PROVE  opened'[k + 1].count + (IF k = n - 1 THEN 1 ELSE 0) = Len(opened'[k + 1].items) + listStack'[k].left
  <2>1. k \in 1 .. n /\ k # n /\ k + 1 \in 1 .. n /\ (k + 1 = n <=> k = n - 1)
    BY <1>2
  <2>2. opened[k + 1].count + 0 = Len(opened[k + 1].items) + st[k].left
    BY <2>1 DEF SInv, PartsCounted, n
  <2>3. listStack'[k] = st[k]
    BY <1>14
  <2>4. CASE k # n - 1
    BY <1>13, <2>1, <2>2, <2>3, <2>4
  <2>5. CASE k = n - 1
    <3>1. opened'[k + 1] = f /\ opened[k + 1] = e
      BY <1>13, <2>1, <2>5 DEF e
    <3>2. Len(f.items) = Len(e.items) + 1 /\ Len(e.items) \in Nat
      <4>1. Len(Append(e.items, item)) = Len(e.items) + 1
        BY <1>9, <1>12, AppendProperties
      <4> QED
        BY <1>12, <4>1
    <3>3. st[k].left \in Nat
      <4>1. st[k] \in R
        BY <1>2, <2>1, ElementOfSeq DEF n
      <4> QED
        BY <4>1 DEF R
    <3> DEFINE x == e.count
               y == Len(e.items)
               w == st[k].left
    <3>4. x \in Nat /\ y \in Nat /\ w \in Nat /\ x + 0 = y + w
      BY <1>12, <2>2, <3>1, <3>2, <3>3
    <3> HIDE DEF x, y, w
    <3>5. x + 1 = (y + 1) + w
      BY <3>4
    <3> QED
      BY <1>12, <2>3, <2>5, <3>1, <3>2, <3>5 DEF x, y, w
  <2> QED
    BY <2>4, <2>5
<1>22. PartsRead(out', listStack', opened')
  <2>1. (n - 1) + 1 = n
    BY <1>2
  <2> QED
    BY <1>14, <1>20, <2>1 DEF PartsRead
<1>23. PartsCounted(listStack', opened', noting')
  BY <1>1, <1>14, <1>21 DEF PartsCounted
<1> QED
  BY <1>1, <1>18, <1>22, <1>23 DEF SInv

\* A stream in which nothing was written.
LEMMA EmptyReads ==
    ASSUME NEW m
    PROVE  LET op == <<Announced(0)>>
           IN  Ordered(<<>>) /\ PartsRead(<<>>, <<>>, op) /\ PartsCounted(<<>>, op, m)
<1>1. Len(<<>>) = 0 /\ <<>> \in Seq(Bytes)
  OBVIOUS
<1>2. Part(<<>>, <<>>, 1) = <<>>
  <2>1. Begin(<<>>, 1) = 0 /\ End(<<>>, <<>>, 1) = 0
    BY <1>1 DEF Begin, End
  <2>2. Crop(<<>>, 0, 0) \in Seq(Bytes) /\ Len(Crop(<<>>, 0, 0)) = 0
    <3>1. 0 \in Nat /\ 0 + 0 <= Len(<<>>)
      BY <1>1
    <3> QED
      BY <1>1, <3>1, Cropped
  <2>3. Part(<<>>, <<>>, 1) = Crop(<<>>, 0, 0)
    BY <2>1 DEF Part
  <2> QED
    BY <2>2, <2>3
<1> DEFINE op == <<Announced(0)>>
<1>3. op[1].items = <<>>
  BY DEF Announced
<1> HIDE DEF op
<1>4. PartsRead(<<>>, <<>>, op)
  <2>1. \A k \in 1 .. (0 + 1) : k = 1
    OBVIOUS
  <2> QED
    BY <1>1, <1>2, <1>3, <2>1, ReadsNothing DEF PartsRead
<1>5. Ordered(<<>>) /\ PartsCounted(<<>>, op, m)
  <2>1. \A k \in 1 .. 0 : FALSE
    OBVIOUS
  <2> QED
    BY <1>1, <2>1 DEF Ordered, PartsCounted
<1> QED
  BY <1>4, <1>5 DEF op

\* What is taken from a stream, or what was taken before, stays beside an empty stream.
LEMMA EmptiedReads == ASSUME Emptied, Reads(made'.bytes, made'.items) PROVE SInv'
BY EmptyReads DEF Emptied, SInv

LEMMA StreamStartsRead == StreamInit => SInv
<1>1. Reads(Nothing.bytes, Nothing.items)
  BY ReadsNothing DEF Nothing
<1> QED
  BY <1>1, EmptyReads DEF StreamInit, StreamEmpty, SInv

\* With no list open, all there is reads as the items of the stream.
LEMMA FinishedReads ==
    ASSUME StreamTypes, SInv, listStack = <<>>
    PROVE  Reads(out, opened[1].items)
<1>1. Len(listStack) = 0 /\ out \in Seq(Bytes) /\ Len(out) \in Nat
  BY DEF StreamTypes
<1>2. Part(out, listStack, 1) = Crop(out, 0, Len(out) - 0)
  BY <1>1 DEF Part, Begin, End
<1>3. Crop(out, 0, Len(out) - 0) = out
  <2>1. 0 \in 0 .. Len(out)
    BY <1>1
  <2> QED
    BY <1>1, <2>1, CropToEnd, WholeFrom
<1>4. 1 \in 1 .. (0 + 1)
  OBVIOUS
<1> QED
  BY <1>1, <1>2, <1>3, <1>4 DEF SInv, PartsRead

LEMMA StreamKeepsReads == ASSUME StreamTypes, SInv, StreamNext PROVE SInv'
<1>1. ASSUME NEW s \in Strings, Append_(s) \/ AppendCompact(s) PROVE SInv'
  <2>1. s \in Seq(Bytes) /\ Compact(s) \in Seq(Bytes)
    BY StreamAssumption, CompactIs
  <2> QED
    BY <1>1, <2>1, WriteString DEF Append_, AppendCompact
<1>2. ASSUME NEW n \in Numbers, AppendNumber(n) PROVE SInv'
  <2>1. n \in Nat
    BY StreamAssumption
  <2>2. BigEndian(n) \in Seq(Bytes) /\ IntBytes(n) = StringBytes(BigEndian(n))
    BY <2>1, BigEndianType, IntIsString
  <2>3. Write(StringBytes(BigEndian(n)), <<StringItem(BigEndian(n))>>)
    BY <1>2, <2>2 DEF AppendNumber
  <2> QED
    BY <2>2, <2>3, WriteString
<1>3. ASSUME NEW n \in ListSizes, AppendList(n) PROVE SInv'
  BY <1>3, StreamAssumption, AppendListReads
<1>4. PICK I : made \in [bytes : Seq(Bytes), items : Seq(I)]
  BY DEF StreamTypes, Kept
<1>5. made.bytes \in Seq(Bytes) /\ made.items \in Seq(I) /\ Reads(made.bytes, made.items)
  BY <1>4 DEF SInv
<1>6. CASE AppendRaw
  BY <1>5, <1>6, WriteReads DEF AppendRaw
<1>7. CASE AppendListBytes
  BY <1>5, <1>7, WriteList DEF AppendListBytes
<1>8. CASE NoteEnds
  <2>1. out' = out /\ listStack' = <<>> /\ listStack = <<>> /\ opened' = opened /\ made' = made
    BY <1>8 DEF NoteEnds
  <2>2. \A k \in 1 .. Len(<<>>) : FALSE
    OBVIOUS
  <2>3. PartsCounted(listStack', opened', noting')
    BY <2>1, <2>2 DEF PartsCounted
  <2> QED
    BY <2>1, <2>3 DEF SInv
<1>9. CASE Clear
  <2>1. Emptied /\ made' = made
    BY <1>9 DEF Clear
  <2> QED
    BY <1>5, <2>1, EmptiedReads
<1>10. CASE SwapOut
  <2>1. Emptied /\ listStack = <<>> /\ made' = [bytes |-> out, items |-> opened[1].items]
    BY <1>10 DEF SwapOut, Finished
  <2>2. made'.bytes = out /\ made'.items = opened[1].items
    BY <2>1
  <2> QED
    BY <2>1, <2>2, FinishedReads, EmptiedReads
<1> QED
  BY <1>1, <1>2, <1>3, <1>6, <1>7, <1>8, <1>9, <1>10,
     NoteRefusedReads, NoteCountedReads, NoteCompletedReads DEF StreamNext

LEMMA StreamReads == Spec => []SInv
<1>1. Init => SInv
  BY StreamStartsRead DEF Init
<1>2. StreamTypes /\ SInv /\ [Next]_vars => SInv'
  <2> SUFFICES ASSUME StreamTypes, SInv, [Next]_vars PROVE SInv'
    OBVIOUS
  <2>1. ASSUME UNCHANGED streamVars PROVE SInv'
    BY <2>1 DEF streamVars, SInv
  <2>2. CASE Written
    BY <2>2, StreamKeepsReads DEF Written
  <2>3. CASE ReadMade
    <3>1. /\ out' = out /\ listStack' = listStack /\ opened' = opened /\ noting' = noting
          /\ made' = Nothing
      BY <2>3 DEF ReadMade
    <3>2. made'.bytes = <<>> /\ made'.items = <<>>
      BY <3>1 DEF Nothing
    <3> QED
      BY <3>1, <3>2, ReadsNothing DEF SInv
  <2>4. CASE Read
    BY <2>1, <2>4 DEF Read
  <2>5. CASE UNCHANGED vars
    BY <2>1, <2>5 DEF vars
  <2> QED
    BY <2>2, <2>3, <2>4, <2>5 DEF Next
<1> QED
  BY <1>1, <1>2, Invariant, PTL DEF Spec

\* What a stream holds when no list is open reads back as the items it was given, whatever was
\* appended in which order: headers that are put in front of contents afterwards move nothing
\* that a list still open counts on, and items refused stay in the list that refused them.
THEOREM ReadsBackAlways == Spec => []ReadsBack
<1>1. StreamTypes /\ SInv => ReadsBack
  <2> SUFFICES ASSUME StreamTypes, SInv, Finished PROVE ReadsBack
    BY DEF ReadsBack
  <2>1. Reads(out, opened[1].items)
    BY FinishedReads DEF Finished
  <2> QED
    BY <2>1 DEF ReadsBack, Reads
<1> QED
  BY <1>1, Invariant, StreamReads, PTL
=============================================================================
