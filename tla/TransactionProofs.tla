------------------------- MODULE TransactionProofs -------------------------
(***************************************************************************)
(* Proofs about Transaction for any keys, chain ids, widths and foreign    *)
(* encodings: what is sent says who signed it, and decoding shows that.    *)
(***************************************************************************)
EXTENDS Transaction, TLAPS

\* A remainder is below its modulus.
LEMMA ModRange ==
    ASSUME NEW m \in Nat \ {0}, NEW x \in Int PROVE x % m \in 0..(m - 1)
  BY SMT

\* A number below the modulus is its own remainder.
LEMMA ModSmall ==
    ASSUME NEW m \in Nat \ {0}, NEW x \in 0..(m - 1) PROVE x % m = x
  BY SMT

\* A provider's chain id is a number.
LEMMA ChainTyped == \A c \in ChainIds : c \in Nat /\ c # None
  <1> SUFFICES ASSUME NEW c \in ChainIds PROVE c \in Nat /\ c # None
    OBVIOUS
  <1>1. c \in 0..(LongLimit - 1)
    BY Widths
  <1>2. c \in Nat
    BY <1>1, Widths
  <1>3. c \in Int
    BY <1>2
  <1> QED BY <1>2, <1>3, Widths, Zenon

\* What is signed has the shape of a point's content.
LEMMA UnsignedType ==
    ASSUME NEW t \in Transactions
    PROVE Unsigned(t) \in [fields: {6, 9}, creation: BOOLEAN, nonce: Nonces, body: Bodies,
                           v: (0..(LongLimit - 1)) \union {None}, point: {Zero, None}]
  BY DEF Transactions, Unsigned, IsReplayProtected

\* Signing with a valid key replaces the signature and nothing else; with an invalid one it
\* changes nothing.
LEMMA SignedIs ==
    ASSUME NEW t \in Transactions, NEW key \in Secrets, NEW bit \in Bits
    PROVE /\ Signed(t, key, bit) \in Transactions
          /\ key = BadKey => Signed(t, key, bit) = t
          /\ key \in Keys =>
                Signed(t, key, bit) =
                    [t EXCEPT !.vrs = [point |-> [by |-> key, of |-> Unsigned(t), bit |-> bit],
                                       v |-> bit]]
  <1> DEFINE point == [by |-> key, of |-> Unsigned(t), bit |-> bit]
  <1>1. CASE key = BadKey
    <2>1. ~IsValid(SignHash(key, Unsigned(t), bit))
      BY <1>1 DEF SignHash, IsValid, ZeroSig
    <2> QED BY <2>1, <1>1, Sentinels DEF Signed, WithSig
  <1>2. CASE key \in Keys
    <2>1. point \in Points
      BY <1>2, UnsignedType DEF Points, Bits
    <2>2. key # BadKey
      BY <1>2, Sentinels
    <2>3. SignHash(key, Unsigned(t), bit) = [point |-> point, v |-> bit]
      BY <2>2 DEF SignHash
    <2>4. point # Zero /\ point # Bad
      BY <2>1, Sentinels
    <2>5. IsValid([point |-> point, v |-> bit])
      BY <2>4 DEF IsValid, Bits
    <2>6. Signed(t, key, bit) = [t EXCEPT !.vrs = [point |-> point, v |-> bit]]
      BY <2>3, <2>5 DEF Signed, WithSig
    <2>7. [point |-> point, v |-> bit] \in [point: Points \union {Zero, Bad}, v: Bits]
      BY <2>1
    <2>8. [t EXCEPT !.vrs = [point |-> point, v |-> bit]] \in Transactions
      BY <2>7 DEF Transactions
    <2> QED BY <2>2, <2>6, <2>8
  <1> QED BY <1>1, <1>2 DEF Secrets

\* The signature takes no part in what is signed.
LEMMA UnsignedIgnoresSig ==
    ASSUME NEW t \in Transactions, NEW s
    PROVE Unsigned([t EXCEPT !.vrs = s]) = Unsigned(t)
  BY DEF Transactions, Unsigned, IsReplayProtected

\* An object just signed recovers to the key that signed it.
LEMMA SignedFits ==
    ASSUME NEW t \in Transactions, NEW key \in Keys, NEW bit \in Bits
    PROVE LET u == Signed(t, key, bit) IN
          /\ u.vrs # None /\ u.vrs.point # Zero
          /\ Unsigned(u) = Unsigned(t)
          /\ Recover(u.vrs, Unsigned(u)) = {key}
  <1> DEFINE point == [by |-> key, of |-> Unsigned(t), bit |-> bit]
             sig == [point |-> point, v |-> bit]
  <1>1. Signed(t, key, bit) = [t EXCEPT !.vrs = sig]
    BY SignedIs DEF Secrets
  <1>2. Signed(t, key, bit).vrs = sig /\ Signed(t, key, bit) \in Transactions
    BY <1>1, SignedIs DEF Secrets, Transactions
  <1>3. point \in Points
    BY UnsignedType DEF Points, Bits
  <1>4. point # Zero /\ point # Bad
    BY <1>3, Sentinels
  <1>5. sig \in [point: Points \union {Zero, Bad}, v: Bits]
    BY <1>3
  <1>6. Unsigned(Signed(t, key, bit)) = Unsigned(t)
    BY <1>1, UnsignedIgnoresSig
  <1>7. Recover(sig, Unsigned(t)) = {key}
    BY <1>4 DEF Recover
  <1>8. sig # None
    BY <1>5, Sentinels DEF Bits
  <1> QED BY <1>2, <1>4, <1>6, <1>7, <1>8

\* Streaming an object gives an encoding with a v and a point in it.
LEMMA EncodeType ==
    ASSUME NEW t \in Transactions, t.vrs # None, EncodeDefined(t)
    PROVE Encode(t) \in Encodings /\ Encode(t).v # None /\ Encode(t).point # None
  <1>1. t.vrs \in [point: Points \union {Zero, Bad}, v: Bits]
    BY DEF Transactions
  <1>2. VOffset(t) \in Int
    <2>1. CASE t.chain = None
      BY <2>1 DEF VOffset, IsReplayProtected
    <2>2. CASE t.chain # None
      <3>1. t.chain \in Nat
        BY <2>2, Widths DEF Transactions
      <3>2. LongLimit \in Nat \ {0} /\ IntMax \in Nat /\ 2 * IntMax \in Nat \ {0}
        BY Widths
      <3>3. (t.chain * 2 + 35) % LongLimit \in Nat
        BY <3>1, <3>2, ModRange
      <3>4. ((t.chain * 2 + 35) % LongLimit) + IntMax \in Int
        BY <3>2, <3>3
      <3>5. (((t.chain * 2 + 35) % LongLimit) + IntMax) % (2 * IntMax) \in Int
        BY <3>2, <3>4, ModRange
      <3> QED BY <2>2, <3>2, <3>5 DEF VOffset, IsReplayProtected
    <2> QED BY <2>1, <2>2
  <1>3. RawV(t) \in 0..(WordLimit - 1)
    <2>1. t.vrs.v + VOffset(t) \in Int /\ WordLimit \in Nat \ {0}
      BY <1>1, <1>2, Widths DEF Bits
    <2> QED BY <2>1, ModRange DEF RawV
  <1>4. HasZeroSignature(t) => t.chain \in 0..(WordLimit - 1)
    BY Widths DEF EncodeDefined, IsReplayProtected, Transactions
  <1>5. Encode(t).v \in 0..(WordLimit - 1)
    BY <1>3, <1>4 DEF Encode
  <1>6. Encode(t).point \in Points \union {Zero, Bad}
    BY <1>1 DEF Encode
  <1>7. Encode(t) \in Encodings
    BY <1>5, <1>6 DEF Encode, Encodings, Transactions
  <1> QED BY <1>5, <1>6, <1>7, Widths, Sentinels

\* An accepted encoding becomes an object.
LEMMA DecodedType ==
    ASSUME NEW e \in Encodings, WellFormed(e), e.v # None, e.point # None
    PROVE /\ Decoded(e) \in Transactions
          /\ Decoded(e).vrs # None
  <1>1. e.v \in 0..(WordLimit - 1) /\ e.point \in Points \union {Zero, Bad}
    BY DEF Encodings
  <1>2. ChainOf(e) \in (0..(LongLimit - 1)) \union {None}
    <2>1. CASE e.point = Zero
      <3>1. LongLimit \in Nat \ {0} /\ e.v \in Int
        BY <1>1, Widths
      <3>2. e.v % LongLimit \in 0..(LongLimit - 1)
        BY <3>1, ModRange
      <3> QED BY <2>1, <3>2 DEF ChainOf
    <2>2. CASE e.point # Zero /\ e.v > 36
      BY <1>1, <2>2, Widths DEF ChainOf, WellFormed
    <2>3. CASE e.point # Zero /\ ~(e.v > 36)
      BY <2>3 DEF ChainOf
    <2> QED BY <2>1, <2>2, <2>3
  <1>3. Decoded(e).vrs.v \in Bits
    <2>1. CASE e.point = Zero
      BY <2>1 DEF Decoded, Bits
    <2>2. CASE e.point # Zero /\ e.v > 36
      <3>1. ChainOf(e) = (e.v - 35) \div 2
        BY <2>2 DEF ChainOf
      <3>2. (e.v - (((e.v - 35) \div 2) * 2 + 35)) % 256 \in {0, 1}
        BY <1>1, <2>2, Widths, SMT
      <3> QED BY <2>2, <3>1, <3>2 DEF Decoded, Bits
    <2>3. CASE e.point # Zero /\ ~(e.v > 36)
      BY <1>1, <2>3, Widths DEF Decoded, Bits, WellFormed
    <2> QED BY <2>1, <2>2, <2>3
  <1>4. Decoded(e).vrs \in [point: Points \union {Zero, Bad}, v: Bits]
    BY <1>1, <1>3 DEF Decoded
  <1>5. Decoded(e).vrs # None
    BY <1>4, Sentinels DEF Bits
  <1>6. Decoded(e) \in Transactions
    BY <1>2, <1>4 DEF Decoded, Transactions, Encodings
  <1> QED BY <1>5, <1>6

\* Whatever sender() answers is an address, or it throws.
LEMMA SendersType ==
    ASSUME NEW t \in Transactions PROVE Senders(t) \subseteq Addresses \union {None}
  <1>1. CASE t.vrs = None
    BY <1>1 DEF Senders, Transactions, Addresses, HasZeroSignature
  <1>2. CASE t.vrs # None
    <2>1. t.vrs.point \in Points \union {Zero, Bad}
      BY <1>2 DEF Transactions
    <2>2. t.vrs.point \in Points => t.vrs.point.by \in Keys
      BY DEF Points
    <2> QED BY <1>2, <2>1, <2>2 DEF Senders, Transactions, Addresses, HasZeroSignature, Recover
  <1> QED BY <1>1, <1>2

\* What is known of a string the library made: some object it came from.
Genuine(enc, by, content) ==
    \E t \in Transactions :
        /\ t.vrs # None /\ EncodeDefined(t)
        /\ enc = Encode(t) /\ content = Unsigned(t)
        /\ IF by \in Keys THEN t.vrs.point # Zero /\ Recover(t.vrs, content) = {by}
           ELSE t.vrs.point = Zero

\* v of a chain id that fits is v.
LEMMA RawVFits ==
    ASSUME NEW t \in Transactions, t.vrs # None, ChainFits(t.chain)
    PROVE RawV(t) = t.vrs.v + (IF t.chain = None THEN 27 ELSE 2 * t.chain + 35)
  <1>1. t.vrs.v \in Bits
    BY DEF Transactions
  <1>2. VOffset(t) = IF t.chain = None THEN 27 ELSE 2 * t.chain + 35
    <2>1. CASE t.chain = None
      BY <2>1 DEF VOffset, IsReplayProtected
    <2>2. CASE t.chain # None
      <3>1. t.chain \in Nat /\ 2 * t.chain + 36 < IntMax
        BY <2>2, Widths DEF Transactions, ChainFits
      <3>0. PICK x \in Nat : x = t.chain * 2 + 35
        BY <3>1
      <3>2. LongLimit \in Nat \ {0} /\ x \in 0..(LongLimit - 1)
        BY <3>0, <3>1, Widths
      <3>3. x % LongLimit = x
        BY <3>2, ModSmall
      <3>4. 2 * IntMax \in Nat \ {0} /\ x + IntMax \in 0..(2 * IntMax - 1)
        BY <3>0, <3>1, Widths
      <3>5. (x + IntMax) % (2 * IntMax) = x + IntMax
        BY <3>4, ModSmall
      <3>6. VOffset(t) = (x + IntMax) - IntMax
        <4>1. VOffset(t) = (((x % LongLimit) + IntMax) % (2 * IntMax)) - IntMax
          BY <2>2, <3>0, Zenon DEF VOffset, IsReplayProtected
        <4>2. ((x % LongLimit) + IntMax) % (2 * IntMax) = (x + IntMax) % (2 * IntMax)
          BY <3>3, Zenon
        <4>3. ((x % LongLimit) + IntMax) % (2 * IntMax) = x + IntMax
          BY <3>5, <4>2, Zenon
        <4> QED BY <4>1, <4>3, Zenon
      <3>7. (x + IntMax) - IntMax = 2 * t.chain + 35
        BY <3>0, <3>1, Widths
      <3>8. VOffset(t) = 2 * t.chain + 35
        BY <3>6, <3>7, Zenon
      <3> QED BY <2>2, <3>8, Zenon
    <2> QED BY <2>1, <2>2
  <1>3. WordLimit \in Nat \ {0} /\ t.vrs.v + VOffset(t) \in 0..(WordLimit - 1)
    BY <1>1, <1>2, Widths DEF ChainFits, Bits, Transactions
  <1> QED BY <1>2, <1>3, ModSmall DEF RawV

\* Decoding what was streamed gives the object back, up to its caches.
LEMMA RoundTrip ==
    ASSUME NEW t \in Transactions, t.vrs # None, EncodeDefined(t), ChainFits(t.chain)
    PROVE LET e == Encode(t) d == Decoded(e) IN
          /\ WellFormed(e)
          /\ Unsigned(d) = Unsigned(t)
          /\ Encode(d) = e
          /\ d.vrs.point = t.vrs.point
          /\ t.vrs.point # Zero => d.vrs = t.vrs
  <1> DEFINE e == Encode(t)
             d == Decoded(e)
  <1>1. t.vrs \in [point: Points \union {Zero, Bad}, v: Bits]
    BY DEF Transactions
  <1>2. e.fields = 9 /\ e.creation = t.creation /\ e.nonce = t.nonce /\ e.body = t.body
        /\ e.point = t.vrs.point
    BY DEF Encode
  <1>3. CASE t.vrs.point = Zero
    <2>1. e.v = t.chain /\ t.chain # None /\ t.chain \in 0..(LongLimit - 1)
      BY <1>3 DEF Encode, HasZeroSignature, EncodeDefined, IsReplayProtected, Transactions
    <2>2. LongLimit \in Nat \ {0}
      BY Widths
    <2>3. ChainOf(e) = t.chain
      BY <1>2, <1>3, <2>1, <2>2, ModSmall DEF ChainOf
    <2>4. /\ d.creation = t.creation /\ d.nonce = t.nonce /\ d.body = t.body
          /\ d.chain = t.chain /\ d.vrs = [point |-> Zero, v |-> 0]
      BY <1>2, <1>3, <2>3 DEF Decoded
    <2>5. WellFormed(e)
      BY <1>2, <1>3 DEF WellFormed
    <2>6. Unsigned(d) = Unsigned(t)
      BY <2>4 DEF Unsigned, IsReplayProtected
    <2>7. d.vrs # None
      <3>1. d.vrs \in [point: Points \union {Zero, Bad}, v: {0, 1}]
        BY <2>4
      <3> QED BY <3>1, Sentinels
    <2>8. Encode(d) = Encode(t)
      BY <1>3, <2>4, <2>7 DEF Encode, HasZeroSignature
    <2> QED BY <1>3, <2>4, <2>5, <2>6, <2>8
  <1>4. CASE t.vrs.point # Zero
    <2> DEFINE off == IF t.chain = None THEN 27 ELSE 2 * t.chain + 35
    <2>1. e.v = t.vrs.v + off /\ t.vrs.v \in {0, 1}
      BY <1>1, <1>4, RawVFits DEF Encode, HasZeroSignature, Bits
    <2>2. ASSUME t.chain = None PROVE WellFormed(e) /\ d.chain = t.chain /\ d.vrs = t.vrs
      <3>1. e.v \in {27, 28} /\ e.v - 27 = t.vrs.v
        BY <2>1, <2>2
      <3>2. ChainOf(e) = None /\ ~(e.v > 36)
        BY <1>2, <1>4, <3>1 DEF ChainOf
      <3>3. WellFormed(e) /\ d.chain = None /\ d.vrs = [point |-> t.vrs.point, v |-> t.vrs.v]
        BY <1>2, <1>4, <3>1, <3>2 DEF WellFormed, Decoded
      <3> QED BY <1>1, <2>2, <3>3
    <2>3. ASSUME t.chain # None PROVE WellFormed(e) /\ d.chain = t.chain /\ d.vrs = t.vrs
      <3>1. t.chain \in 1..(LongLimit - 1)
        BY <2>3, Widths DEF ChainFits, Transactions
      <3>2. e.v > 36 /\ e.v = t.vrs.v + 2 * t.chain + 35
        BY <2>1, <2>3, <3>1, Widths
      <3>3. (e.v - 35) \div 2 = t.chain /\ (e.v - (t.chain * 2 + 35)) % 256 = t.vrs.v
        BY <2>1, <3>1, <3>2, Widths, SMT
      <3>4. ChainOf(e) = t.chain
        BY <1>2, <1>4, <3>2, <3>3 DEF ChainOf
      <3>5. WellFormed(e) /\ d.chain = t.chain /\ d.vrs = [point |-> t.vrs.point, v |-> t.vrs.v]
        BY <1>2, <1>4, <3>1, <3>2, <3>3, <3>4, Widths DEF WellFormed, Decoded
      <3> QED BY <1>1, <3>5
    <2>4. WellFormed(e) /\ d.chain = t.chain /\ d.vrs = t.vrs
      BY <2>2, <2>3
    <2>5. d.creation = t.creation /\ d.nonce = t.nonce /\ d.body = t.body
      BY <1>2 DEF Decoded
    <2>6. Unsigned(d) = Unsigned(t) /\ Encode(d) = Encode(t)
      BY <2>4, <2>5 DEF Unsigned, Encode, IsReplayProtected, HasZeroSignature, RawV, VOffset
    <2> QED BY <2>4, <2>6
  <1> QED BY <1>3, <1>4

----------------------------------------------------------------------------
\* A string that was returned has an encoding to decode.
OutTyped ==
    out.kind = "raw" =>
        /\ out.enc \in Encodings /\ out.enc.v # None /\ out.enc.point # None
        /\ out.by \in Keys \union {None, Stranger}

TypeInv == TypeOK /\ OutTyped

\* Every encoding that is decoded, and that has the fields of a transaction, has a v and a
\* point.
LEMMA InputsTyped ==
    ASSUME OutTyped, NEW in \in Inputs
    PROVE /\ in.enc \in Encodings /\ in.by \in Keys \union {None, Stranger}
          /\ WellFormed(in.enc) => in.enc.v # None /\ in.enc.point # None
  <1>1. CASE in \in [enc: Foreign, by: {Stranger}, content: {None}]
    <2>1. in.enc \in Foreign /\ in.by = Stranger
      BY <1>1
    <2> QED BY <2>1, ForeignAssumption DEF WellFormed
  <1>2. CASE in \notin [enc: Foreign, by: {Stranger}, content: {None}]
    <2>1. out.kind = "raw" /\ in.enc = out.enc /\ in.by = out.by
      BY <1>2 DEF Inputs
    <2> QED BY <2>1 DEF OutTyped
  <1> QED BY <1>1, <1>2

\* Objects made from a skeleton or from plain fields.
LEMMA FreshTyped ==
    /\ \A ts \in Skeletons : FromSkeleton(ts) \in Transactions
    /\ \A creation \in BOOLEAN, n \in Nonces, b \in Bodies :
        [creation |-> creation, nonce |-> n, body |-> b, chain |-> None,
         vrs |-> None, hashWith |-> None, sender |-> None] \in Transactions
  BY Widths DEF Skeletons, FromSkeleton, Transactions, Addresses

\* setNonce leaves a zero signature.
LEMMA WithNonceTyped ==
    ASSUME NEW t \in Transactions, NEW n \in Nonces
    PROVE /\ WithNonce(t, n) \in Transactions
          /\ WithNonce(t, n).vrs = ZeroSig /\ ZeroSig # None
          /\ WithNonce(t, n).chain = t.chain
  <1>1. ZeroSig \in [point: Points \union {Zero, Bad}, v: Bits]
    BY DEF ZeroSig, Bits
  <1>2. ZeroSig # None
    BY <1>1, Sentinels DEF Bits
  <1> QED BY <1>1, <1>2 DEF WithNonce, Transactions

\* A string is an answer of the right type.
LEMMA RawTyped ==
    ASSUME NEW t \in Transactions, t.vrs # None, EncodeDefined(t),
           NEW by \in Keys \union {None, Stranger}, out' = Raw(t, by)
    PROVE OutTyped' /\ out'.kind = "raw"
  <1>1. Encode(t) \in Encodings /\ Encode(t).v # None /\ Encode(t).point # None
    BY EncodeType
  <1>2. out'.enc = Encode(t) /\ out'.by = by /\ out'.kind = "raw"
    BY DEF Raw
  <1> QED BY <1>1, <1>2 DEF OutTyped

\* What the wallet and the ledger make: an object that was signed, or whose signature stayed
\* zero.
LEMMA WalletObject ==
    ASSUME NEW ts \in Skeletons, NEW key \in Secrets, NEW bit \in Bits
    PROVE LET t == Signed(WithNonce(FromSkeleton(ts), ts.nonce), key, bit) IN
          /\ t \in Transactions /\ t.vrs # None /\ EncodeDefined(t)
          /\ IF key \in Keys THEN t.vrs.point # Zero /\ Recover(t.vrs, Unsigned(t)) = {key}
             ELSE t.vrs.point = Zero
  <1> DEFINE u == WithNonce(FromSkeleton(ts), ts.nonce)
             t == Signed(u, key, bit)
  <1>1. u \in Transactions /\ u.vrs = ZeroSig /\ ZeroSig # None /\ u.chain = ts.chain
        /\ ts.chain # None
    <2>1. ts.nonce \in Nonces /\ ts.chain \in ChainIds /\ FromSkeleton(ts).chain = ts.chain
      BY DEF Skeletons, FromSkeleton
    <2>2. FromSkeleton(ts) \in Transactions
      BY FreshTyped
    <2>3. ts.chain # None
      BY <2>1, ChainTyped
    <2>4. u \in Transactions /\ u.vrs = ZeroSig /\ ZeroSig # None /\ u.chain = FromSkeleton(ts).chain
      BY <2>1, <2>2, WithNonceTyped
    <2> QED BY <2>1, <2>3, <2>4
  <1>2. t \in Transactions
    BY <1>1, SignedIs
  <1>3. CASE key \in Keys
    <2>1. t.vrs # None /\ t.vrs.point # Zero /\ Recover(t.vrs, Unsigned(t)) = {key}
      BY <1>1, <1>3, SignedFits
    <2>2. EncodeDefined(t)
      BY <2>1 DEF EncodeDefined, HasZeroSignature
    <2> QED BY <1>2, <1>3, <2>1, <2>2
  <1>4. CASE key = BadKey
    <2>1. t = u
      BY <1>1, <1>4, SignedIs
    <2>2. u.vrs.point = Zero
      BY <1>1 DEF ZeroSig
    <2>3. EncodeDefined(u)
      BY <1>1 DEF EncodeDefined, IsReplayProtected
    <2>4. key \notin Keys
      BY <1>4, Sentinels
    <2> QED BY <1>1, <1>2, <2>1, <2>2, <2>3, <2>4
  <1> QED BY <1>3, <1>4 DEF Secrets

\* The device's v byte has the parity of the recovery bit for every chain id.
LEMMA Parity ==
    ASSUME NEW m, m.v \in Nat, NEW bit \in Bits PROVE DecodeV(DeviceV(m, bit)) = bit
  BY SMT DEF DecodeV, DeviceV, Bits

\* A signature that went through the device's frames is the one that sign would make.
LEMMA LedgerObject ==
    ASSUME NEW ts \in Skeletons, NEW bit \in Bits
    PROVE LET t == FromSkeleton(ts)
              s == SignHash(ts.from, Unsigned(t), bit)
              got == [s EXCEPT !.v = DecodeV(DeviceV(Unsigned(t), bit))]
          IN  got = s /\ WithSig(t, got) = Signed(t, ts.from, bit)
  <1>1. ts.from \in Keys /\ ts.from # BadKey /\ ts.chain \in Nat /\ ts.chain # None
    <2>1. ts.from \in Keys /\ ts.chain \in ChainIds
      BY DEF Skeletons
    <2>2. ts.from # BadKey
      BY <2>1, Sentinels
    <2> QED BY <2>1, <2>2, ChainTyped
  <1>2. Unsigned(FromSkeleton(ts)).v \in Nat
    BY <1>1 DEF Unsigned, FromSkeleton
  <1>3. DecodeV(DeviceV(Unsigned(FromSkeleton(ts)), bit)) = bit
    BY <1>2, Parity
  <1>4. [SignHash(ts.from, Unsigned(FromSkeleton(ts)), bit) EXCEPT !.v = bit]
        = SignHash(ts.from, Unsigned(FromSkeleton(ts)), bit)
    BY <1>1 DEF SignHash
  <1> QED BY <1>3, <1>4 DEF Signed

----------------------------------------------------------------------------
\* The answers other than strings are typed by their kind.
LEMMA TypeStep == ASSUME TypeInv, [Next]_vars PROVE TypeInv'
  <1> USE DEF TypeInv, TypeOK
  <1>n. ASSUME out'.kind \in {"none", "failed", "sender", "hash", "rejected", "report"}
        PROVE /\ OutTyped'
              /\ out'.kind \in {"none", "failed", "sender", "hash", "raw", "rejected", "report"}
    BY <1>n DEF OutTyped
  <1>f. Failed.kind = "failed" /\ Nothing.kind = "none"
    BY DEF Failed, Nothing
  <1>1. ASSUME NEW ts \in Skeletons, NEW bit \in Bits, NEW key \in Secrets \union {None},
               New(ts, key, bit)
        PROVE TypeInv'
    <2>1. FromSkeleton(ts) \in Transactions
      BY FreshTyped
    <2>2. tx' \in Transactions
      BY <1>1, <2>1, SignedIs DEF New
    <2>3. author' \in Keys \union {None} /\ stale' \in BOOLEAN /\ out' = Nothing
      BY <1>1 DEF New
    <2> QED BY <1>n, <1>f, <2>2, <2>3
  <1>2. ASSUME NEW creation \in BOOLEAN, NEW n \in Nonces, NEW b \in Bodies, NEW bit \in Bits,
               NEW key \in Secrets \union {None}, NewPlain(creation, n, b, key, bit)
        PROVE TypeInv'
    <2>1. tx' \in Transactions
      BY <1>2, FreshTyped, SignedIs DEF NewPlain
    <2>2. author' \in Keys \union {None} /\ stale' \in BOOLEAN /\ out' = Nothing
      BY <1>2 DEF NewPlain
    <2> QED BY <1>n, <1>f, <2>1, <2>2
  <1>3. ASSUME NEW ts \in Skeletons, NEW bit \in Bits, NEW key \in Secrets,
               WalletSign(ts, key, bit)
        PROVE TypeInv'
    <2> DEFINE t == Signed(WithNonce(FromSkeleton(ts), ts.nonce), key, bit)
               by == IF key \in Keys THEN key ELSE None
    <2>1. t \in Transactions /\ t.vrs # None /\ EncodeDefined(t)
      BY WalletObject
    <2>2. by \in Keys \union {None, Stranger} /\ out' = Raw(t, by)
      BY <1>3 DEF WalletSign
    <2>3. OutTyped' /\ out'.kind = "raw"
      BY <2>1, <2>2, RawTyped
    <2> QED BY <1>3, <2>3 DEF WalletSign
  <1>4. ASSUME NEW ts \in Skeletons, NEW bit \in Bits, LedgerSign(ts, bit)
        PROVE TypeInv'
    <2> DEFINE t == Signed(FromSkeleton(ts), ts.from, bit)
    <2>1. FromSkeleton(ts) \in Transactions /\ ts.from \in Keys
      BY FreshTyped DEF Skeletons
    <2>2. t \in Transactions /\ t.vrs # None /\ t.vrs.point # Zero
      BY <2>1, SignedIs, SignedFits DEF Secrets
    <2>3. EncodeDefined(t)
      BY <2>2 DEF EncodeDefined, HasZeroSignature
    <2>4. out' = Raw(t, ts.from) \/ out' = Failed
      BY <1>4, LedgerObject DEF LedgerSign
    <2>5. OutTyped' /\ out'.kind \in {"raw", "failed"}
      BY <1>n, <1>f, <2>1, <2>2, <2>3, <2>4, RawTyped
    <2> QED BY <1>4, <2>5 DEF LedgerSign
  <1>5. CASE SignFails
    BY <1>5, <1>n, <1>f DEF SignFails
  <1>6. ASSUME NEW in \in Inputs, DecodeRaw(in) PROVE TypeInv'
    <2>1. out'.kind \in {"rejected", "report"}
      BY <1>6 DEF DecodeRaw
    <2> QED BY <1>6, <1>n, <2>1 DEF DecodeRaw
  <1>7. ASSUME NEW in \in Inputs, NEW check \in Checks, Decode(in, check) PROVE TypeInv'
    <2>1. Passes(in.enc, check) => Decoded(in.enc) \in Transactions /\ AuthorOf(in) \in Keys \union {None, Stranger}
      BY InputsTyped, DecodedType DEF Passes, AuthorOf
    <2>2. ASSUME Passes(in.enc, check), NEW s \in Senders(Decoded(in.enc)), s # None
          PROVE [Decoded(in.enc) EXCEPT !.sender = s] \in Transactions
      BY <2>1, <2>2, SendersType DEF Transactions
    <2>3. tx' \in Transactions \union {None} /\ author' \in Keys \union {None, Stranger}
      BY <1>7, <2>1, <2>2 DEF Decode
    <2>4. out' \in {Failed, Nothing} /\ stale' = FALSE
      BY <1>7 DEF Decode
    <2> QED BY <1>n, <1>f, <2>3, <2>4
  <1>8. ASSUME NEW n \in Nonces, SetNonce(n) PROVE TypeInv'
    <2>1. tx' \in Transactions
      BY <1>8, WithNonceTyped DEF SetNonce
    <2> QED BY <1>8, <1>n, <1>f, <2>1 DEF SetNonce
  <1>9. ASSUME NEW key \in Secrets, NEW bit \in Bits, Sign(key, bit) PROVE TypeInv'
    <2>1. tx' \in Transactions
      BY <1>9, SignedIs DEF Sign
    <2>2. author' \in Keys \union {None, Stranger}
      BY <1>9 DEF Sign, AuthorAfter, Secrets
    <2> QED BY <1>9, <1>n, <1>f, <2>1, <2>2 DEF Sign
  <1>10. ASSUME NEW a \in Keys, ForceSender(a) PROVE TypeInv'
    <2>1. tx' \in Transactions
      BY <1>10 DEF ForceSender, Transactions, Addresses
    <2> QED BY <1>10, <1>n, <1>f, <2>1 DEF ForceSender
  <1>11. ASSUME NEW withSig \in BOOLEAN, Sha3(withSig) PROVE TypeInv'
    <2>1. tx \in Transactions
      BY <1>11 DEF Sha3
    <2>2. tx.hashWith # None => tx.hashWith \in Encodings
      BY <2>1 DEF Transactions
    <2>3. ASSUME withSig, tx.hashWith = None, tx.vrs # None PROVE Encode(tx) \in Encodings
      BY <1>11, <2>1, <2>3, EncodeType DEF Sha3
    <2>4. tx' \in Transactions
      <3>1. tx' = tx \/ \E h \in Encodings : tx' = [tx EXCEPT !.hashWith = h]
        BY <1>11, <2>2, <2>3 DEF Sha3
      <3> QED BY <2>1, <3>1 DEF Transactions
    <2>5. out'.kind \in {"failed", "hash"}
      BY <1>11, <1>f DEF Sha3
    <2> QED BY <1>11, <1>n, <2>4, <2>5 DEF Sha3
  <1>12. CASE Sender
    <2>1. tx \in Transactions
      BY <1>12 DEF Sender
    <2>2. tx' \in Transactions
      BY <1>12, <2>1, SendersType DEF Sender, Transactions
    <2>3. out'.kind \in {"failed", "sender"}
      BY <1>12, <1>f DEF Sender
    <2> QED BY <1>12, <1>n, <2>2, <2>3 DEF Sender
  <1>13. CASE Rlp
    <2>1. tx \in Transactions
      BY <1>13 DEF Rlp
    <2>2. OutTyped' /\ out'.kind \in {"raw", "failed"}
      BY <1>13, <1>n, <1>f, <2>1, RawTyped DEF Rlp
    <2> QED BY <1>13, <2>2 DEF Rlp
  <1>14. CASE Destroy
    BY <1>14 DEF Destroy, OutTyped
  <1>15. CASE UNCHANGED vars
    BY <1>15 DEF vars, OutTyped
  <1> QED BY <1>1, <1>2, <1>3, <1>4, <1>5, <1>6, <1>7, <1>8, <1>9, <1>10, <1>11, <1>12,
             <1>13, <1>14, <1>15 DEF Next

\* TransactionBase's members keep their types and widths, whatever is decoded.
THEOREM TypeCorrect == Spec => []TypeInv
  <1>1. Init => TypeInv
    <2> SUFFICES ASSUME Init PROVE TypeInv
      OBVIOUS
    <2>1. tx = None /\ author = None /\ stale = FALSE
      BY DEF Init
    <2>2. out.kind = "none"
      BY DEF Init, Nothing
    <2> QED BY <2>1, <2>2 DEF TypeInv, TypeOK, OutTyped
  <1> QED BY <1>1, TypeStep, PTL DEF Spec

----------------------------------------------------------------------------
(***************************************************************************)
(* Signatures.  SignatureFits is inductive only together with what is      *)
(* known of the last string returned, because that string may be decoded   *)
(* into the next object.                                                   *)
(***************************************************************************)
OutGenuine ==
    out.kind = "raw" /\ out.by # Stranger => Genuine(out.enc, out.by, out.content)

SigInv == SignatureFits /\ OutGenuine

\* What an encoding to decode is known to be.
LEMMA InputsGenuine ==
    ASSUME OutGenuine, NEW in \in Inputs, in.by # Stranger
    PROVE Genuine(in.enc, in.by, in.content)
  <1>1. in \notin [enc: Foreign, by: {Stranger}, content: {None}]
    OBVIOUS
  <1>2. out.kind = "raw" /\ in.enc = out.enc /\ in.by = out.by /\ in.content = out.content
    BY <1>1 DEF Inputs
  <1> QED BY <1>2 DEF OutGenuine

\* A recovery that names a key is one of a fitting point.
LEMMA RecoverIsKey ==
    ASSUME NEW sig, NEW m, NEW key \in Keys, Recover(sig, m) = {key}
    PROVE sig.point # Bad /\ sig.point.of = m /\ sig.v = sig.point.bit /\ sig.point.by = key
  <1>1. sig.point # Bad
    BY Sentinels DEF Recover
  <1>2. CASE ~(sig.point.of = m /\ sig.v = sig.point.bit)
    <2>1. Recover(sig, m) = {Stranger, None}
      BY <1>1, <1>2 DEF Recover
    <2> QED BY <2>1, Sentinels
  <1>3. CASE sig.point.of = m /\ sig.v = sig.point.bit
    BY <1>1, <1>3 DEF Recover
  <1> QED BY <1>2, <1>3

\* Decoding an own string, of a chain id that fits, gives an object whose signature fits and
\* that says of itself what was signed.
FitsIfDecoded(in) ==
    ChainFits(in.content.v) =>
        LET d == Decoded(in.enc) IN
        /\ WellFormed(in.enc)
        /\ Unsigned(d) = in.content /\ Encode(d) = in.enc
        /\ IF in.by \in Keys THEN d.vrs.point # Zero /\ Recover(d.vrs, Unsigned(d)) = {in.by}
           ELSE d.vrs.point = Zero

\* A genuine string is decoded like that.
LEMMA GenuineDecodes ==
    ASSUME NEW in, Genuine(in.enc, in.by, in.content) PROVE FitsIfDecoded(in)
  <1> SUFFICES ASSUME ChainFits(in.content.v)
               PROVE LET d == Decoded(in.enc) IN
                     /\ WellFormed(in.enc)
                     /\ Unsigned(d) = in.content /\ Encode(d) = in.enc
                     /\ IF in.by \in Keys
                        THEN d.vrs.point # Zero /\ Recover(d.vrs, Unsigned(d)) = {in.by}
                        ELSE d.vrs.point = Zero
    BY DEF FitsIfDecoded
  <1>1. PICK t \in Transactions :
            /\ t.vrs # None /\ EncodeDefined(t)
            /\ in.enc = Encode(t) /\ in.content = Unsigned(t)
            /\ IF in.by \in Keys THEN t.vrs.point # Zero /\ Recover(t.vrs, in.content) = {in.by}
               ELSE t.vrs.point = Zero
    BY DEF Genuine
  <1>2. ChainFits(t.chain)
    BY <1>1 DEF Unsigned
  <1> QED BY <1>1, <1>2, RoundTrip

\* A string of a fitting object is genuine.
LEMMA RawGenuine ==
    ASSUME NEW t \in Transactions, t.vrs # None, EncodeDefined(t), NEW by, out' = Raw(t, by),
           by # Stranger =>
               IF by \in Keys THEN t.vrs.point # Zero /\ Recover(t.vrs, Unsigned(t)) = {by}
               ELSE t.vrs.point = Zero
    PROVE OutGenuine'
  <1>1. out'.enc = Encode(t) /\ out'.by = by /\ out'.content = Unsigned(t)
    BY DEF Raw
  <1>2. by # Stranger => Genuine(Encode(t), by, Unsigned(t))
    BY DEF Genuine
  <1> QED BY <1>1, <1>2 DEF OutGenuine

\* Every step keeps the invariant about signatures.
LEMMA SigStep == ASSUME TypeInv, SigInv, [Next]_vars PROVE SigInv'
  <1> USE DEF SigInv
  <1>t. tx \in Transactions \union {None} /\ author \in Keys \union {None, Stranger}
    BY DEF TypeInv, TypeOK
  <1>n. ASSUME out'.kind # "raw" PROVE OutGenuine'
    BY <1>n DEF OutGenuine
  <1>f. Failed.kind # "raw" /\ Nothing.kind # "raw"
    BY DEF Failed, Nothing
  <1>k. \A key \in Keys : key # None /\ key # BadKey /\ key # Stranger
    BY Sentinels
  <1>s. None # Stranger /\ BadKey \notin Keys /\ None \notin Keys /\ None # BadKey
    BY Sentinels
  <1>1. ASSUME NEW ts \in Skeletons, NEW bit \in Bits, NEW key \in Secrets \union {None},
               New(ts, key, bit)
        PROVE SigInv'
    <2>1. FromSkeleton(ts) \in Transactions /\ FromSkeleton(ts).vrs = None
      BY FreshTyped DEF FromSkeleton
    <2>2. key \in Keys => tx'.vrs # None /\ tx'.vrs.point # Zero /\ Recover(tx'.vrs, Unsigned(tx')) = {key}
                          /\ author' = key
      BY <1>1, <1>k, <2>1, SignedFits DEF New
    <2>3. key \notin Keys => tx'.vrs = None /\ author' = None
      BY <1>1, <1>s, <2>1, SignedIs DEF New, Secrets
    <2>4. SignatureFits'
      BY <1>s, <2>2, <2>3 DEF SignatureFits
    <2> QED BY <1>1, <1>n, <1>f, <2>4 DEF New
  <1>2. ASSUME NEW creation \in BOOLEAN, NEW n \in Nonces, NEW b \in Bodies, NEW bit \in Bits,
               NEW key \in Secrets \union {None}, NewPlain(creation, n, b, key, bit)
        PROVE SigInv'
    <2> DEFINE t == [creation |-> creation, nonce |-> n, body |-> b, chain |-> None,
                     vrs |-> None, hashWith |-> None, sender |-> None]
    <2>1. t \in Transactions /\ t.vrs = None
      BY FreshTyped
    <2>2. key \in Keys => tx'.vrs # None /\ tx'.vrs.point # Zero /\ Recover(tx'.vrs, Unsigned(tx')) = {key}
                          /\ author' = key
      BY <1>2, <1>k, <2>1, SignedFits DEF NewPlain
    <2>3. key \notin Keys => tx'.vrs = None /\ author' = None
      BY <1>2, <1>s, <2>1, SignedIs DEF NewPlain, Secrets
    <2>4. SignatureFits'
      BY <1>s, <2>2, <2>3 DEF SignatureFits
    <2> QED BY <1>2, <1>n, <1>f, <2>4 DEF NewPlain
  <1>3. ASSUME NEW ts \in Skeletons, NEW bit \in Bits, NEW key \in Secrets,
               WalletSign(ts, key, bit)
        PROVE SigInv'
    <2> DEFINE t == Signed(WithNonce(FromSkeleton(ts), ts.nonce), key, bit)
               by == IF key \in Keys THEN key ELSE None
    <2>1. /\ t \in Transactions /\ t.vrs # None /\ EncodeDefined(t)
          /\ IF key \in Keys THEN t.vrs.point # Zero /\ Recover(t.vrs, Unsigned(t)) = {key}
             ELSE t.vrs.point = Zero
      BY WalletObject
    <2>2. IF by \in Keys THEN t.vrs.point # Zero /\ Recover(t.vrs, Unsigned(t)) = {by}
          ELSE t.vrs.point = Zero
      BY <1>s, <2>1
    <2>3. out' = Raw(t, by)
      BY <1>3 DEF WalletSign
    <2> HIDE DEF t, by
    <2>4. OutGenuine'
      BY <2>1, <2>2, <2>3, RawGenuine
    <2> QED BY <1>3, <2>4 DEF WalletSign, SignatureFits
  <1>4. ASSUME NEW ts \in Skeletons, NEW bit \in Bits, LedgerSign(ts, bit)
        PROVE SigInv'
    <2> DEFINE t == Signed(FromSkeleton(ts), ts.from, bit)
    <2>1. FromSkeleton(ts) \in Transactions /\ ts.from \in Keys /\ ts.from \in Secrets
      BY FreshTyped DEF Skeletons, Secrets
    <2>2. t \in Transactions /\ t.vrs # None /\ t.vrs.point # Zero
          /\ Recover(t.vrs, Unsigned(t)) = {ts.from}
      <3>1. t \in Transactions
        BY <2>1, SignedIs, Zenon
      <3>2. t.vrs # None /\ t.vrs.point # Zero /\ Recover(t.vrs, Unsigned(t)) = {ts.from}
        BY <2>1, SignedFits, Zenon
      <3> QED BY <3>1, <3>2
    <2>3. EncodeDefined(t)
      BY <2>2 DEF EncodeDefined, HasZeroSignature
    <2>4. out' = Raw(t, ts.from) \/ out' = Failed
      BY <1>4, LedgerObject DEF LedgerSign
    <2> HIDE DEF t
    <2>5. OutGenuine'
      BY <1>n, <1>f, <2>1, <2>2, <2>3, <2>4, RawGenuine
    <2> QED BY <1>4, <2>5 DEF LedgerSign, SignatureFits
  <1>5. CASE SignFails
    BY <1>5, <1>n, <1>f DEF SignFails, SignatureFits
  <1>6. ASSUME NEW in \in Inputs, DecodeRaw(in) PROVE SigInv'
    <2>1. out'.kind # "raw"
      BY <1>6 DEF DecodeRaw
    <2> QED BY <1>6, <1>n, <2>1 DEF DecodeRaw, SignatureFits
  <1>7. ASSUME NEW in \in Inputs, NEW check \in Checks, Decode(in, check) PROVE SigInv'
    <2>1. out'.kind # "raw"
      BY <1>7, <1>f DEF Decode
    <2>2. CASE UNCHANGED <<tx, author>>
      BY <1>n, <2>1, <2>2 DEF SignatureFits
    <2>3. ASSUME Passes(in.enc, check), author' = AuthorOf(in),
                 \/ tx' = Decoded(in.enc)
                 \/ \E s \in Senders(Decoded(in.enc)) : tx' = [Decoded(in.enc) EXCEPT !.sender = s]
          PROVE SigInv'
      <3> DEFINE d == Decoded(in.enc)
      <3>1. d \in Transactions /\ d.vrs # None
        BY <2>3, InputsTyped, DecodedType DEF Passes, TypeInv
      <3>2. tx'.vrs = d.vrs /\ Unsigned(tx') = Unsigned(d)
        BY <2>3, <3>1 DEF Transactions, Unsigned, IsReplayProtected
      <3>3. ASSUME author' # Stranger
            PROVE IF author' \in Keys THEN d.vrs.point # Zero /\ Recover(d.vrs, Unsigned(d)) = {author'}
                  ELSE d.vrs.point = Zero
        <4>1. in.by # Stranger /\ ChainFits(in.content.v) /\ author' = in.by
          BY <2>3, <3>3 DEF AuthorOf
        <4>2. FitsIfDecoded(in)
          BY <4>1, InputsGenuine, GenuineDecodes
        <4> QED BY <4>1, <4>2 DEF FitsIfDecoded
      <3> HIDE DEF d
      <3>4. SignatureFits'
        BY <3>1, <3>2, <3>3 DEF SignatureFits
      <3> QED BY <1>n, <2>1, <3>4
    <2> QED BY <1>7, <2>2, <2>3 DEF Decode
  <1>8. ASSUME NEW n \in Nonces, SetNonce(n) PROVE SigInv'
    <2>1. tx'.vrs = ZeroSig /\ ZeroSig.point = Zero
      BY <1>8, <1>t, WithNonceTyped DEF SetNonce, ZeroSig
    <2>2. author' = None /\ out' = Nothing
      BY <1>8 DEF SetNonce
    <2>3. SignatureFits'
      BY <1>s, <2>1, <2>2 DEF SignatureFits
    <2> QED BY <1>n, <1>f, <2>2, <2>3
  <1>9. ASSUME NEW key \in Secrets, NEW bit \in Bits, Sign(key, bit) PROVE SigInv'
    <2>1. tx \in Transactions /\ tx # None /\ tx' = Signed(tx, key, bit) /\ out' = Nothing
          /\ author' = AuthorAfter(author, key)
      BY <1>9, <1>t DEF Sign
    <2>2. CASE key \in Keys
      <3>1. author' = key /\ tx'.vrs # None /\ tx'.vrs.point # Zero
            /\ Recover(tx'.vrs, Unsigned(tx')) = {key}
        BY <1>k, <2>1, <2>2, SignedFits DEF AuthorAfter
      <3> QED BY <1>n, <1>f, <2>1, <2>2, <3>1 DEF SignatureFits
    <2>3. CASE key = BadKey
      <3>1. tx' = tx /\ author' = author
        BY <2>1, <2>3, SignedIs DEF AuthorAfter
      <3> QED BY <1>n, <1>f, <2>1, <3>1 DEF SignatureFits
    <2> QED BY <2>2, <2>3 DEF Secrets
  <1>m. ASSUME tx \in Transactions, tx # None, tx'.vrs = tx.vrs, Unsigned(tx') = Unsigned(tx),
               author' = author
        PROVE SignatureFits'
    BY <1>m DEF SignatureFits
  <1>10. ASSUME NEW a \in Keys, ForceSender(a) PROVE SigInv'
    <2>1. tx'.vrs = tx.vrs /\ Unsigned(tx') = Unsigned(tx)
      BY <1>10, <1>t DEF ForceSender, Unsigned, IsReplayProtected, Transactions
    <2> QED BY <1>10, <1>t, <1>m, <1>n, <1>f, <2>1 DEF ForceSender
  <1>11. ASSUME NEW withSig \in BOOLEAN, Sha3(withSig) PROVE SigInv'
    <2>1. tx'.vrs = tx.vrs /\ Unsigned(tx') = Unsigned(tx)
      <3>1. tx' = tx \/ \E h : tx' = [tx EXCEPT !.hashWith = h]
        BY <1>11 DEF Sha3
      <3>2. tx \in Transactions
        BY <1>11, <1>t DEF Sha3
      <3> QED BY <3>1, <3>2 DEF Unsigned, IsReplayProtected, Transactions
    <2>2. out'.kind # "raw"
      BY <1>11, <1>f DEF Sha3
    <2> QED BY <1>11, <1>t, <1>m, <1>n, <2>1, <2>2 DEF Sha3
  <1>12. CASE Sender
    <2>1. tx'.vrs = tx.vrs /\ Unsigned(tx') = Unsigned(tx)
      <3>1. tx' = tx \/ \E s : tx' = [tx EXCEPT !.sender = s]
        BY <1>12 DEF Sender
      <3>2. tx \in Transactions
        BY <1>12, <1>t DEF Sender
      <3> QED BY <3>1, <3>2 DEF Unsigned, IsReplayProtected, Transactions
    <2>2. out'.kind # "raw"
      BY <1>12, <1>f DEF Sender
    <2> QED BY <1>12, <1>t, <1>m, <1>n, <2>1, <2>2 DEF Sender
  <1>13. CASE Rlp
    <2>1. tx \in Transactions /\ tx # None /\ EncodeDefined(tx)
      BY <1>13, <1>t DEF Rlp
    <2>2. tx.vrs # None /\ author # Stranger =>
            IF author \in Keys THEN tx.vrs.point # Zero /\ Recover(tx.vrs, Unsigned(tx)) = {author}
            ELSE tx.vrs.point = Zero
      BY <2>1 DEF SignatureFits
    <2>3. CASE tx.vrs = None
      BY <1>13, <1>n, <1>f, <2>3 DEF Rlp, SignatureFits
    <2>4. CASE tx.vrs # None
      <3>1. OutGenuine'
        BY <1>13, <2>1, <2>2, <2>4, RawGenuine DEF Rlp
      <3> QED BY <1>13, <3>1 DEF Rlp, SignatureFits
    <2> QED BY <2>3, <2>4
  <1>14. CASE Destroy
    BY <1>14 DEF Destroy, SignatureFits, OutGenuine
  <1>15. CASE UNCHANGED vars
    BY <1>15 DEF vars, SignatureFits, OutGenuine
  <1> QED BY <1>1, <1>2, <1>3, <1>4, <1>5, <1>6, <1>7, <1>8, <1>9, <1>10, <1>11, <1>12,
             <1>13, <1>14, <1>15 DEF Next

\* Types and signatures together, as the other theorems use them.
LEMMA SigInductive == Spec => [](TypeInv /\ SigInv)
  <1>1. Init => SigInv
    BY DEF Init, SigInv, SignatureFits, OutGenuine, Nothing
  <1> QED BY <1>1, TypeCorrect, SigStep, PTL DEF Spec

\* An object that the library signed carries a signature over itself as it is, whatever was
\* set, signed again or decoded in between.
THEOREM SignatureFitsAlways == Spec => []SignatureFits
  BY SigInductive, PTL DEF SigInv

----------------------------------------------------------------------------
\* Only decodeRawTransaction makes a report, and of an input that is genuine.
LEMMA ReportStep == ASSUME TypeInv, SigInv, ReportIsTrue, [Next]_vars PROVE ReportIsTrue'
  <1>n. ASSUME out'.kind \notin {"rejected", "report"} PROVE ReportIsTrue'
    BY <1>n DEF ReportIsTrue
  <1>f. Failed.kind = "failed" /\ Nothing.kind = "none" /\ \A t, by : Raw(t, by).kind = "raw"
    BY DEF Failed, Nothing, Raw
  <1>1. ASSUME NEW in \in Inputs, DecodeRaw(in) PROVE ReportIsTrue'
    <2> DEFINE d == Decoded(in.enc)
    <2> SUFFICES ASSUME out'.of.by # Stranger, ChainFits(out'.of.content.v)
                 PROVE /\ out'.kind = "report"
                       /\ out'.hex = out'.of.enc
                       /\ out'.hash = out'.of.content
                       /\ out'.from = IF out'.of.by \in Keys THEN out'.of.by ELSE MaxAddress
      BY DEF ReportIsTrue
    <2>1. out'.of = in
      BY <1>1 DEF DecodeRaw
    <2>2. in.by # Stranger /\ ChainFits(in.content.v) /\ FitsIfDecoded(in)
      BY <2>1, InputsGenuine, GenuineDecodes DEF SigInv
    <2>3. /\ WellFormed(in.enc)
          /\ Unsigned(d) = in.content /\ Encode(d) = in.enc
          /\ IF in.by \in Keys THEN d.vrs.point # Zero /\ Recover(d.vrs, Unsigned(d)) = {in.by}
             ELSE d.vrs.point = Zero
      BY <2>2 DEF FitsIfDecoded
    <2>4. PICK s \in Senders(d) :
            out' = [kind |-> "report", of |-> in, hex |-> Encode(d), from |-> s,
                    nonce |-> d.nonce, creation |-> d.creation, hash |-> Unsigned(d)]
      BY <1>1, <2>3 DEF DecodeRaw
    <2>5. d.sender = None /\ d.vrs # None
      BY <2>3, InputsTyped, DecodedType DEF Decoded, TypeInv
    <2>6. Senders(d) = {IF in.by \in Keys THEN in.by ELSE MaxAddress}
      BY <2>3, <2>5 DEF Senders, HasZeroSignature
    <2> HIDE DEF d
    <2> QED BY <2>1, <2>3, <2>4, <2>6
  <1>2. CASE UNCHANGED out
    BY <1>2 DEF ReportIsTrue
  <1>3. ASSUME NEW ts \in Skeletons, NEW bit \in Bits
        PROVE /\ \A key \in Secrets \union {None} : New(ts, key, bit) => ReportIsTrue'
              /\ \A key \in Secrets : WalletSign(ts, key, bit) => ReportIsTrue'
              /\ LedgerSign(ts, bit) => ReportIsTrue'
    BY <1>n, <1>f DEF New, WalletSign, LedgerSign
  <1>4. ASSUME NEW creation \in BOOLEAN, NEW n \in Nonces, NEW b \in Bodies, NEW bit \in Bits,
               NEW key \in Secrets \union {None}, NewPlain(creation, n, b, key, bit)
        PROVE ReportIsTrue'
    BY <1>4, <1>n, <1>f DEF NewPlain
  <1>5. ASSUME NEW in \in Inputs, NEW check \in Checks, Decode(in, check) PROVE ReportIsTrue'
    BY <1>5, <1>n, <1>f DEF Decode
  <1>6. CASE SignFails \/ Sender \/ Rlp
    BY <1>6, <1>n, <1>f DEF SignFails, Sender, Rlp
  <1>7. ASSUME NEW n \in Nonces, SetNonce(n) PROVE ReportIsTrue'
    BY <1>7, <1>n, <1>f DEF SetNonce
  <1>8. ASSUME NEW key \in Secrets, NEW bit \in Bits, Sign(key, bit) PROVE ReportIsTrue'
    BY <1>8, <1>n, <1>f DEF Sign
  <1>9. ASSUME NEW a \in Keys, ForceSender(a) PROVE ReportIsTrue'
    BY <1>9, <1>n, <1>f DEF ForceSender
  <1>10. ASSUME NEW withSig \in BOOLEAN, Sha3(withSig) PROVE ReportIsTrue'
    BY <1>10, <1>n, <1>f DEF Sha3
  <1>11. CASE Destroy \/ UNCHANGED vars
    BY <1>11, <1>2 DEF Destroy, vars
  <1> QED BY <1>1, <1>3, <1>4, <1>5, <1>6, <1>7, <1>8, <1>9, <1>10, <1>11 DEF Next

\* decodeRawTransaction tells the truth about every string of the library whose chain id
\* fits, and never rejects one.
THEOREM ReportIsTrueAlways == Spec => []ReportIsTrue
  <1>1. Init => ReportIsTrue
    BY DEF Init, ReportIsTrue, Nothing
  <1> QED BY <1>1, SigInductive, ReportStep, PTL DEF Spec

----------------------------------------------------------------------------
\* The caches are not among what streaming and signing read.
LEMMA CachesAside ==
    ASSUME NEW t \in Transactions, NEW x
    PROVE /\ Unsigned([t EXCEPT !.sender = x]) = Unsigned(t)
          /\ Unsigned([t EXCEPT !.hashWith = x]) = Unsigned(t)
          /\ Encode([t EXCEPT !.sender = x]) = Encode(t)
          /\ Encode([t EXCEPT !.hashWith = x]) = Encode(t)
  BY DEF Transactions, Unsigned, Encode, IsReplayProtected, HasZeroSignature, RawV, VOffset

\* CachesAreFresh is inductive: it says of stale objects nothing, and every change that a cache
\* survives makes the object stale.
LEMMA CacheStep == ASSUME TypeInv, CachesAreFresh, [Next]_vars PROVE CachesAreFresh'
  <1>t. tx \in Transactions \union {None}
    BY DEF TypeInv, TypeOK
  <1>0. ASSUME tx'.hashWith = None,
               tx'.sender = None \/ tx'.vrs = None \/ tx'.vrs.point = Zero
                 \/ tx'.sender \in Recover(tx'.vrs, Unsigned(tx'))
        PROVE CachesAreFresh'
    BY <1>0 DEF CachesAreFresh
  <1>k. \A key \in Keys : key # None /\ key # BadKey
    BY Sentinels
  <1>c. None # BadKey /\ None \notin Keys /\ BadKey \notin Keys
    BY Sentinels
  <1>1. ASSUME NEW ts \in Skeletons, NEW bit \in Bits, NEW key \in Secrets \union {None},
               New(ts, key, bit)
        PROVE CachesAreFresh'
    <2>1. FromSkeleton(ts) \in Transactions /\ FromSkeleton(ts).hashWith = None
          /\ FromSkeleton(ts).vrs = None /\ FromSkeleton(ts).sender = ts.from
      BY FreshTyped DEF FromSkeleton
    <2>2. CASE key \in Keys
      <3>1. tx' = Signed(FromSkeleton(ts), key, bit) /\ Recover(tx'.vrs, Unsigned(tx')) = {key}
        BY <1>1, <1>k, <2>1, <2>2, SignedFits DEF New
      <3>2. tx'.hashWith = None /\ tx'.sender = ts.from
        BY <2>1, <2>2, <3>1, SignedIs DEF Secrets, Transactions
      <3>3. CASE key = ts.from
        BY <1>0, <3>1, <3>2, <3>3
      <3>4. CASE key # ts.from
        BY <1>1, <2>2, <3>4 DEF New, CachesAreFresh
      <3> QED BY <3>3, <3>4
    <2>3. CASE key \notin Keys
      <3>1. tx' = FromSkeleton(ts)
        BY <1>1, <1>c, <2>1, <2>3, SignedIs DEF New, Secrets
      <3> QED BY <1>0, <2>1, <3>1
    <2> QED BY <2>2, <2>3
  <1>2. ASSUME NEW creation \in BOOLEAN, NEW n \in Nonces, NEW b \in Bodies, NEW bit \in Bits,
               NEW key \in Secrets \union {None}, NewPlain(creation, n, b, key, bit)
        PROVE CachesAreFresh'
    <2> DEFINE t == [creation |-> creation, nonce |-> n, body |-> b, chain |-> None,
                     vrs |-> None, hashWith |-> None, sender |-> None]
    <2>1. t \in Transactions
      BY FreshTyped
    <2>2. tx' = t \/ \E v : tx' = [t EXCEPT !.vrs = v]
      <3>1. tx' = IF key = None THEN t ELSE Signed(t, key, bit)
        BY <1>2 DEF NewPlain
      <3> HIDE DEF t
      <3>2. CASE key = None
        BY <3>1, <3>2
      <3>3. CASE key \in Keys \union {BadKey}
        <4>1. Signed(t, key, bit) = t \/ \E v : Signed(t, key, bit) = [t EXCEPT !.vrs = v]
          BY <2>1, <3>3, SignedIs DEF Secrets
        <4> QED BY <1>c, <1>k, <3>1, <3>3, <4>1
      <3> QED BY <3>2, <3>3 DEF Secrets
    <2>3. tx'.hashWith = None /\ tx'.sender = None
      BY <2>2
    <2> QED BY <1>0, <2>3
  <1>3. ASSUME UNCHANGED <<tx, stale>> PROVE CachesAreFresh'
    BY <1>3 DEF CachesAreFresh
  <1>4. ASSUME NEW in \in Inputs, NEW check \in Checks, Decode(in, check) PROVE CachesAreFresh'
    <2> DEFINE d == Decoded(in.enc)
    <2>1. CASE tx' = d
      <3>1. d.hashWith = None /\ d.sender = None
        BY DEF Decoded
      <3> QED BY <1>0, <2>1, <3>1
    <2>2. ASSUME Passes(in.enc, check), NEW s \in Senders(d), tx' = [d EXCEPT !.sender = s]
          PROVE CachesAreFresh'
      <3>1. d \in Transactions /\ d.vrs # None /\ d.hashWith = None /\ d.sender = None
        BY <2>2, InputsTyped, DecodedType DEF Passes, TypeInv, Decoded
      <3> HIDE DEF d
      <3>2. tx'.vrs = d.vrs /\ tx'.hashWith = None /\ tx'.sender = s
        BY <2>2, <3>1 DEF Transactions
      <3>3. Unsigned(tx') = Unsigned(d)
        BY <2>2, <3>1, CachesAside
      <3>4. d.vrs.point = Zero \/ s \in Recover(d.vrs, Unsigned(d))
        BY <2>2, <3>1 DEF Senders, HasZeroSignature
      <3> QED BY <1>0, <3>2, <3>3, <3>4
    <2>3. CASE tx' = tx
      BY <1>4, <2>3 DEF Decode, CachesAreFresh
    <2> QED BY <1>4, <2>1, <2>2, <2>3 DEF Decode
  <1>5. ASSUME NEW n \in Nonces, SetNonce(n) PROVE CachesAreFresh'
    <2>1. tx'.vrs.point = Zero /\ tx'.hashWith = tx.hashWith
      BY <1>5, <1>t DEF SetNonce, WithNonce, ZeroSig, Transactions
    <2> QED BY <1>5, <2>1 DEF SetNonce, CachesAreFresh
  <1>6. ASSUME NEW key \in Secrets, NEW bit \in Bits, Sign(key, bit) PROVE CachesAreFresh'
    <2>1. tx \in Transactions /\ tx # None /\ tx' = Signed(tx, key, bit)
          /\ stale' = (stale \/ (key \in Keys /\ (tx.hashWith # None \/ tx.sender \notin {None, key})))
      BY <1>6, <1>t DEF Sign
    <2>2. CASE key = BadKey
      <3>1. tx' = tx /\ stale' = stale
        <4>1. key \notin Keys
          BY <1>c, <2>2
        <4>2. Signed(tx, key, bit) = tx
          BY <2>1, <2>2, SignedIs
        <4>3. stale' = stale
          <5>1. stale \in BOOLEAN
            BY DEF TypeInv, TypeOK
          <5> QED BY <2>1, <4>1, <5>1
        <4> QED BY <2>1, <4>2, <4>3
      <3> QED BY <1>3, <3>1
    <2>3. CASE key \in Keys /\ stale'
      BY <2>3 DEF CachesAreFresh
    <2>4. CASE key \in Keys /\ ~stale'
      <3>1. tx.hashWith = None /\ tx.sender \in {None, key}
        BY <2>1, <2>4
      <3>2. tx'.hashWith = None /\ tx'.sender = tx.sender
        BY <2>1, <2>4, <3>1, SignedIs DEF Secrets, Transactions
      <3>3. Recover(tx'.vrs, Unsigned(tx')) = {key}
        BY <2>1, <2>4, SignedFits
      <3> QED BY <1>0, <3>1, <3>2, <3>3
    <2> QED BY <2>2, <2>3, <2>4 DEF Secrets
  <1>7. ASSUME NEW a \in Keys, ForceSender(a) PROVE CachesAreFresh'
    BY <1>7 DEF ForceSender, CachesAreFresh
  <1>8. ASSUME NEW withSig \in BOOLEAN, Sha3(withSig) PROVE CachesAreFresh'
    <2>1. tx \in Transactions /\ tx # None /\ stale' = stale
      BY <1>8, <1>t DEF Sha3
    <2>2. CASE tx' = tx
      BY <1>3, <2>1, <2>2
    <2>3. CASE withSig /\ tx.hashWith = None /\ tx' = [tx EXCEPT !.hashWith = Encode(tx)]
      <3>1. tx'.hashWith = Encode(tx) /\ tx'.vrs = tx.vrs /\ tx'.sender = tx.sender
        BY <2>1, <2>3 DEF Transactions
      <3>2. Encode(tx') = Encode(tx) /\ Unsigned(tx') = Unsigned(tx)
        BY <2>1, <2>3, CachesAside
      <3> QED BY <2>1, <3>1, <3>2 DEF CachesAreFresh
    <2>4. tx.hashWith # None => [tx EXCEPT !.hashWith = tx.hashWith] = tx
      BY <2>1 DEF Transactions
    <2> QED BY <1>8, <2>2, <2>3, <2>4 DEF Sha3
  <1>9. CASE Sender
    <2>1. tx \in Transactions /\ tx # None /\ stale' = stale
      BY <1>9, <1>t DEF Sender
    <2>2. PICK s \in Senders(tx) : IF s = None THEN tx' = tx ELSE tx' = [tx EXCEPT !.sender = s]
      BY <1>9 DEF Sender
    <2>3. CASE tx' = tx
      BY <1>3, <2>1, <2>3
    <2>4. CASE tx' = [tx EXCEPT !.sender = s]
      <3>1. tx'.sender = s /\ tx'.vrs = tx.vrs /\ tx'.hashWith = tx.hashWith
        BY <2>1, <2>4 DEF Transactions
      <3>2. Encode(tx') = Encode(tx) /\ Unsigned(tx') = Unsigned(tx)
        BY <2>1, <2>4, CachesAside
      <3>3. tx.sender # None => s = tx.sender
        BY DEF Senders
      <3>4. tx.sender = None /\ tx.vrs # None /\ tx.vrs.point # Zero => s \in Recover(tx.vrs, Unsigned(tx))
        BY DEF Senders, HasZeroSignature
      <3> QED BY <2>1, <3>1, <3>2, <3>3, <3>4 DEF CachesAreFresh
    <2> QED BY <2>2, <2>3, <2>4
  <1>10. CASE Destroy
    BY <1>10 DEF Destroy, CachesAreFresh
  <1>11. ASSUME NEW ts \in Skeletons, NEW bit \in Bits
         PROVE /\ \A key \in Secrets : WalletSign(ts, key, bit) => CachesAreFresh'
               /\ LedgerSign(ts, bit) => CachesAreFresh'
    BY <1>3 DEF WalletSign, LedgerSign
  <1>12. ASSUME NEW in \in Inputs, DecodeRaw(in) PROVE CachesAreFresh'
    BY <1>3, <1>12 DEF DecodeRaw
  <1>13. CASE SignFails \/ Rlp \/ UNCHANGED vars
    BY <1>3, <1>13 DEF SignFails, Rlp, vars
  <1> QED BY <1>1, <1>2, <1>4, <1>5, <1>6, <1>7, <1>8, <1>9, <1>10, <1>11, <1>12, <1>13 DEF Next

\* A cached hash or sender is what it would be computed to now, unless the object was changed
\* or given a sender after it was cached.
THEOREM CachesAreFreshAlways == Spec => []CachesAreFresh
  <1>1. Init => CachesAreFresh
    BY DEF Init, CachesAreFresh
  <1> QED BY <1>1, TypeCorrect, CacheStep, PTL DEF Spec
============================================================================
