---------------------------- MODULE Transaction ----------------------------
(***************************************************************************)
(* A transaction object (ethcore/TransactionBase) and the ways the library *)
(* makes one: the wallet's signing, the ledger's signing, and decoding a   *)
(* raw string.  Cryptography is perfect: a hash is what was hashed, and a  *)
(* signature's point records who signed what; recovering it gives that key *)
(* for that content and that recovery bit, and otherwise nobody's.         *)
(* Value, gas, data and receiver are one "body".  Default-constructed      *)
(* (null) transactions are left out: nothing in the library makes one.     *)
(***************************************************************************)
EXTENDS Integers

CONSTANTS
    Keys,         \* valid secrets, each standing for its address too
    BadKey,       \* a secret outside the curve's order: dev::sign fails
    Bodies, Nonces,
    ChainIds,     \* chain ids a provider may have (uint64_t)
    Foreign,      \* encodings that come from outside, see Encodings
    IntMax,       \* 2^31: what an int cannot hold any more
    LongLimit,    \* 2^64
    WordLimit,    \* 2^256
    None,         \* an empty optional; also "throws"
    Zero, Bad,    \* (r, s) both zero, and (r, s) outside their range
    MaxAddress, Stranger

Points == [by: Keys, of: [fields: {6, 9}, creation: BOOLEAN, nonce: Nonces, body: Bodies,
                          v: (0..(LongLimit - 1)) \union {None}, point: {Zero, None}],
           bit: {0, 1}]

(* An RLP list: six fields when nothing of a signature is in it.            *)
Encodings == [fields: 6..10, creation: BOOLEAN, nonce: Nonces, body: Bodies,
              v: (0..(WordLimit - 1)) \union {None}, point: Points \union {Zero, Bad, None}]

ASSUME Sentinels ==
    /\ \A x \in {Zero, Bad, None} : x \notin Points
    /\ Zero # Bad /\ Zero # None /\ Bad # None
    /\ \A x \in {None, BadKey, MaxAddress, Stranger} : x \notin Keys
    /\ None # BadKey
    /\ None \notin [point: Points \union {Zero, Bad}, v: {0, 1}] \union Encodings
    /\ None # MaxAddress /\ None # Stranger /\ MaxAddress # Stranger
ASSUME Widths ==
    /\ IntMax \in Nat /\ LongLimit \in Nat /\ WordLimit \in Nat
    /\ 64 <= IntMax /\ 2 * IntMax <= LongLimit /\ LongLimit <= WordLimit
    /\ None \notin Int
    /\ ChainIds \subseteq 0..(LongLimit - 1)
ASSUME ForeignAssumption ==
    /\ Foreign \subseteq Encodings
    /\ \A e \in Foreign : e.fields >= 9 => e.v # None /\ e.point # None

VARIABLES
    tx,           \* the object in use, None when there is none
    author,       \* history: who signed it as it is: a key, None for nobody (no or a
                  \* zero signature), Stranger when it came from outside
    stale,        \* history: it was changed after one of its caches was filled
    out           \* what the last call returned

vars == <<tx, author, stale, out>>

----------------------------------------------------------------------------
(* Signatures. *)

ZeroSig == [point |-> Zero, v |-> 0]

IsValid(sig) == sig.v <= 1 /\ sig.point \notin {Zero, Bad}

SignHash(key, message, bit) ==
    IF key = BadKey THEN ZeroSig
    ELSE [point |-> [by |-> key, of |-> message, bit |-> bit], v |-> bit]

(* A signature over something else may recover to some other key or to none. *)
Recover(sig, message) ==
    IF sig.point = Bad THEN {None}
    ELSE IF sig.point.of = message /\ sig.v = sig.point.bit THEN {sig.point.by}
    ELSE {Stranger, None}

----------------------------------------------------------------------------
(* Streaming. *)

IsReplayProtected(t) == t.chain # None

HasZeroSignature(t) == t.vrs # None /\ t.vrs.point = Zero

(* What is signed: with EIP-155 the chain id and two zeros follow. *)
Unsigned(t) ==
    [fields |-> IF IsReplayProtected(t) THEN 9 ELSE 6,
     creation |-> t.creation, nonce |-> t.nonce, body |-> t.body,
     v |-> t.chain, point |-> IF IsReplayProtected(t) THEN Zero ELSE None]

(* uint64_t arithmetic, narrowed to int. *)
VOffset(t) ==
    IF IsReplayProtected(t)
    THEN ((((t.chain * 2 + 35) % LongLimit) + IntMax) % (2 * IntMax)) - IntMax
    ELSE 27

RawV(t) == (t.vrs.v + VOffset(t)) % WordLimit

Encode(t) ==
    [fields |-> 9, creation |-> t.creation, nonce |-> t.nonce, body |-> t.body,
     v |-> IF HasZeroSignature(t) THEN t.chain ELSE RawV(t), point |-> t.vrs.point]

(* Without a chain id the zero signature's v is read from an empty optional. *)
EncodeDefined(t) == ~(HasZeroSignature(t) /\ ~IsReplayProtected(t))

----------------------------------------------------------------------------
(* Decoding. *)

(* A defect: the first chain ids read as the ids before them. *)
ChainOfLate(e) ==
    IF e.point = Zero THEN e.v % LongLimit
    ELSE IF e.v > 36 THEN (e.v - 36) \div 2
    ELSE None

ChainOf(e) ==
    IF e.point = Zero THEN e.v % LongLimit
    ELSE IF e.v > 36 THEN (e.v - 35) \div 2
    ELSE None

Decoded(e) ==
    [creation |-> e.creation, nonce |-> e.nonce, body |-> e.body, chain |-> ChainOf(e),
     vrs |-> [point |-> e.point,
              v |-> IF e.point = Zero THEN 0
                    ELSE IF e.v > 36 THEN (e.v - (ChainOf(e) * 2 + 35)) % 256
                    ELSE e.v - 27],
     hashWith |-> None, sender |-> None]

WellFormed(e) ==
    /\ e.fields = 9
    /\ e.point # Zero =>
        IF e.v > 36 THEN ChainOf(e) < LongLimit ELSE e.v \in {27, 28}

(* What sender() may answer; None: it throws. *)
Senders(t) ==
    IF t.sender # None THEN {t.sender}
    ELSE IF HasZeroSignature(t) THEN {MaxAddress}
    ELSE IF t.vrs = None THEN {None}
    ELSE Recover(t.vrs, Unsigned(t))

Checks == {"None", "Cheap", "Everything"}

Passes(e, check) ==
    /\ WellFormed(e)
    /\ check # "None" => e.point = Zero \/ IsValid(Decoded(e).vrs)

----------------------------------------------------------------------------
(* Making and changing an object. *)

Skeletons == [creation: BOOLEAN, from: Keys, nonce: Nonces, body: Bodies, chain: ChainIds]

FromSkeleton(ts) ==
    [creation |-> ts.creation, nonce |-> ts.nonce, body |-> ts.body, chain |-> ts.chain,
     vrs |-> None, hashWith |-> None, sender |-> ts.from]

WithSig(t, sig) == IF IsValid(sig) THEN [t EXCEPT !.vrs = sig] ELSE t

Signed(t, key, bit) == WithSig(t, SignHash(key, Unsigned(t), bit))

(* Defect: a signature that is there stays. *)
WithNonceKeepsSig(t, n) == [t EXCEPT !.vrs = IF @ = None THEN ZeroSig ELSE @, !.nonce = n]
WithNonce(t, n) == [t EXCEPT !.vrs = ZeroSig, !.nonce = n]

(* Another author's signature replaces the present one. *)
AuthorAfter(old, key) == IF key = BadKey THEN old ELSE key
----------------------------------------------------------------------------
(* Answers. *)

Failed == [kind |-> "failed"]
Nothing == [kind |-> "none"]
Raw(t, by) == [kind |-> "raw", enc |-> Encode(t), by |-> by, content |-> Unsigned(t)]

Init == tx = None /\ author = None /\ stale = FALSE /\ out = Nothing

(* The constructor from a skeleton; the secret may be absent. *)
New(ts, key, bit) ==
    /\ tx = None
    /\ LET t == FromSkeleton(ts) IN
       tx' = IF key = None THEN t ELSE Signed(t, key, bit)
    /\ author' = IF key \in Keys THEN key ELSE None
    /\ stale' = (key \in Keys /\ key # ts.from)
    /\ out' = Nothing

(* The other constructors: no chain id and no sender. *)
NewPlain(creation, n, b, key, bit) ==
    /\ tx = None
    /\ LET t == [creation |-> creation, nonce |-> n, body |-> b, chain |-> None,
                 vrs |-> None, hashWith |-> None, sender |-> None]
       IN  tx' = IF key = None THEN t ELSE Signed(t, key, bit)
    /\ author' = IF key \in Keys THEN key ELSE None
    /\ stale' = FALSE
    /\ out' = Nothing

(* Where an encoding to decode comes from, and whose it is. *)
Inputs ==
    [enc: Foreign, by: {Stranger}, content: {None}]
    \union IF out.kind = "raw"
           THEN {[enc |-> out.enc, by |-> out.by, content |-> out.content]} ELSE {}

(* Chain ids whose v fits an int (TransactionBase::rawV) and is told from 27 and 28. *)
ChainFits(chain) == chain = None \/ (chain >= 1 /\ 2 * chain + 36 < IntMax)

(* What a spoiled v turned into is not the author's any more. *)
AuthorOf(in) ==
    IF in.by # Stranger /\ ChainFits(in.content.v) THEN in.by ELSE Stranger

(* The constructor from RLP. *)
Decode(in, check) ==
    /\ tx = None
    /\ stale' = FALSE
    /\ \/ /\ Passes(in.enc, check)
          /\ check # "Everything"
          /\ tx' = Decoded(in.enc) /\ author' = AuthorOf(in) /\ out' = Nothing
       \/ /\ Passes(in.enc, check)
          /\ check = "Everything"
          /\ \E s \in Senders(Decoded(in.enc)) :
                IF s # None
                THEN /\ tx' = [Decoded(in.enc) EXCEPT !.sender = s]
                     /\ author' = AuthorOf(in) /\ out' = Nothing
                ELSE /\ out' = Failed
                     /\ UNCHANGED <<tx, author>>
       \/ /\ ~Passes(in.enc, check)
          /\ out' = Failed
          /\ UNCHANGED <<tx, author>>

Destroy ==
    /\ tx # None
    /\ tx' = None /\ author' = None /\ stale' = FALSE
    /\ UNCHANGED out

SetNonce(n) ==
    /\ tx # None
    /\ tx' = WithNonce(tx, n)
    /\ author' = None
    /\ stale' = (stale \/ tx.hashWith # None)
    /\ out' = Nothing

Sign(key, bit) ==
    /\ tx # None
    /\ tx' = Signed(tx, key, bit)
    /\ author' = AuthorAfter(author, key)
    /\ stale' = (stale \/ (key \in Keys /\ (tx.hashWith # None \/ tx.sender \notin {None, key})))
    /\ out' = Nothing

ForceSender(a) ==
    /\ tx # None
    /\ tx' = [tx EXCEPT !.sender = a]
    /\ stale' = TRUE
    /\ out' = Nothing
    /\ UNCHANGED author
----------------------------------------------------------------------------
(* Asking. *)

Sender ==
    /\ tx # None
    /\ \E s \in Senders(tx) :
          IF s = None THEN out' = Failed /\ UNCHANGED tx
          ELSE /\ tx' = [tx EXCEPT !.sender = s]
               /\ out' = [kind |-> "sender", is |-> s]
    /\ UNCHANGED <<author, stale>>

(* Defect: either hash fills the cache. *)
Sha3Any(withSig) ==
    /\ tx # None /\ EncodeDefined(tx)
    /\ IF withSig /\ tx.hashWith = None /\ tx.vrs = None
       THEN out' = Failed /\ UNCHANGED tx
       ELSE LET h == IF withSig /\ tx.hashWith # None THEN tx.hashWith
                     ELSE IF withSig THEN Encode(tx) ELSE Unsigned(tx)
            IN  /\ tx' = [tx EXCEPT !.hashWith = h]
                /\ out' = [kind |-> "hash", is |-> h]
    /\ UNCHANGED <<author, stale>>
(* sha3(WithSignature) fills the cache, sha3(WithoutSignature) never. *)
Sha3(withSig) ==
    /\ tx # None
    /\ withSig /\ tx.hashWith = None => EncodeDefined(tx)
    /\ IF withSig /\ tx.hashWith = None /\ tx.vrs = None
       THEN out' = Failed /\ UNCHANGED tx
       ELSE LET h == IF withSig /\ tx.hashWith # None THEN tx.hashWith
                     ELSE IF withSig THEN Encode(tx) ELSE Unsigned(tx)
            IN  /\ tx' = IF withSig THEN [tx EXCEPT !.hashWith = h] ELSE tx
                /\ out' = [kind |-> "hash", is |-> h]
    /\ UNCHANGED <<author, stale>>

Rlp ==
    /\ tx # None
    /\ EncodeDefined(tx)
    /\ out' = IF tx.vrs = None THEN Failed ELSE Raw(tx, author)
    /\ UNCHANGED <<tx, author, stale>>

----------------------------------------------------------------------------
(* The library's own uses, each with an object of its own. *)

(* An error from the wallet (wrong password, unknown account) or from the        *)
(* ledger (not connected, another address under the path, refused).             *)
SignFails ==
    /\ tx = None
    /\ out' = Failed
    /\ UNCHANGED <<tx, author, stale>>

(* Wallet::signTransaction: the secret is the one stored under ts.from (which   *)
(* importPrivKey does not examine).  A failed signing is not noticed.           *)
WalletSign(ts, key, bit) ==
    /\ tx = None
    /\ key \in {ts.from, BadKey}
    /\ LET t == Signed(WithNonce(FromSkeleton(ts), ts.nonce), key, bit)
       IN  out' = Raw(t, IF key \in Keys THEN key ELSE None)
    /\ UNCHANGED <<tx, author, stale>>

(* The device answers one byte of v. *)
DeviceV(message, bit) == (message.v * 2 + 35 + bit) % 256

DecodeV(b) == IF b % 2 = 0 THEN 1 ELSE 0

(* device::signTransaction, after the device's address was found to be ts.from. *)
LedgerSign(ts, bit) ==
    /\ tx = None
    /\ LET t == FromSkeleton(ts)
           s == SignHash(ts.from, Unsigned(t), bit)
           got == [s EXCEPT !.v = DecodeV(DeviceV(Unsigned(t), bit))]
       IN  out' = IF IsValid(got) THEN Raw(WithSig(t, got), ts.from) ELSE Failed
    /\ UNCHANGED <<tx, author, stale>>

(* Utils::decodeRawTransaction checks nothing; a sender that throws is shown    *)
(* as <unsigned>.                                                               *)
DecodeRaw(in) ==
    /\ tx = None
    /\ LET d == Decoded(in.enc) IN
       IF ~WellFormed(in.enc)
       THEN out' = [kind |-> "rejected", of |-> in]
       ELSE \E s \in Senders(d) :
                 out' = [kind |-> "report", of |-> in, hex |-> Encode(d), from |-> s,
                         nonce |-> d.nonce, creation |-> d.creation, hash |-> Unsigned(d)]
    /\ UNCHANGED <<tx, author, stale>>

----------------------------------------------------------------------------
Bits == {0, 1}
Secrets == Keys \union {BadKey}

Next ==
    \/ \E ts \in Skeletons, bit \in Bits :
        \/ \E key \in Secrets \union {None} : New(ts, key, bit)
        \/ \E key \in Secrets : WalletSign(ts, key, bit)
        \/ LedgerSign(ts, bit)
    \/ \E creation \in BOOLEAN, n \in Nonces, b \in Bodies, bit \in Bits :
        \E key \in Secrets \union {None} : NewPlain(creation, n, b, key, bit)
    \/ SignFails
    \/ \E in \in Inputs : DecodeRaw(in) \/ \E check \in Checks : Decode(in, check)
    \/ \E n \in Nonces : SetNonce(n)
    \/ \E key \in Secrets, bit \in Bits : Sign(key, bit)
    \/ \E a \in Keys : ForceSender(a)
    \/ \E withSig \in BOOLEAN : Sha3(withSig)
    \/ Sender \/ Rlp \/ Destroy

Spec == Init /\ [][Next]_vars

----------------------------------------------------------------------------
Addresses == Keys \union {MaxAddress, Stranger}

Transactions ==
    [creation: BOOLEAN, nonce: Nonces, body: Bodies, chain: (0..(LongLimit - 1)) \union {None},
     vrs: [point: Points \union {Zero, Bad}, v: Bits] \union {None},
     hashWith: Encodings \union {None}, sender: Addresses \union {None}]

\* Every member keeps its C++ type and width; a recovery bit is 0 or 1 whatever was decoded.
TypeOK ==
    /\ tx \in Transactions \union {None}
    /\ author \in Keys \union {None, Stranger}
    /\ stale \in BOOLEAN
    /\ out.kind \in {"none", "failed", "sender", "hash", "raw", "rejected", "report"}

(* The signature of an object the library signed is over the object as it is: setNonce,  *)
(* a failed signing or a second signing never leaves one that fits something else.       *)
SignatureFits ==
    tx # None /\ author # Stranger =>
        IF author \in Keys THEN tx.vrs # None /\ tx.vrs.point # Zero
                                /\ Recover(tx.vrs, Unsigned(tx)) = {author}
        ELSE tx.vrs = None \/ tx.vrs.point = Zero

(* What decodeRawTransaction shows of a string this library made (by wallet, ledger or    *)
(* rlp()) is what was signed: the same fields and chain, the signer as sender, and a hex  *)
(* and hash that are the string's own.  A string with a zero signature shows MaxAddress.  *)
ReportIsTrue ==
    out.kind \in {"rejected", "report"} /\ out.of.by # Stranger /\ ChainFits(out.of.content.v)
    => /\ out.kind = "report"
       /\ out.hex = out.of.enc
       /\ out.hash = out.of.content
       /\ out.from = IF out.of.by \in Keys THEN out.of.by ELSE MaxAddress

(* The cached hash and sender of an object are what they would be computed to now, as     *)
(* long as the object was not changed after they were cached (setNonce and sign drop      *)
(* neither cache, see TransactionBase.cpp:206) nor given a sender by hand.                *)
CachesAreFresh ==
    tx # None /\ ~stale =>
        /\ tx.hashWith # None => tx.hashWith = Encode(tx)
        /\ tx.sender # None /\ tx.vrs # None /\ tx.vrs.point # Zero =>
            tx.sender \in Recover(tx.vrs, Unsigned(tx))
============================================================================
