------------------------------- MODULE Ledger -------------------------------
(***************************************************************************)
(* The exchange with a Ledger device: a message is cut into packages of up *)
(* to three HID frames, each package is one APDU the device answers, and   *)
(* the answer is read frame by frame, the first with a blocking read and   *)
(* the others until a read times out.  Frames that come later than that    *)
(* are read by the next exchange.  The device and its user are external.   *)
(* A key is named by its path, and so is its address.                      *)
(* Left out: a device that goes between its enumeration and its opening (a *)
(* dangling handle), and the order of the bytes inside a frame.            *)
(***************************************************************************)
EXTENDS Integers, Sequences

CONSTANTS
    Indices,      \* derivation paths, but for the hardening of their first index
    Default,      \* the path isAvaxOpen asks for
    PathSize,     \* the encoded length of each
    Messages, LengthOf,     \* messages and transactions to sign, and their bytes
    FirstRoom, SecondRoom, ThirdRoom,  \* 52, 59 and 39: bytes of payload per frame
    LengthSize,   \* 4: a personal message is preceded by its length
    Calls,        \* what the application calls
    None, Garbage,
    MaxStale      \* bound: frames that may wait when a call begins

Paths == [index : Indices, hardened : BOOLEAN]
Limit == FirstRoom + SecondRoom + ThirdRoom

ASSUME RoomsAssumption ==
    FirstRoom \in Nat /\ SecondRoom \in Nat /\ ThirdRoom \in Nat /\ LengthSize \in Nat
ASSUME MessagesAssumption == LengthOf \in [Messages -> Nat]
ASSUME CallsAssumption ==
    Calls \subseteq [op : {"account", "transaction", "personal"}, path : Paths,
                     message : Messages, from : Paths]
\* Path, and length, fit the first frame: at most eleven indices.
ASSUME PathsAssumption ==
    /\ PathSize \in [Indices -> Nat \ {0}]
    /\ \A i \in Indices : PathSize[i] + LengthSize <= FirstRoom
    /\ SecondRoom + ThirdRoom > 0
    /\ Default \in Paths /\ Default.hardened
ASSUME SentinelsAssumption == Garbage \notin Paths /\ MaxStale \in Nat

VARIABLES
    pc, call, phase,
    cursor,       \* RLPindex, messageIndex: bytes of the message in packages so far
    received,     \* exchangeMessage's ret
    wire,         \* frames of the device not yet read
    pending,      \* the APDU the device has yet to look at
    device,       \* what the device has of a message
    plugged,
    result,       \* with the signature, or what was added to ledgerAccounts
    doubt         \* history: a frame or an answer was left to a later exchange

host == <<pc, call, phase, cursor, received, result, doubt>>
usb == <<wire, pending, device, plugged>>
vars == <<host, usb>>

Free == [asking |-> FALSE, call |-> None, path |-> None, from |-> 0, upto |-> 0,
         spoiled |-> FALSE]

\* What parsePath makes of a path: isHardened is uninitialised at its first index.
Parsed(p) == {p, [p EXCEPT !.hardened = TRUE]}

----------------------------------------------------------------------------
(* Packages (encodeSignEthMessage, encodePersonalSignMessage).             *)

Smaller(a, b) == IF a <= b THEN a ELSE b

\* What precedes the message in a package that starts one: the path, and the length of a
\* personal message.
Header(c) == PathSize[c.path.index] + IF c.op = "personal" THEN LengthSize ELSE 0

\* isHIDFirstMessage, which becomes P1 of the APDU.
StartsMessage(c, at) == at + PathSize[c.path.index] < Limit

\* How far the package that starts at a byte reaches.
PackageEnd(c, at) ==
    LET room == Limit - (IF StartsMessage(c, at) THEN Header(c) ELSE 0)
    IN  Smaller(at + room, LengthOf[c.message])

Package(c, p, at) ==
    [ins |-> "sign", call |-> c, path |-> p, fresh |-> StartsMessage(c, at),
     from |-> at, to |-> PackageEnd(c, at)]

AddressRequest(p) ==
    [ins |-> "address", call |-> None, path |-> p, fresh |-> TRUE, from |-> 0, to |-> 0]

----------------------------------------------------------------------------
(* Frames of the device (external).                                        *)

AddressFrame(p, part) == [kind |-> "address", of |-> p, part |-> part]
SignatureFrame(c, p, part) == [kind |-> "signature", of |-> [call |-> c, path |-> p], part |-> part]
StatusFrame(status) == [kind |-> status, of |-> None, part |-> 1]

AddressAnswer(p) == <<AddressFrame(p, 1), AddressFrame(p, 2), AddressFrame(p, 3)>>
SignatureAnswer(d) == <<SignatureFrame(d.call, d.path, 1), SignatureFrame(d.call, d.path, 2)>>

\* messageHasError: the first frame of an answer tells; the bytes a later one has in those
\* places may be anything.
HasError(f) ==
    IF f.kind = "refused" THEN {TRUE} ELSE IF f.part = 1 THEN {FALSE} ELSE BOOLEAN

\* decodeBip32Message: the second frame is taken, whatever it is.
AddressIn(frames) == IF frames[2].kind = "address" /\ frames[2].part = 2 THEN frames[2].of ELSE Garbage

\* decodeSignEthMessage takes the last two frames; with fewer it reads outside the vector.
\* After 90 00 follow zeros, and r = 0 is not valid.
SignatureIn(frames) ==
    LET n == Len(frames) IN
    IF n < 2 THEN {Garbage, None}
    ELSE IF frames[n - 1].kind = "ok" THEN {None}
    ELSE IF /\ frames[n - 1].kind = "signature" /\ frames[n].kind = "signature"
            /\ frames[n - 1].part = 1 /\ frames[n].part = 2 /\ frames[n - 1].of = frames[n].of
         THEN {frames[n].of}
    ELSE {Garbage, None}
----------------------------------------------------------------------------
Init ==
    /\ pc = "idle" /\ phase = "check" /\ cursor = 0 /\ received = <<>>
    /\ call \in Calls
    /\ wire = <<>> /\ pending = None /\ device = Free /\ plugged = TRUE
    /\ result = [kind |-> "none"] /\ doubt = FALSE

Unread == wire # <<>> \/ pending # None \/ device.asking

\* An exchange begins: a handle is opened and the list of answers is empty.
Exchange(next) ==
    /\ phase' = next /\ pc' = "write"
    /\ cursor' = 0 /\ received' = <<>>

\* The call returns, and its variables are gone.
Return(outcome) ==
    /\ pc' = "idle" /\ result' = outcome
    /\ phase' = "check" /\ cursor' = 0 /\ received' = <<>>
    /\ UNCHANGED <<call, doubt>>

Fail(how) == Return([kind |-> how])

\* checkForDevice finds the device and an open app (isLedgerConnected, isAppOpen) and
\* begins isAvaxOpen's exchange, in whatever it is called from ...
Begin(c) ==
    /\ pc = "idle" /\ plugged /\ Len(wire) <= MaxStale
    /\ call' = c /\ result' = [kind |-> "none"]
    /\ doubt' = Unread
    /\ Exchange("check")
    /\ UNCHANGED usb

\* ... or does not find them.
NotFound ==
    /\ pc = "idle"
    /\ Fail("failed")
    /\ UNCHANGED usb

\* hid_init fails, or no handle is opened: nothing is exchanged.
OpenFails ==
    /\ pc = "write" /\ cursor = 0
    /\ pc' = "decode"
    /\ UNCHANGED <<call, phase, cursor, received, result, doubt, usb>>

\* An empty message has no package.
NothingToWrite ==
    /\ pc = "write" /\ phase = "sign" /\ cursor = LengthOf[call.message]
    /\ pc' = "decode"
    /\ UNCHANGED <<call, phase, cursor, received, result, doubt, usb>>

\* The frames of a package are written.  hid_write blocks while the device is busy, and a
\* write that fails is not noticed: res is unsigned.
WriteAddressRequest ==
    /\ pc = "write" /\ phase # "sign"
    /\ pc' = "read"
    /\ plugged => pending = None /\ ~device.asking
    /\ \E p \in Parsed(IF phase = "check" THEN Default ELSE call.path) :
          pending' = IF plugged THEN AddressRequest(p) ELSE None
    /\ UNCHANGED <<call, phase, cursor, received, result, doubt, wire, device, plugged>>

\* A defect: the last byte of a package is packed again.
WritePackageOverlapping ==
    /\ pc = "write" /\ phase = "sign" /\ cursor < LengthOf[call.message]
    /\ pc' = "read"
    /\ plugged => pending = None /\ ~device.asking
    /\ \E p \in Parsed(call.path) :
          pending' = IF plugged THEN Package(call, p, cursor) ELSE None
    /\ cursor' = PackageEnd(call, cursor) - 1
    /\ UNCHANGED <<call, phase, received, result, doubt, wire, device, plugged>>

WritePackage ==
    /\ pc = "write" /\ phase = "sign" /\ cursor < LengthOf[call.message]
    /\ pc' = "read"
    /\ plugged => pending = None /\ ~device.asking
    /\ \E p \in Parsed(call.path) :
          pending' = IF plugged THEN Package(call, p, cursor) ELSE None
    /\ cursor' = PackageEnd(call, cursor)
    /\ UNCHANGED <<call, phase, received, result, doubt, wire, device, plugged>>

\* The first answer is awaited without a timeout; an error in it ends the exchange.
ReadFirst ==
    /\ pc = "read" /\ wire # <<>>
    /\ received' = Append(received, Head(wire))
    /\ wire' = Tail(wire)
    /\ \E e \in HasError(Head(wire)) : pc' = IF e THEN "decode" ELSE "more"
    /\ UNCHANGED <<call, phase, cursor, result, doubt, pending, device, plugged>>

\* A defect: one frame after the first is read, and no more.
ReadMoreOnce ==
    /\ pc = "more" /\ wire # <<>>
    /\ received' = Append(received, Head(wire))
    /\ wire' = Tail(wire)
    /\ pc' = IF phase = "sign" /\ cursor < LengthOf[call.message] THEN "write" ELSE "decode"
    /\ UNCHANGED <<call, phase, cursor, result, doubt, pending, device, plugged>>

ReadMore ==
    /\ pc = "more" /\ wire # <<>>
    /\ received' = Append(received, Head(wire))
    /\ wire' = Tail(wire)
    /\ UNCHANGED <<pc, call, phase, cursor, result, doubt, pending, device, plugged>>

\* A defect: a read that times out is tried again.
TimesOutForNothing ==
    /\ pc = "more" /\ plugged
    /\ doubt' = (doubt \/ Unread)
    /\ UNCHANGED <<pc, call, phase, cursor, received, result, usb>>

\* No frame came in a tenth of a second: the next package, or the end of the exchange.
TimesOut ==
    /\ pc = "more" /\ plugged
    /\ pc' = IF phase = "sign" /\ cursor < LengthOf[call.message] THEN "write" ELSE "decode"
    /\ doubt' = (doubt \/ Unread)
    /\ UNCHANGED <<call, phase, cursor, received, result, usb>>

\* A read that fails returns -1, which is neither an error nor the end of the loop.
ReadFails ==
    /\ pc \in {"read", "more"} /\ ~plugged
    /\ pc' = "spin"
    /\ UNCHANGED <<call, phase, cursor, received, result, doubt, usb>>

Spin == pc = "spin" /\ UNCHANGED vars

----------------------------------------------------------------------------
\* An address of 42 characters is all that tells the right app.
DecodeCheck ==
    /\ pc = "decode" /\ phase = "check"
    /\ IF Len(received) > 1
         THEN Exchange("address") /\ UNCHANGED <<call, result, doubt>>
         ELSE Fail("failed")
    /\ UNCHANGED usb

NoAddress ==
    /\ pc = "decode" /\ phase = "address" /\ Len(received) <= 1
    /\ Fail("failed")
    /\ UNCHANGED usb

\* generateBip32Account
AddAccount ==
    /\ pc = "decode" /\ phase = "address" /\ Len(received) > 1 /\ call.op = "account"
    /\ Return([kind |-> "added", path |-> call.path, address |-> AddressIn(received)])
    /\ UNCHANGED usb

\* A defect: the address is taken as the sender's without a look at the transaction.
CheckSenderBlindly ==
    /\ pc = "decode" /\ phase = "address" /\ Len(received) > 1 /\ call.op # "account"
    /\ Exchange("sign") /\ UNCHANGED <<call, result, doubt>>
    /\ UNCHANGED usb

\* signTransaction compares the address with the sender; toAddress throws on what is none.
CheckSender ==
    /\ pc = "decode" /\ phase = "address" /\ Len(received) > 1 /\ call.op # "account"
    /\ IF call.op = "personal" \/ AddressIn(received) = call.from
         THEN Exchange("sign") /\ UNCHANGED <<call, result, doubt>>
         ELSE Fail(IF AddressIn(received) = Garbage THEN "threw" ELSE "failed")
    /\ UNCHANGED usb

\* The end of signTransaction and signPersonalMessage.
DecodeSign ==
    /\ pc = "decode" /\ phase = "sign"
    /\ \E s \in SignatureIn(received) :
          IF s = None THEN Fail("failed")
          ELSE Return([kind |-> "signed", signature |-> s, outside |-> Len(received) < 2])
    /\ UNCHANGED usb

----------------------------------------------------------------------------
(* The device and its user (external).                                     *)

Answer(frames) ==
    /\ wire' = wire \o frames
    /\ UNCHANGED <<host, plugged>>

DeviceAddress ==
    /\ pending # None /\ pending.ins = "address" /\ ~device.asking
    /\ pending' = None
    /\ Answer(AddressAnswer(pending.path))
    /\ UNCHANGED device

\* A package that starts a message replaces what there was, another one is added to it.
DeviceAppend ==
    /\ pending # None /\ pending.ins = "sign" /\ ~device.asking
    /\ pending.fresh \/ device # Free
    /\ pending' = None
    /\ LET d == IF pending.fresh
                THEN [Free EXCEPT !.call = pending.call, !.path = pending.path,
                                  !.from = pending.from, !.upto = pending.to]
                ELSE [device EXCEPT !.upto = @ + (pending.to - pending.from),
                                    !.spoiled = @ \/ pending.call # device.call
                                                  \/ pending.from # device.upto]
       IN  IF d.upto - d.from = LengthOf[d.call.message]
             THEN /\ device' = [d EXCEPT !.asking = TRUE]
                  /\ UNCHANGED <<host, wire, plugged>>
             ELSE /\ device' = d
                  /\ Answer(<<StatusFrame("ok")>>)

\* The device is locked, or sent what it does not expect.
DeviceRefuses ==
    /\ pending # None /\ ~device.asking
    /\ pending' = None /\ device' = Free
    /\ Answer(<<StatusFrame("refused")>>)

UserConfirms ==
    /\ device.asking
    /\ device' = Free
    /\ Answer(SignatureAnswer(device))
    /\ UNCHANGED pending

UserRefuses ==
    /\ device.asking
    /\ device' = Free
    /\ Answer(<<StatusFrame("refused")>>)
    /\ UNCHANGED pending

Unplug ==
    /\ plugged
    /\ plugged' = FALSE /\ wire' = <<>> /\ pending' = None /\ device' = Free
    /\ UNCHANGED host

\* A closed handle may take frames with it.
Lose ==
    /\ pc \in {"idle", "decode"} /\ wire # <<>>
    /\ wire' = Tail(wire)
    /\ UNCHANGED <<host, pending, device, plugged>>

Plug ==
    /\ ~plugged /\ pc = "idle"
    /\ plugged' = TRUE
    /\ UNCHANGED <<host, wire, pending, device>>

----------------------------------------------------------------------------
HostStep ==
    \/ OpenFails \/ NothingToWrite \/ WriteAddressRequest \/ WritePackage
    \/ ReadFirst \/ ReadMore \/ TimesOut \/ ReadFails \/ Spin
    \/ DecodeCheck \/ NoAddress \/ AddAccount \/ CheckSender \/ DecodeSign

DeviceStep == DeviceAddress \/ DeviceAppend \/ DeviceRefuses \/ UserConfirms \/ UserRefuses

Next == (\E c \in Calls : Begin(c)) \/ NotFound \/ HostStep \/ DeviceStep \/ Unplug \/ Lose \/ Plug

\* The host runs, and the device and its user answer.  Nothing makes the application call
\* or somebody plug a device in.
Spec == Init /\ [][Next]_vars /\ WF_vars(HostStep) /\ WF_vars(DeviceStep)

----------------------------------------------------------------------------
Frames ==
    [kind : {"address"}, of : Paths, part : 1..3]
    \union [kind : {"signature"}, of : [call : Calls, path : Paths], part : 1..2]
    \union [kind : {"ok", "refused"}, of : {None}, part : {1}]

Packages == [ins : {"sign"}, call : Calls, path : Paths, fresh : BOOLEAN, from : Nat, to : Nat]

AddressRequests ==
    [ins : {"address"}, call : {None}, path : Paths, fresh : {TRUE}, from : {0}, to : {0}]

Apdus == Packages \union AddressRequests

ASSUME NoneAssumption == None \notin Apdus

\* What a device has that is not free.
Holdings == [asking : BOOLEAN, call : Calls, path : Paths, from : Nat, upto : Nat,
             spoiled : BOOLEAN]

\* The host never packs more of a message than there is, and the device is never sent a
\* frame of another form.
TypeOK ==
    /\ pc \in {"idle", "write", "read", "more", "decode", "spin"}
    /\ call \in Calls
    /\ phase \in {"check", "address", "sign"}
    /\ cursor \in 0..LengthOf[call.message]
    /\ received \in Seq(Frames) /\ wire \in Seq(Frames)
    /\ pending \in Apdus \union {None}
    /\ device \in Holdings \union {Free}
    /\ plugged \in BOOLEAN /\ doubt \in BOOLEAN
    /\ result.kind \in {"none", "failed", "threw", "added", "signed"}

\* The user is only ever asked to confirm a whole message as one call passed it, under that
\* call's path: no cutting into packages, aborted exchange or answer read out of turn makes
\* the device put together parts that do not belong together.
AsksWhatWasPassed ==
    device.asking =>
        /\ device.from = 0 /\ device.upto = LengthOf[device.call.message] /\ ~device.spoiled
        /\ device.path \in Parsed(device.call.path)

\* A signature that is returned is the one the device made for this call, and for a
\* transaction by the key of its sender, if no answer came late and the device sent the two
\* frames decodeSignEthMessage reads.
SignatureIsGenuine ==
    result.kind = "signed" /\ ~doubt /\ ~result.outside =>
        /\ result.signature.call = call
        /\ result.signature.path \in Parsed(call.path)
        /\ call.op = "transaction" /\ call.path.hardened => result.signature.path = call.from

\* An account is listed with the address of its path, if no answer came late and the
\* path's first index is hardened.
AccountsAreTrue ==
    result.kind = "added" /\ ~doubt /\ result.path.hardened => result.address = result.path

\* Every call ends, however late its answers, as long as the device stays connected.
CallsEnd == pc # "idle" ~> (pc = "idle" \/ ~plugged)
=============================================================================
