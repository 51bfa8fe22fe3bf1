---------------------------- MODULE LedgerProofs ----------------------------
(***************************************************************************)
(* The safety properties of Ledger, for any calls, sizes and rooms.  The   *)
(* first invariant says that the packages of a call follow one another in  *)
(* the device: what it has, or is about to look at, is of the call that    *)
(* packs and ends where the next package begins.  The second, that as long *)
(* as no answer is left over all that is on its way belongs to the call.   *)
(***************************************************************************)
EXTENDS Ledger, TLAPS

\* The part of a message the device has, or is sent, lies in it.
PartsFit ==
    /\ device # Free =>
          /\ device.from <= device.upto /\ device.upto <= LengthOf[device.call.message]
          /\ device.path \in Parsed(device.call.path)
    /\ pending \in Packages =>
          /\ pending.from <= pending.to /\ pending.to <= LengthOf[pending.call.message]
          /\ pending.path \in Parsed(pending.call.path)

\* A package that goes on follows what the device has.
PartsFollow ==
    /\ ~device.spoiled
    /\ pending \in Packages /\ ~pending.fresh /\ device # Free =>
          pending.call = device.call /\ pending.from = device.upto

\* Past the first package, the device has this call's message as far as it is packed, or
\* nothing.
SentSoFar ==
    phase = "sign" /\ cursor > 0 =>
        /\ pending # None => pending \in Packages /\ pending.call = call /\ pending.to = cursor
        /\ pending = None /\ device # Free => device.call = call /\ device.upto = cursor

Unplugged == ~plugged => pending = None /\ device = Free

AskedInv == TypeOK /\ PartsFit /\ PartsFollow /\ SentSoFar /\ Unplugged /\ AsksWhatWasPassed

----------------------------------------------------------------------------
LEMMA CallTypes ==
    ASSUME NEW c \in Calls
    PROVE  /\ c.message \in Messages /\ LengthOf[c.message] \in Nat
           /\ c.path \in Paths /\ c.path.index \in Indices
           /\ PathSize[c.path.index] \in Nat \ {0}
           /\ PathSize[c.path.index] + LengthSize <= FirstRoom
  <1>1. c \in [op : {"account", "transaction", "personal"}, path : Paths,
               message : Messages, from : Paths]
    BY CallsAssumption
  <1>2. c.message \in Messages /\ c.path \in Paths
    BY <1>1
  <1>3. c.path.index \in Indices
    BY <1>2 DEF Paths
  <1> QED
    BY <1>2, <1>3, MessagesAssumption, PathsAssumption

LEMMA ParsedPaths ==
    ASSUME NEW p \in Paths
    PROVE  Parsed(p) \subseteq Paths
  BY DEF Parsed, Paths

\* A package holds a part of its message, and the one at its first byte starts it.
LEMMA PackageFits ==
    ASSUME NEW c \in Calls, NEW p \in Paths, NEW at \in 0..LengthOf[c.message]
    PROVE  /\ PackageEnd(c, at) \in Nat
           /\ at <= PackageEnd(c, at) /\ PackageEnd(c, at) <= LengthOf[c.message]
           /\ Package(c, p, at) \in Packages
           /\ StartsMessage(c, 0)
  <1> DEFINE size == PathSize[c.path.index]
             long == LengthOf[c.message]
             header == Header(c)
             room == Limit - (IF StartsMessage(c, at) THEN header ELSE 0)
  <1>1. /\ size \in Nat \ {0} /\ long \in Nat /\ size + LengthSize <= FirstRoom
        /\ FirstRoom \in Nat /\ SecondRoom \in Nat /\ ThirdRoom \in Nat /\ LengthSize \in Nat
        /\ SecondRoom + ThirdRoom > 0
    BY CallTypes, RoomsAssumption, PathsAssumption
  <1>2. header \in Nat /\ header <= FirstRoom
    BY <1>1 DEF Header
  <1>3. Limit \in Nat /\ header <= Limit /\ size < Limit
    BY <1>1, <1>2 DEF Limit
  <1>4. room \in Nat
    <2> HIDE DEF header
    <2> QED  BY <1>2, <1>3
  <1>5. PackageEnd(c, at) = Smaller(at + room, long)
    BY DEF PackageEnd
  <1> HIDE DEF size, long, header, room
  <1>6. at \in Nat /\ at <= long
    BY <1>1 DEF long
  <1>7. Smaller(at + room, long) \in Nat /\ at <= Smaller(at + room, long)
        /\ Smaller(at + room, long) <= long
    BY <1>1, <1>4, <1>6 DEF Smaller
  <1>8. StartsMessage(c, at) \in BOOLEAN
    BY DEF StartsMessage
  <1>9. Package(c, p, at) \in Packages
    BY <1>5, <1>6, <1>7, <1>8 DEF Package, Packages
  <1>10. StartsMessage(c, 0)
    BY <1>1, <1>3 DEF StartsMessage, size
  <1> QED
    BY <1>5, <1>7, <1>9, <1>10 DEF long

LEMMA FrameForms ==
    /\ \A p \in Paths : AddressAnswer(p) \in Seq(Frames)
    /\ \A h \in Holdings : SignatureAnswer(h) \in Seq(Frames)
    /\ \A status \in {"ok", "refused"} : <<StatusFrame(status)>> \in Seq(Frames)
  <1>1. ASSUME NEW p \in Paths PROVE AddressAnswer(p) \in Seq(Frames)
    <2>1. \A part \in 1..3 : AddressFrame(p, part) \in Frames
      BY DEF AddressFrame, Frames
    <2> QED  BY <2>1 DEF AddressAnswer
  <1>2. ASSUME NEW h \in Holdings PROVE SignatureAnswer(h) \in Seq(Frames)
    <2>1. h.call \in Calls /\ h.path \in Paths
      BY DEF Holdings
    <2>2. \A part \in 1..2 : SignatureFrame(h.call, h.path, part) \in Frames
      BY <2>1 DEF SignatureFrame, Frames
    <2> QED  BY <2>2 DEF SignatureAnswer
  <1>3. \A status \in {"ok", "refused"} : StatusFrame(status) \in Frames
    BY DEF StatusFrame, Frames
  <1> QED  BY <1>1, <1>2, <1>3

\* What a device has while it asks is a holding, not nothing.
LEMMA AskingHolds ==
    ASSUME TypeOK, device.asking
    PROVE  device \in Holdings /\ device # Free
  <1>1. ~Free.asking
    BY DEF Free
  <1> QED  BY <1>1 DEF TypeOK

LEMMA InitTypes == Init => TypeOK
  <1> SUFFICES ASSUME Init PROVE TypeOK
    OBVIOUS
  <1>1. LengthOf[call.message] \in Nat
    BY CallTypes DEF Init
  <1>2. result.kind = "none"
    BY DEF Init
  <1>3. pc = "idle" /\ phase = "check" /\ cursor = 0
    BY DEF Init
  <1>4. received \in Seq(Frames) /\ wire \in Seq(Frames)
    BY DEF Init
  <1>5. pending \in Apdus \union {None} /\ device \in Holdings \union {Free}
    BY DEF Init
  <1>6. plugged \in BOOLEAN /\ doubt \in BOOLEAN /\ call \in Calls
    BY DEF Init
  <1> QED  BY <1>1, <1>2, <1>3, <1>4, <1>5, <1>6 DEF TypeOK

\* What ends or begins a call or an exchange leaves cursor at 0.
LEMMA ReturnTypes ==
    ASSUME TypeOK, NEW outcome, Return(outcome), UNCHANGED usb,
           outcome.kind \in {"none", "failed", "threw", "added", "signed"}
    PROVE  TypeOK'
  <1>1. LengthOf[call.message] \in Nat
    BY CallTypes DEF TypeOK
  <1> QED  BY <1>1 DEF TypeOK, Return, usb

LEMMA ExchangeTypes ==
    ASSUME TypeOK, NEW next \in {"check", "address", "sign"}, Exchange(next), call' \in Calls,
           doubt' \in BOOLEAN, UNCHANGED usb,
           result'.kind \in {"none", "failed", "threw", "added", "signed"}
    PROVE  TypeOK'
  <1>1. LengthOf[call'.message] \in Nat
    BY CallTypes
  <1> QED  BY <1>1 DEF TypeOK, Exchange, usb

LEMMA UnreadBoolean == ASSUME TypeOK PROVE Unread \in BOOLEAN
  BY DEF TypeOK, Unread

LEMMA HostTypes == TypeOK /\ HostStep => TypeOK'
  <1> SUFFICES ASSUME TypeOK, HostStep PROVE TypeOK'
    OBVIOUS
  <1>0. LengthOf[call.message] \in Nat /\ call \in Calls /\ cursor \in 0..LengthOf[call.message]
    BY CallTypes DEF TypeOK
  <1>1. CASE OpenFails
    BY <1>1 DEF OpenFails, TypeOK, usb
  <1>2. CASE NothingToWrite
    BY <1>2 DEF NothingToWrite, TypeOK, usb
  <1>3. CASE WriteAddressRequest
    <2>1. \A p \in Paths : AddressRequest(p) \in Apdus
      BY DEF AddressRequest, Apdus, AddressRequests
    <2>2. Default \in Paths /\ call.path \in Paths
      BY <1>0, CallTypes, PathsAssumption
    <2>3. pending' \in Apdus \union {None}
      BY <1>3, <2>1, <2>2, ParsedPaths DEF WriteAddressRequest
    <2> QED  BY <1>3, <2>3 DEF WriteAddressRequest, TypeOK
  <1>4. CASE WritePackage
    <2>1. PICK p \in Parsed(call.path) : pending' = IF plugged THEN Package(call, p, cursor) ELSE None
      BY <1>4 DEF WritePackage
    <2>2. p \in Paths
      BY <1>0, CallTypes, ParsedPaths
    <2>3. Package(call, p, cursor) \in Apdus /\ PackageEnd(call, cursor) \in 0..LengthOf[call.message]
      BY <1>0, <2>2, PackageFits DEF Apdus
    <2>4. pending' \in Apdus \union {None}
      BY <2>1, <2>3
    <2> QED  BY <1>4, <2>3, <2>4 DEF WritePackage, TypeOK
  <1>5. CASE ReadFirst
    BY <1>5 DEF ReadFirst, TypeOK
  <1>6. CASE ReadMore
    BY <1>6 DEF ReadMore, TypeOK
  <1>7. CASE TimesOut
    BY <1>7, UnreadBoolean DEF TimesOut, TypeOK, usb
  <1>8. CASE ReadFails
    BY <1>8 DEF ReadFails, TypeOK, usb
  <1>9. CASE Spin
    BY <1>9 DEF Spin, TypeOK, vars, host, usb
  <1>10. CASE DecodeCheck
    <2>1. CASE Len(received) > 1
      BY <1>10, <2>1, ExchangeTypes DEF DecodeCheck, TypeOK
    <2>2. CASE ~(Len(received) > 1)
      BY <1>10, <2>2, ReturnTypes DEF DecodeCheck, Fail
    <2> QED  BY <2>1, <2>2
  <1>11. CASE NoAddress
    BY <1>11, ReturnTypes DEF NoAddress, Fail
  <1>12. CASE AddAccount
    BY <1>12, ReturnTypes DEF AddAccount
  <1>13. CASE CheckSender
    <2>1. CASE call.op = "personal" \/ AddressIn(received) = call.from
      BY <1>13, <2>1, ExchangeTypes DEF CheckSender, TypeOK
    <2>2. CASE ~(call.op = "personal" \/ AddressIn(received) = call.from)
      <3>1. PICK how \in {"threw", "failed"} : Fail(how)
        BY <1>13, <2>2 DEF CheckSender
      <3> QED  BY <1>13, <3>1, ReturnTypes DEF CheckSender, Fail
    <2> QED  BY <2>1, <2>2
  <1>14. CASE DecodeSign
    <2>1. PICK s : IF s = None THEN Fail("failed")
                   ELSE Return([kind |-> "signed", signature |-> s, outside |-> Len(received) < 2])
      BY <1>14 DEF DecodeSign
    <2>2. CASE s = None
      BY <1>14, <2>1, <2>2, ReturnTypes DEF DecodeSign, Fail
    <2>3. CASE s # None
      BY <1>14, <2>1, <2>3, ReturnTypes DEF DecodeSign
    <2> QED  BY <2>2, <2>3
  <1> QED
    BY <1>1, <1>2, <1>3, <1>4, <1>5, <1>6, <1>7, <1>8, <1>9, <1>10, <1>11, <1>12, <1>13, <1>14
       DEF HostStep

\* What DeviceAppend makes of the device.
Appended ==
    IF pending.fresh
      THEN [Free EXCEPT !.call = pending.call, !.path = pending.path,
                        !.from = pending.from, !.upto = pending.to]
      ELSE [device EXCEPT !.upto = @ + (pending.to - pending.from),
                          !.spoiled = @ \/ pending.call # device.call
                                        \/ pending.from # device.upto]

\* A package that a device which may append it appends makes a part of the package's message
\* that ends where the package ends.
LEMMA AppendFollows ==
    ASSUME TypeOK, PartsFit, PartsFollow, pending \in Packages, ~device.asking,
           pending.fresh \/ device # Free
    PROVE  /\ Appended \in Holdings /\ ~Appended.asking /\ ~Appended.spoiled
           /\ Appended.call = pending.call /\ Appended.upto = pending.to
           /\ Appended.from <= Appended.upto
           /\ Appended.upto <= LengthOf[Appended.call.message]
           /\ Appended.path \in Parsed(Appended.call.path)
  <1>1. /\ pending.call \in Calls /\ pending.path \in Paths /\ pending.from \in Nat
        /\ pending.to \in Nat /\ pending.fresh \in BOOLEAN
        /\ pending.from <= pending.to /\ pending.to <= LengthOf[pending.call.message]
        /\ pending.path \in Parsed(pending.call.path)
    BY DEF Packages, PartsFit
  <1>2. CASE pending.fresh
    <2>1. Appended = [asking |-> FALSE, call |-> pending.call, path |-> pending.path,
                      from |-> pending.from, upto |-> pending.to, spoiled |-> FALSE]
      BY <1>2 DEF Appended, Free
    <2> QED  BY <1>1, <2>1 DEF Holdings
  <1>3. CASE ~pending.fresh
    <2>1. /\ device \in Holdings /\ device.from <= device.upto
          /\ device.path \in Parsed(device.call.path) /\ ~device.spoiled
          /\ pending.call = device.call /\ pending.from = device.upto
      BY <1>3 DEF TypeOK, PartsFit, PartsFollow
    <2>2. /\ device.call \in Calls /\ device.path \in Paths /\ device.from \in Nat
          /\ device.upto \in Nat
      BY <2>1 DEF Holdings
    <2>3. device.upto + (pending.to - pending.from) = pending.to
      BY <1>1, <2>1, <2>2
    <2>4. Appended = [device EXCEPT !.upto = pending.to, !.spoiled = FALSE]
      BY <1>3, <2>1, <2>3 DEF Appended, Holdings
    <2>5. Appended = [asking |-> FALSE, call |-> device.call, path |-> device.path,
                      from |-> device.from, upto |-> pending.to, spoiled |-> FALSE]
      BY <2>1, <2>4 DEF Holdings
    <2> QED  BY <1>1, <2>1, <2>2, <2>5 DEF Holdings
  <1> QED  BY <1>2, <1>3

LEMMA AppendSteps ==
    ASSUME TypeOK, DeviceAppend
    PROVE  /\ pending \in Packages /\ ~device.asking /\ (pending.fresh \/ device # Free)
           /\ pending' = None /\ UNCHANGED <<host, plugged>>
           /\ IF Appended.upto - Appended.from = LengthOf[Appended.call.message]
                THEN device' = [Appended EXCEPT !.asking = TRUE] /\ wire' = wire
                ELSE device' = Appended /\ wire' = wire \o <<StatusFrame("ok")>>
  <1>1. pending \in Packages
    BY DEF DeviceAppend, TypeOK, Apdus, AddressRequests
  <1>2. IF Appended.upto - Appended.from = LengthOf[Appended.call.message]
          THEN device' = [Appended EXCEPT !.asking = TRUE] /\ UNCHANGED <<host, wire, plugged>>
          ELSE device' = Appended /\ Answer(<<StatusFrame("ok")>>)
    BY DEF DeviceAppend, Appended
  <1> QED  BY <1>1, <1>2 DEF DeviceAppend, Answer

LEMMA DeviceTypes ==
    ASSUME TypeOK, PartsFit, PartsFollow, DeviceStep \/ Unplug \/ Lose \/ Plug
    PROVE  TypeOK'
  <1>1. CASE DeviceAddress
    <2>1. pending \in AddressRequests
      BY <1>1 DEF DeviceAddress, TypeOK, Apdus, Packages
    <2>2. wire' \in Seq(Frames)
      BY <1>1, <2>1, FrameForms DEF DeviceAddress, Answer, TypeOK, AddressRequests
    <2> QED  BY <1>1, <2>2 DEF DeviceAddress, Answer, TypeOK, host
  <1>2. CASE DeviceAppend
    <2>1. Appended \in Holdings
      <3>1. pending \in Packages /\ ~device.asking /\ (pending.fresh \/ device # Free)
        BY <1>2, AppendSteps
      <3> QED  BY <3>1, AppendFollows
    <2>2. device' \in Holdings
      <3>1. [Appended EXCEPT !.asking = TRUE] \in Holdings
        BY <2>1 DEF Holdings
      <3> QED  BY <1>2, <2>1, <3>1, AppendSteps
    <2>3. wire' \in Seq(Frames)
      <3>1. wire \in Seq(Frames) /\ <<StatusFrame("ok")>> \in Seq(Frames)
        BY FrameForms, Zenon DEF TypeOK
      <3>2. wire' = wire \/ wire' = wire \o <<StatusFrame("ok")>>
        BY <1>2, AppendSteps
      <3> QED  BY <3>1, <3>2
    <2>4. pending' = None /\ UNCHANGED <<host, plugged>>
      BY <1>2, AppendSteps
    <2> QED  BY <2>2, <2>3, <2>4 DEF TypeOK, host
  <1>3. CASE DeviceRefuses
    <2>1. wire' \in Seq(Frames)
      <3>1. wire \in Seq(Frames) /\ <<StatusFrame("refused")>> \in Seq(Frames)
        BY FrameForms, Zenon DEF TypeOK
      <3>2. wire' = wire \o <<StatusFrame("refused")>>
        BY <1>3 DEF DeviceRefuses, Answer
      <3> QED  BY <3>1, <3>2
    <2>2. pending' = None /\ device' = Free /\ UNCHANGED <<host, plugged>>
      BY <1>3 DEF DeviceRefuses, Answer
    <2> QED  BY <2>1, <2>2 DEF TypeOK, host
  <1>4. CASE UserConfirms
    <2>1. wire' \in Seq(Frames)
      BY <1>4, AskingHolds, FrameForms DEF UserConfirms, Answer, TypeOK
    <2> QED  BY <1>4, <2>1 DEF UserConfirms, Answer, TypeOK, host
  <1>5. CASE UserRefuses
    BY <1>5, FrameForms DEF UserRefuses, Answer, TypeOK, host
  <1>6. CASE Unplug
    <2>1. wire' \in Seq(Frames)
      BY <1>6 DEF Unplug
    <2>2. plugged' \in BOOLEAN
      BY <1>6, Zenon DEF Unplug
    <2> QED  BY <1>6, <2>1, <2>2 DEF Unplug, TypeOK, host
  <1>7. CASE Lose
    BY <1>7 DEF Lose, TypeOK, host
  <1>8. CASE Plug
    BY <1>8 DEF Plug, TypeOK, host
  <1> QED
    BY <1>1, <1>2, <1>3, <1>4, <1>5, <1>6, <1>7, <1>8 DEF DeviceStep

----------------------------------------------------------------------------
LEMMA InitAsked == Init => AskedInv
  <1> SUFFICES ASSUME Init PROVE AskedInv
    OBVIOUS
  <1>1. pending = None /\ device = Free /\ cursor = 0 /\ ~Free.asking /\ ~Free.spoiled
    BY DEF Init, Free
  <1>2. pending \notin Packages
    BY <1>1, NoneAssumption DEF Apdus
  <1>3. TypeOK
    BY InitTypes
  <1> QED
    BY <1>1, <1>2, <1>3 DEF AskedInv, PartsFit, PartsFollow, SentSoFar, Unplugged, AsksWhatWasPassed

\* A step that leaves the device and what it was sent, and either starts a message over or
\* goes on where it is.
LEMMA HostKeeps ==
    ASSUME AskedInv, TypeOK', UNCHANGED <<pending, device>>, ~plugged' => ~plugged,
           cursor' = 0 \/ UNCHANGED <<call, phase, cursor>>
    PROVE  AskedInv'
  <1>1. PartsFit' /\ PartsFollow' /\ AsksWhatWasPassed' /\ Unplugged'
    BY DEF AskedInv, PartsFit, PartsFollow, AsksWhatWasPassed, Unplugged
  <1>2. SentSoFar'
    BY DEF AskedInv, SentSoFar
  <1> QED  BY <1>1, <1>2 DEF AskedInv

\* A step after which the device has nothing.
LEMMA FreeKeeps ==
    ASSUME AskedInv, TypeOK', device' = Free, pending' \in {None, pending}, 
           ~plugged' => pending' = None, UNCHANGED <<call, phase, cursor>>
    PROVE  AskedInv'
  <1>1. ~Free.asking /\ ~Free.spoiled
    BY DEF Free
  <1>2. None \notin Packages
    BY NoneAssumption DEF Apdus
  <1>3. PartsFit' /\ PartsFollow' /\ AsksWhatWasPassed' /\ Unplugged'
    BY <1>1, <1>2 DEF AskedInv, PartsFit, PartsFollow, AsksWhatWasPassed, Unplugged
  <1>4. SentSoFar'
    BY <1>1 DEF AskedInv, SentSoFar
  <1> QED  BY <1>3, <1>4 DEF AskedInv

LEMMA WriteKeepsAsked ==
    ASSUME AskedInv, TypeOK', WritePackage
    PROVE  AskedInv'
  <1>1. /\ phase = "sign" /\ cursor < LengthOf[call.message] /\ UNCHANGED <<call, phase, device, plugged>>
        /\ cursor' = PackageEnd(call, cursor)
        /\ plugged => pending = None /\ ~device.asking
    BY DEF WritePackage
  <1>2. PICK p \in Parsed(call.path) : pending' = IF plugged THEN Package(call, p, cursor) ELSE None
    BY DEF WritePackage
  <1>3. call \in Calls /\ cursor \in 0..LengthOf[call.message] /\ p \in Paths
    BY CallTypes, ParsedPaths DEF AskedInv, TypeOK
  <1> DEFINE package == Package(call, p, cursor)
  <1>4. /\ package \in Packages /\ PackageEnd(call, cursor) \in Nat
        /\ cursor <= PackageEnd(call, cursor) /\ PackageEnd(call, cursor) <= LengthOf[call.message]
        /\ StartsMessage(call, 0)
    BY <1>3, PackageFits
  <1>5. /\ package.call = call /\ package.path = p /\ package.from = cursor
        /\ package.to = PackageEnd(call, cursor) /\ package.fresh = StartsMessage(call, cursor)
    BY DEF Package
  <1>6. None \notin Packages
    BY NoneAssumption DEF Apdus
  <1> HIDE DEF package
  <1>7. CASE ~plugged
    <2>1. pending' = None /\ device = Free
      BY <1>2, <1>7 DEF AskedInv, Unplugged
    <2>2. PartsFit' /\ PartsFollow' /\ AsksWhatWasPassed' /\ Unplugged'
      BY <1>1, <1>6, <2>1 DEF AskedInv, PartsFit, PartsFollow, AsksWhatWasPassed, Unplugged
    <2>3. SentSoFar'
      BY <1>1, <2>1 DEF SentSoFar
    <2> QED  BY <2>2, <2>3 DEF AskedInv
  <1>8. CASE plugged
    <2>1. pending' = package /\ pending = None /\ ~device.asking
      BY <1>1, <1>2, <1>8 DEF package
    <2>2. PartsFit'
      BY <1>1, <1>2, <1>4, <1>5, <2>1 DEF AskedInv, PartsFit
    <2>3. ~package.fresh /\ device # Free => call = device.call /\ cursor = device.upto
      BY <1>1, <1>3, <1>4, <1>5, <2>1 DEF AskedInv, SentSoFar
    <2>4. PartsFollow'
      BY <1>1, <1>5, <2>1, <2>3 DEF AskedInv, PartsFollow
    <2>5. SentSoFar'
      BY <1>1, <1>4, <1>5, <1>6, <2>1 DEF SentSoFar
    <2>6. AsksWhatWasPassed' /\ Unplugged'
      BY <1>1, <1>8, <2>1 DEF AsksWhatWasPassed, Unplugged
    <2> QED  BY <2>2, <2>4, <2>5, <2>6 DEF AskedInv
  <1> QED  BY <1>7, <1>8

LEMMA AppendKeepsAsked ==
    ASSUME AskedInv, TypeOK', DeviceAppend
    PROVE  AskedInv'
  <1>1. /\ pending \in Packages /\ ~device.asking /\ (pending.fresh \/ device # Free)
        /\ pending' = None /\ UNCHANGED <<call, phase, cursor, plugged>>
    BY AppendSteps DEF AskedInv, host
  <1>2. /\ Appended \in Holdings /\ ~Appended.asking /\ ~Appended.spoiled
        /\ Appended.call = pending.call /\ Appended.upto = pending.to
        /\ Appended.from <= Appended.upto
        /\ Appended.upto <= LengthOf[Appended.call.message]
        /\ Appended.path \in Parsed(Appended.call.path)
    BY <1>1, AppendFollows DEF AskedInv
  <1>3. None \notin Packages
    BY NoneAssumption DEF Apdus
  <1>4. /\ device'.from = Appended.from /\ device'.upto = Appended.upto
        /\ device'.path = Appended.path /\ device'.call = Appended.call
        /\ ~device'.spoiled
        /\ device'.asking => Appended.upto - Appended.from = LengthOf[Appended.call.message]
    <2>1. CASE Appended.upto - Appended.from = LengthOf[Appended.call.message]
      <3>1. device' = [Appended EXCEPT !.asking = TRUE]
        BY <2>1, AppendSteps DEF AskedInv
      <3> QED  BY <1>2, <2>1, <3>1 DEF Holdings
    <2>2. CASE ~(Appended.upto - Appended.from = LengthOf[Appended.call.message])
      <3>1. device' = Appended
        BY <2>2, AppendSteps DEF AskedInv
      <3> QED  BY <1>2, <3>1
    <2> QED  BY <2>1, <2>2
  <1>5. PartsFit'
    BY <1>1, <1>2, <1>3, <1>4 DEF PartsFit
  <1>6. PartsFollow'
    BY <1>1, <1>3, <1>4 DEF PartsFollow
  <1>7. SentSoFar'
    BY <1>1, <1>2, <1>3, <1>4 DEF AskedInv, SentSoFar
  <1>8. Unplugged'
    BY <1>1, <1>3 DEF AskedInv, Unplugged
  <1>9. AsksWhatWasPassed'
    <2>1. /\ Appended.from \in Nat /\ Appended.upto \in Nat
          /\ LengthOf[Appended.call.message] \in Nat
      BY <1>2, CallTypes DEF Holdings
    <2>2. device'.asking => Appended.from = 0 /\ Appended.upto = LengthOf[Appended.call.message]
      BY <1>2, <1>4, <2>1
    <2> QED  BY <1>2, <1>4, <2>2 DEF AsksWhatWasPassed
  <1> QED  BY <1>5, <1>6, <1>7, <1>8, <1>9 DEF AskedInv

LEMMA HostKeepsAsked ==
    ASSUME AskedInv, HostStep
    PROVE  AskedInv'
  <1>1. TypeOK'
    BY HostTypes DEF AskedInv
  <1>2. CASE OpenFails \/ NothingToWrite \/ ReadFirst \/ ReadMore \/ TimesOut \/ ReadFails \/ Spin
    <2>1. UNCHANGED <<pending, device, plugged, call, phase, cursor>>
      BY <1>2 DEF OpenFails, NothingToWrite, ReadFirst, ReadMore, TimesOut, ReadFails, Spin, vars,
                  host, usb
    <2> QED  BY <1>1, <2>1, HostKeeps
  <1>3. CASE DecodeCheck \/ NoAddress \/ AddAccount \/ CheckSender \/ DecodeSign
    <2>1. cursor' = 0 /\ UNCHANGED <<pending, device, plugged>>
      BY <1>3 DEF DecodeCheck, NoAddress, AddAccount, CheckSender, DecodeSign, Exchange, Fail,
                  Return, usb
    <2> QED  BY <1>1, <2>1, HostKeeps
  <1>4. CASE WritePackage
    BY <1>1, <1>4, WriteKeepsAsked
  <1>5. CASE WriteAddressRequest
    <2>1. /\ phase # "sign" /\ UNCHANGED <<call, phase, cursor, device, plugged>>
          /\ pending' = None \/ (plugged /\ pending'.ins = "address")
      BY <1>5 DEF WriteAddressRequest, AddressRequest
    <2>2. pending' \notin Packages
      BY <2>1, NoneAssumption DEF Apdus, Packages
    <2>3. PartsFit' /\ PartsFollow' /\ SentSoFar' /\ AsksWhatWasPassed'
      BY <2>1, <2>2 DEF AskedInv, PartsFit, PartsFollow, SentSoFar, AsksWhatWasPassed
    <2>4. Unplugged'
      BY <2>1 DEF AskedInv, Unplugged
    <2> QED  BY <1>1, <2>3, <2>4 DEF AskedInv
  <1> QED
    BY <1>2, <1>3, <1>4, <1>5 DEF HostStep

LEMMA NextKeepsAsked == AskedInv /\ [Next]_vars => AskedInv'
  <1> SUFFICES ASSUME AskedInv, [Next]_vars PROVE AskedInv'
    OBVIOUS
  <1>1. CASE HostStep
    BY <1>1, HostKeepsAsked
  <1>2. ASSUME NEW c \in Calls, Begin(c) PROVE AskedInv'
    <2>1. doubt' \in BOOLEAN /\ result'.kind = "none" /\ call' \in Calls
      BY <1>2, UnreadBoolean DEF Begin, AskedInv
    <2>2. TypeOK'
      BY <1>2, <2>1, ExchangeTypes DEF Begin, AskedInv
    <2>3. cursor' = 0 /\ UNCHANGED <<pending, device, plugged>>
      BY <1>2 DEF Begin, Exchange, usb
    <2> QED  BY <2>2, <2>3, HostKeeps
  <1>3. CASE NotFound
    <2>1. TypeOK'
      BY <1>3, ReturnTypes DEF NotFound, Fail, AskedInv
    <2>2. cursor' = 0 /\ UNCHANGED <<pending, device, plugged>>
      BY <1>3 DEF NotFound, Fail, Return, usb
    <2> QED  BY <2>1, <2>2, HostKeeps
  <1>4. CASE DeviceStep \/ Unplug \/ Lose \/ Plug
    <2>0. TypeOK'
      BY <1>4, DeviceTypes DEF AskedInv
    <2>1. CASE DeviceAppend
      BY <2>0, <2>1, AppendKeepsAsked
    <2>2. CASE DeviceAddress
      <3>1. /\ pending' = None /\ pending \notin Packages /\ pending # None
            /\ UNCHANGED <<call, phase, cursor, device, plugged>>
        BY <2>2 DEF DeviceAddress, Answer, host, Packages
      <3>2. None \notin Packages
        BY NoneAssumption DEF Apdus
      <3>3. PartsFit' /\ PartsFollow' /\ SentSoFar' /\ AsksWhatWasPassed' /\ Unplugged'
        BY <3>1, <3>2 DEF AskedInv, PartsFit, PartsFollow, SentSoFar, AsksWhatWasPassed, Unplugged
      <3> QED  BY <2>0, <3>3 DEF AskedInv
    <2>3. CASE DeviceRefuses \/ UserConfirms \/ UserRefuses \/ Unplug
      <3>1. device' = Free /\ pending' \in {None, pending} /\ UNCHANGED <<call, phase, cursor>>
        BY <2>3 DEF DeviceRefuses, UserConfirms, UserRefuses, Unplug, Answer, host
      <3>2. pending' = None \/ (pending' = pending /\ plugged' = plugged)
        BY <2>3 DEF DeviceRefuses, UserConfirms, UserRefuses, Unplug, Answer
      <3>3. ~plugged' => pending' = None
        BY <3>2 DEF AskedInv, Unplugged
      <3> QED  BY <2>0, <3>1, <3>3, FreeKeeps
    <2>4. CASE Lose
      <3>1. UNCHANGED <<pending, device, plugged, call, phase, cursor>>
        BY <2>4 DEF Lose, host
      <3> QED  BY <2>0, <3>1, HostKeeps
    <2>5. CASE Plug
      <3>1. UNCHANGED <<pending, device, call, phase, cursor>> /\ plugged'
        BY <2>5 DEF Plug, host
      <3> QED  BY <2>0, <3>1, HostKeeps
    <2> QED  BY <1>4, <2>1, <2>2, <2>3, <2>4, <2>5 DEF DeviceStep
  <1>5. CASE UNCHANGED vars
    <2>1. TypeOK'
      BY <1>5 DEF AskedInv, TypeOK, vars, host, usb
    <2> QED  BY <1>5, <2>1, HostKeeps DEF vars, host, usb
  <1> QED
    BY <1>1, <1>2, <1>3, <1>4, <1>5 DEF Next

LEMMA AskedInvAlways == Spec => []AskedInv
  BY InitAsked, NextKeepsAsked, PTL DEF Spec

\* The exchange, the frames and the device keep their types, for any calls and sizes; the
\* host never packs more of a message than there is.
THEOREM TypeCorrect == Spec => []TypeOK
  <1>1. AskedInv => TypeOK
    BY DEF AskedInv
  <1> QED  BY <1>1, AskedInvAlways, PTL

\* The user is only asked to confirm whole messages as they were passed, for any calls,
\* sizes of messages and paths, rooms in the frames, and however many answers come late.
THEOREM AskedAlways == Spec => []AsksWhatWasPassed
  <1>1. AskedInv => AsksWhatWasPassed
    BY DEF AskedInv
  <1> QED  BY <1>1, AskedInvAlways, PTL

----------------------------------------------------------------------------
(* Answers out of turn.                                                    *)

Quiet == wire = <<>> /\ pending = None /\ ~device.asking

AllOk(frames) == \A i \in 1..Len(frames) : frames[i].kind = "ok"

Target == IF phase = "check" THEN Default ELSE call.path

\* The answers an exchange may get, and those that are no error.
GoodAnswers ==
    IF phase # "sign" THEN {AddressAnswer(p) : p \in Parsed(Target)}
    ELSE {<<StatusFrame("ok")>>}
         \union {SignatureAnswer([call |-> call, path |-> p]) :
                   p \in {q \in Parsed(call.path) : cursor = LengthOf[call.message]}}

Answers == GoodAnswers \union {<<StatusFrame("refused")>>}

\* What was read of earlier packages of the exchange.
ReadBefore == AllOk(received) /\ (phase # "sign" => received = <<>>)

\* The device has yet to answer this exchange's APDU.
Awaited ==
    /\ wire = <<>>
    /\ \/ phase # "sign" /\ ~device.asking /\ pending \in AddressRequests
          /\ pending.path \in Parsed(Target)
       \/ phase = "sign" /\ ~device.asking /\ pending \in Packages
          /\ pending.call = call /\ pending.to = cursor
       \/ phase = "sign" /\ device.asking /\ pending = None
          /\ device.call = call /\ device.upto = cursor

Answered == pending = None /\ ~device.asking /\ wire \in Answers

\* n frames of an answer were read, the others wait.
PartlyRead(answer, n) ==
    /\ n \in 1..Len(answer) /\ n <= Len(received)
    /\ phase # "sign" => Len(received) = n
    /\ Len(wire) = Len(answer) - n
    /\ \A i \in 1..(Len(received) - n) : received[i].kind = "ok"
    /\ \A i \in 1..n : received[Len(received) - n + i] = answer[i]
    /\ \A i \in 1..Len(wire) : wire[i] = answer[n + i]

\* decodeBip32Message and decodeSignEthMessage find what they look for.
Decodable ==
    /\ phase # "sign" /\ Len(received) > 1 =>
          \E p \in Parsed(Target) : received[2] = AddressFrame(p, 2)
    /\ phase = "sign" /\ Len(received) > 1 =>
          \/ received[Len(received) - 1].kind = "ok"
          \/ \E p \in Parsed(call.path) :
                /\ received[Len(received) - 1] = SignatureFrame(call, p, 1)
                /\ received[Len(received)] = SignatureFrame(call, p, 2)

\* As long as no answer was left to a later exchange, what is waited for, waits or was read
\* belongs to the exchange under way.
InTurn ==
    ~doubt =>
        /\ pc = "write" => Quiet /\ ReadBefore
        /\ pc = "read" /\ plugged => ReadBefore /\ (Awaited \/ Answered)
        /\ pc = "more" /\ plugged =>
              /\ pending = None /\ ~device.asking
              /\ \E answer \in GoodAnswers : \E n \in 1..3 : PartlyRead(answer, n)
        /\ pc = "decode" => Quiet /\ Decodable

\* A transaction is only sent to be signed by the key of its sender.
SenderChecked ==
    ~doubt /\ phase = "sign" /\ call.op = "transaction" /\ call.path.hardened =>
        call.from = call.path

Silent == ~plugged => wire = <<>>

GenuineInv ==
    AskedInv /\ InTurn /\ SenderChecked /\ Silent /\ SignatureIsGenuine /\ AccountsAreTrue

\* What parsePath makes of a path that is hardened is the path.
LEMMA HardenedIsParsed ==
    ASSUME NEW p \in Paths, p.hardened, NEW q \in Parsed(p)
    PROVE  q = p
  <1>1. p = [index |-> p.index, hardened |-> p.hardened]
    BY DEF Paths
  <1>2. [p EXCEPT !.hardened = TRUE] = p
    BY <1>1 DEF Paths
  <1> QED  BY <1>2 DEF Parsed

\* What an answer that is no error looks like.
LEMMA GoodForms ==
    ASSUME NEW answer \in GoodAnswers
    PROVE  /\ answer[1].part = 1 /\ answer[1].kind # "refused"
           /\ phase # "sign" => Len(answer) = 3
                 /\ \E p \in Parsed(Target) : answer[2] = AddressFrame(p, 2)
           /\ phase = "sign" =>
                 \/ Len(answer) = 1 /\ answer[1].kind = "ok"
                 \/ /\ Len(answer) = 2 /\ cursor = LengthOf[call.message]
                    /\ \E p \in Parsed(call.path) :
                          /\ answer[1] = SignatureFrame(call, p, 1)
                          /\ answer[2] = SignatureFrame(call, p, 2)
  <1>1. CASE phase # "sign"
    <2>1. PICK p \in Parsed(Target) : answer = AddressAnswer(p)
      BY <1>1 DEF GoodAnswers
    <2>2. answer = <<AddressFrame(p, 1), AddressFrame(p, 2), AddressFrame(p, 3)>>
      BY <2>1 DEF AddressAnswer
    <2>3. AddressFrame(p, 1).part = 1 /\ AddressFrame(p, 1).kind = "address"
      BY DEF AddressFrame
    <2> QED  BY <1>1, <2>2, <2>3
  <1>2. CASE phase = "sign" /\ answer = <<StatusFrame("ok")>>
    <2>1. StatusFrame("ok").part = 1 /\ StatusFrame("ok").kind = "ok"
      BY DEF StatusFrame
    <2> QED  BY <1>2, <2>1
  <1>3. CASE phase = "sign" /\ answer # <<StatusFrame("ok")>>
    <2>1. PICK p \in Parsed(call.path) :
            answer = SignatureAnswer([call |-> call, path |-> p]) /\ cursor = LengthOf[call.message]
      BY <1>3 DEF GoodAnswers
    <2>2. answer = <<SignatureFrame(call, p, 1), SignatureFrame(call, p, 2)>>
      BY <2>1 DEF SignatureAnswer
    <2>3. SignatureFrame(call, p, 1).part = 1 /\ SignatureFrame(call, p, 1).kind = "signature"
      BY DEF SignatureFrame
    <2> QED  BY <1>3, <2>1, <2>2, <2>3
  <1> QED  BY <1>1, <1>2, <1>3

\* A step by which the host goes on packs, reads or waits does not touch what was returned.
LEMMA ResultKept ==
    ASSUME GenuineInv, UNCHANGED <<call, result>>, ~doubt' => ~doubt
    PROVE  SignatureIsGenuine' /\ AccountsAreTrue'
  BY DEF GenuineInv, SignatureIsGenuine, AccountsAreTrue

LEMMA DefaultIsPath == Default \in Paths
  BY PathsAssumption

LEMMA TargetIsPath == TypeOK => Target \in Paths
  <1> SUFFICES ASSUME TypeOK PROVE Target \in Paths
    OBVIOUS
  <1>1. call \in Calls
    BY DEF TypeOK
  <1> QED  BY <1>1, CallTypes, DefaultIsPath DEF Target

\* With only "ok" before, or nothing, both decoders find what they look for.
LEMMA OkDecodable ==
    ASSUME ReadBefore, received \in Seq(Frames)
    PROVE  Decodable
  BY DEF ReadBefore, AllOk, Decodable

LEMMA OpenKeeps ==
    ASSUME GenuineInv, OpenFails \/ NothingToWrite
    PROVE  InTurn' /\ SenderChecked' /\ Silent'
  <1>1. /\ pc = "write" /\ pc' = "decode"
        /\ UNCHANGED <<call, phase, cursor, received, result, doubt>>
        /\ UNCHANGED <<wire, pending, device, plugged>>
    BY DEF OpenFails, NothingToWrite, usb
  <1>2. ~doubt => Quiet /\ Decodable
    BY <1>1, OkDecodable DEF GenuineInv, AskedInv, TypeOK, InTurn
  <1>3. ~doubt' => Quiet' /\ Decodable'
    BY <1>1, <1>2 DEF Quiet, Decodable, Target
  <1> QED
    BY <1>1, <1>3 DEF GenuineInv, InTurn, SenderChecked, Silent

LEMMA WriteAddressKeeps ==
    ASSUME GenuineInv, WriteAddressRequest
    PROVE  InTurn' /\ SenderChecked' /\ Silent'
  <1>1. /\ pc = "write" /\ phase # "sign" /\ pc' = "read"
        /\ UNCHANGED <<call, phase, cursor, received, result, doubt, wire, device, plugged>>
    BY DEF WriteAddressRequest
  <1>2. PICK p \in Parsed(Target) : pending' = IF plugged THEN AddressRequest(p) ELSE None
    BY DEF WriteAddressRequest, Target
  <1>3. p \in Paths
    BY TargetIsPath, ParsedPaths DEF GenuineInv, AskedInv
  <1>4. AddressRequest(p) \in AddressRequests /\ AddressRequest(p).path = p
    BY <1>3 DEF AddressRequest, AddressRequests
  <1>5. ~doubt /\ plugged => Awaited' /\ ReadBefore'
    <2> SUFFICES ASSUME ~doubt, plugged PROVE Awaited' /\ ReadBefore'
      OBVIOUS
    <2>1. Quiet /\ ReadBefore
      BY <1>1 DEF GenuineInv, InTurn
    <2>2. ReadBefore'
      BY <1>1, <2>1 DEF ReadBefore, AllOk
    <2>3. pending' \in AddressRequests /\ pending'.path \in Parsed(Target)
      BY <1>2, <1>4
    <2>4. Awaited'
      BY <1>1, <2>1, <2>3 DEF Awaited, Quiet, Target
    <2> QED  BY <2>2, <2>4
  <1> QED
    BY <1>1, <1>5 DEF GenuineInv, InTurn, SenderChecked, Silent

LEMMA WritePackageKeeps ==
    ASSUME GenuineInv, WritePackage
    PROVE  InTurn' /\ SenderChecked' /\ Silent'
  <1>1. /\ pc = "write" /\ phase = "sign" /\ pc' = "read" /\ cursor' = PackageEnd(call, cursor)
        /\ UNCHANGED <<call, phase, received, result, doubt, wire, device, plugged>>
    BY DEF WritePackage
  <1>2. PICK p \in Parsed(call.path) : pending' = IF plugged THEN Package(call, p, cursor) ELSE None
    BY DEF WritePackage
  <1>3. call \in Calls /\ cursor \in 0..LengthOf[call.message] /\ p \in Paths
    BY CallTypes, ParsedPaths DEF GenuineInv, AskedInv, TypeOK
  <1>4. Package(call, p, cursor) \in Packages
    BY <1>3, PackageFits
  <1>5. /\ Package(call, p, cursor).call = call
        /\ Package(call, p, cursor).to = PackageEnd(call, cursor)
    BY DEF Package
  <1>6. ~doubt /\ plugged => Awaited' /\ ReadBefore'
    <2> SUFFICES ASSUME ~doubt, plugged PROVE Awaited' /\ ReadBefore'
      OBVIOUS
    <2>1. Quiet /\ ReadBefore
      BY <1>1 DEF GenuineInv, InTurn
    <2>2. ReadBefore'
      BY <1>1, <2>1 DEF ReadBefore, AllOk
    <2>3. pending' \in Packages /\ pending'.call = call /\ pending'.to = cursor'
      BY <1>1, <1>2, <1>4, <1>5
    <2>4. Awaited'
      BY <1>1, <2>1, <2>3 DEF Awaited, Quiet
    <2> QED  BY <2>2, <2>4
  <1> QED
    BY <1>1, <1>6 DEF GenuineInv, InTurn, SenderChecked, Silent

LEMMA ReadFirstKeeps ==
    ASSUME GenuineInv, ReadFirst
    PROVE  InTurn' /\ SenderChecked' /\ Silent'
  <1>1. /\ pc = "read" /\ wire # <<>> /\ received' = Append(received, Head(wire))
        /\ wire' = Tail(wire)
        /\ UNCHANGED <<call, phase, cursor, result, doubt, pending, device, plugged>>
    BY DEF ReadFirst
  <1>2. PICK e \in HasError(Head(wire)) : pc' = IF e THEN "decode" ELSE "more"
    BY DEF ReadFirst
  <1>3. plugged /\ received \in Seq(Frames) /\ wire \in Seq(Frames)
    BY <1>1 DEF GenuineInv, Silent, AskedInv, TypeOK
  <1>4. ASSUME ~doubt
        PROVE  /\ pc' = "more" => \E answer \in GoodAnswers : \E n \in 1..3 : PartlyRead(answer, n)'
               /\ pc' = "decode" => Quiet' /\ Decodable'
               /\ pending = None /\ ~device.asking
    <2>1. ReadBefore /\ pending = None /\ ~device.asking /\ wire \in Answers
      BY <1>1, <1>3, <1>4 DEF GenuineInv, InTurn, Awaited, Answered
    <2>2. CASE wire \in GoodAnswers
      <3>1. PICK answer \in GoodAnswers : answer = wire
        BY <2>2
      <3>2. answer[1].part = 1 /\ answer[1].kind # "refused" /\ Len(answer) \in 1..3
        BY GoodForms
      <3>3. pc' = "more"
        <4>1. Head(wire) = answer[1]
          BY <1>1, <1>3, <3>1
        <4>2. HasError(answer[1]) = {FALSE}
          BY <3>2 DEF HasError
        <4> QED  BY <1>2, <4>1, <4>2
      <3>4. Len(received') = Len(received) + 1 /\ received'[Len(received')] = answer[1]
        BY <1>1, <1>3, <3>1
      <3>5. \A i \in 1..Len(received) : received'[i].kind = "ok"
        BY <1>1, <1>3, <2>1 DEF ReadBefore, AllOk
      <3>6. phase # "sign" => Len(received') = 1
        BY <1>3, <2>1, <3>4 DEF ReadBefore
      <3>7. Len(wire') = Len(answer) - 1 /\ \A i \in 1..Len(wire') : wire'[i] = answer[1 + i]
        BY <1>1, <1>3, <3>1, <3>2
      <3>8. Len(received) \in Nat
        BY <1>3
      <3>9. PartlyRead(answer, 1)'
        BY <1>1, <3>2, <3>4, <3>5, <3>6, <3>7, <3>8 DEF PartlyRead
      <3> QED  BY <2>1, <3>3, <3>9
    <2>3. CASE wire = <<StatusFrame("refused")>>
      <3>1. /\ Head(wire) = StatusFrame("refused") /\ Tail(wire) = <<>>
            /\ StatusFrame("refused").kind = "refused"
        BY <2>3 DEF StatusFrame
      <3>2. pc' = "decode"
        BY <1>2, <3>1 DEF HasError
      <3>3. Quiet'
        BY <1>1, <2>1, <3>1 DEF Quiet
      <3>4. Decodable'
        BY <1>1, <1>3, <2>1, <3>1 DEF Decodable, ReadBefore, AllOk
      <3> QED  BY <2>1, <3>2, <3>3, <3>4
    <2> QED  BY <2>1, <2>2, <2>3 DEF Answers
  <1>5. InTurn'
    <2> SUFFICES ASSUME ~doubt' PROVE InTurn'
      BY DEF InTurn
    <2>1. GoodAnswers' = GoodAnswers
      BY <1>1 DEF GoodAnswers, Target
    <2> QED  BY <1>1, <1>2, <1>4, <2>1 DEF InTurn
  <1>6. Silent'
    BY <1>1, <1>3 DEF Silent
  <1> QED
    BY <1>1, <1>5, <1>6 DEF GenuineInv, SenderChecked

LEMMA ReadMoreKeeps ==
    ASSUME GenuineInv, ReadMore
    PROVE  InTurn' /\ SenderChecked' /\ Silent'
  <1>1. /\ pc = "more" /\ wire # <<>> /\ received' = Append(received, Head(wire))
        /\ wire' = Tail(wire)
        /\ UNCHANGED <<pc, call, phase, cursor, result, doubt, pending, device, plugged>>
    BY DEF ReadMore
  <1>2. plugged /\ received \in Seq(Frames) /\ wire \in Seq(Frames)
    BY <1>1 DEF GenuineInv, Silent, AskedInv, TypeOK
  <1>3. ASSUME ~doubt
        PROVE  /\ \E answer \in GoodAnswers : \E n \in 1..3 : PartlyRead(answer, n)'
               /\ pending = None /\ ~device.asking
    <2>1. pending = None /\ ~device.asking
      BY <1>1, <1>2, <1>3 DEF GenuineInv, InTurn
    <2>2. PICK answer \in GoodAnswers : \E n \in 1..3 : PartlyRead(answer, n)
      BY <1>1, <1>2, <1>3 DEF GenuineInv, InTurn
    <2>3. PICK n \in 1..3 : PartlyRead(answer, n)
      BY <2>2
    <2>4. Len(answer) \in 1..3
      BY GoodForms
    <2>5. /\ n <= Len(received) /\ (phase # "sign" => Len(received) = n)
          /\ Len(wire) = Len(answer) - n
          /\ \A i \in 1..(Len(received) - n) : received[i].kind = "ok"
          /\ \A i \in 1..n : received[Len(received) - n + i] = answer[i]
          /\ \A i \in 1..Len(wire) : wire[i] = answer[n + i]
      BY <2>3 DEF PartlyRead
    <2>6. /\ Len(wire) >= 1 /\ Len(received) \in Nat /\ Len(received') = Len(received) + 1
          /\ \A i \in 1..Len(received) : received'[i] = received[i]
          /\ received'[Len(received) + 1] = wire[1]
          /\ Len(wire') = Len(wire) - 1 /\ \A i \in 1..Len(wire') : wire'[i] = wire[i + 1]
      <3>1. Head(wire) = wire[1] /\ Len(wire) >= 1 /\ Len(wire) \in Nat
        BY <1>1, <1>2
      <3>2. Len(received) \in Nat /\ Len(received') = Len(received) + 1
            /\ received'[Len(received) + 1] = Head(wire)
        BY <1>1, <1>2
      <3>3. \A i \in 1..Len(received) : received'[i] = received[i]
        BY <1>1, <1>2
      <3>4. Len(wire') = Len(wire) - 1
        BY <1>1, <1>2, <3>1
      <3>5. \A i \in 1..Len(wire') : wire'[i] = wire[i + 1]
        BY <1>1, <1>2, <3>1, <3>4
      <3> QED  BY <3>1, <3>2, <3>3, <3>4, <3>5
    <2>7. n + 1 \in 1..Len(answer) /\ n + 1 \in 1..3
      <3>1. Len(wire) = Len(answer) - n /\ Len(wire) >= 1
        BY <2>5, <2>6
      <3> QED  BY <2>4, <3>1
    <2>8. ASSUME NEW i \in 1..(Len(received') - (n + 1)) PROVE received'[i].kind = "ok"
      <3>1. i \in 1..(Len(received) - n) /\ i \in 1..Len(received)
        BY <2>5, <2>6
      <3> QED  BY <2>5, <2>6, <3>1, Zenon
    <2>9. ASSUME NEW i \in 1..(n + 1)
          PROVE  received'[Len(received') - (n + 1) + i] = answer[i]
      <3>1. Len(received') - (n + 1) + i = Len(received) - n + i
        BY <2>6
      <3>2. CASE i = n + 1
        <4>1. Len(received) - n + i = Len(received) + 1
          BY <2>6, <3>2
        <4>2. wire[1] = answer[n + 1]
          BY <2>5, <2>6
        <4> QED  BY <2>6, <3>1, <3>2, <4>1, <4>2
      <3>3. CASE i # n + 1
        <4>1. i \in 1..n /\ Len(received) - n + i \in 1..Len(received)
          BY <2>5, <2>6, <3>3
        <4> QED  BY <2>5, <2>6, <3>1, <4>1
      <3> QED  BY <3>2, <3>3
    <2>10. /\ Len(wire') = Len(answer) - (n + 1)
           /\ \A i \in 1..Len(wire') : wire'[i] = answer[(n + 1) + i]
      BY <2>4, <2>5, <2>6
    <2>11. (phase' # "sign" => Len(received') = n + 1) /\ n + 1 <= Len(received')
      BY <1>1, <2>5, <2>6
    <2>12. PartlyRead(answer, n + 1)'
      BY <2>7, <2>8, <2>9, <2>10, <2>11 DEF PartlyRead
    <2> QED  BY <2>1, <2>7, <2>12
  <1>4. GoodAnswers' = GoodAnswers
    BY <1>1 DEF GoodAnswers, Target
  <1>5. InTurn'
    BY <1>1, <1>3, <1>4 DEF InTurn
  <1>6. Silent'
    BY <1>1, <1>2 DEF Silent
  <1> QED
    BY <1>1, <1>5, <1>6 DEF GenuineInv, SenderChecked

LEMMA TimesOutKeeps ==
    ASSUME GenuineInv, TimesOut
    PROVE  InTurn' /\ SenderChecked' /\ Silent' /\ (~doubt' => ~doubt)
  <1>1. /\ pc = "more" /\ plugged /\ doubt' = (doubt \/ Unread)
        /\ pc' = IF phase = "sign" /\ cursor < LengthOf[call.message] THEN "write" ELSE "decode"
        /\ UNCHANGED <<call, phase, cursor, received, result, wire, pending, device, plugged>>
    BY DEF TimesOut, usb
  <1>2. ~doubt' => ~doubt
    BY <1>1
  <1>3. ASSUME ~doubt'
        PROVE  Quiet /\ (pc' = "write" => ReadBefore) /\ (pc' = "decode" => Decodable)
    <2>1. ~doubt /\ Quiet
      BY <1>1, <1>3 DEF Unread, Quiet
    <2>2. PICK answer \in GoodAnswers : \E n \in 1..3 : PartlyRead(answer, n)
      BY <1>1, <2>1 DEF GenuineInv, InTurn
    <2>3. PICK n \in 1..3 : PartlyRead(answer, n)
      BY <2>2
    <2>4. received \in Seq(Frames) /\ Len(received) \in Nat /\ Len(wire) = 0
      BY <2>1 DEF GenuineInv, AskedInv, TypeOK, Quiet
    <2>5. /\ Len(answer) = n /\ n <= Len(received) /\ (phase # "sign" => Len(received) = n)
          /\ \A i \in 1..(Len(received) - n) : received[i].kind = "ok"
          /\ \A i \in 1..n : received[Len(received) - n + i] = answer[i]
      <3>1. Len(answer) \in 1..3
        BY GoodForms
      <3> QED  BY <2>3, <2>4, <3>1 DEF PartlyRead
    <2>6. CASE phase # "sign"
      <3>1. PICK p \in Parsed(Target) : answer[2] = AddressFrame(p, 2)
        BY <2>6, GoodForms
      <3>2. n = 3
        BY <2>5, <2>6, GoodForms
      <3>3. received[2] = answer[2]
        <4>1. Len(received) - n + 2 = 2 /\ 2 \in 1..n
          BY <2>4, <2>5, <2>6, <3>2
        <4> QED  BY <2>5, <4>1
      <3>4. Decodable
        BY <2>6, <3>1, <3>3 DEF Decodable
      <3> QED  BY <1>1, <2>1, <2>6, <3>4
    <2>7. CASE phase = "sign" /\ Len(answer) = 1
      <3>1. answer[1].kind = "ok"
        BY <2>7, GoodForms
      <3>2. \A i \in 1..Len(received) : received[i].kind = "ok"
        BY <2>4, <2>5, <2>7, <3>1
      <3>3. ReadBefore
        BY <2>7, <3>2 DEF ReadBefore, AllOk
      <3> QED  BY <2>1, <2>4, <3>3, OkDecodable
    <2>8. CASE phase = "sign" /\ Len(answer) # 1
      <3>1. /\ Len(answer) = 2 /\ cursor = LengthOf[call.message]
            /\ \E p \in Parsed(call.path) :
                  /\ answer[1] = SignatureFrame(call, p, 1)
                  /\ answer[2] = SignatureFrame(call, p, 2)
        BY <2>8, GoodForms
      <3>2. received[Len(received) - 1] = answer[1] /\ received[Len(received)] = answer[2]
        BY <2>4, <2>5, <3>1
      <3>3. Decodable
        BY <2>8, <3>1, <3>2 DEF Decodable
      <3>4. LengthOf[call.message] \in Nat
        BY CallTypes DEF GenuineInv, AskedInv, TypeOK
      <3>5. pc' = "decode"
        BY <1>1, <3>1, <3>4
      <3> QED  BY <2>1, <3>3, <3>5
    <2> QED  BY <2>6, <2>7, <2>8
  <1>4. ~doubt' => Quiet' /\ (pc' = "write" => ReadBefore') /\ (pc' = "decode" => Decodable')
    BY <1>1, <1>3 DEF Quiet, ReadBefore, AllOk, Decodable, Target
  <1> QED
    BY <1>1, <1>2, <1>4 DEF GenuineInv, InTurn, SenderChecked, Silent

----------------------------------------------------------------------------
(* Steps that end or begin an exchange.                                    *)

LEMMA BeginKeeps ==
    ASSUME GenuineInv, NEW c \in Calls, Begin(c)
    PROVE  InTurn' /\ SenderChecked' /\ Silent' /\ SignatureIsGenuine' /\ AccountsAreTrue'
  <1>1. /\ pc' = "write" /\ phase' = "check" /\ received' = <<>> /\ result' = [kind |-> "none"]
        /\ doubt' = Unread /\ UNCHANGED <<wire, pending, device, plugged>>
    BY DEF Begin, Exchange, usb
  <1>2. ~doubt' => Quiet' /\ ReadBefore'
    <2>1. ~doubt' => Quiet'
      BY <1>1 DEF Unread, Quiet
    <2>2. ReadBefore'
      <3>1. 1..Len(received') = {}
        BY <1>1
      <3> QED  BY <1>1, <3>1 DEF ReadBefore, AllOk
    <2> QED  BY <2>1, <2>2
  <1>3. InTurn'
    BY <1>1, <1>2 DEF InTurn
  <1>4. result'.kind = "none" /\ phase' # "sign"
    BY <1>1
  <1>5. Silent'
    BY <1>1 DEF GenuineInv, Silent
  <1> QED
    BY <1>3, <1>4, <1>5 DEF SenderChecked, SignatureIsGenuine, AccountsAreTrue

\* What returns leaves nothing under way.
LEMMA ReturnKeeps ==
    ASSUME GenuineInv, NEW outcome, Return(outcome), UNCHANGED usb
    PROVE  InTurn' /\ SenderChecked' /\ Silent'
  <1>1. pc' = "idle" /\ phase' = "check" /\ UNCHANGED <<wire, plugged>>
    BY DEF Return, usb
  <1> QED
    BY <1>1 DEF GenuineInv, InTurn, SenderChecked, Silent

LEMMA FailKeeps ==
    ASSUME GenuineInv, NEW how \in {"failed", "threw"}, Fail(how), UNCHANGED usb
    PROVE  /\ InTurn' /\ SenderChecked' /\ Silent'
           /\ SignatureIsGenuine' /\ AccountsAreTrue'
  <1>1. Return([kind |-> how]) /\ result' = [kind |-> how]
    BY DEF Fail, Return
  <1>2. InTurn' /\ SenderChecked' /\ Silent'
    BY <1>1, ReturnKeeps
  <1>3. result'.kind = how
    BY <1>1
  <1> QED
    BY <1>2, <1>3 DEF SignatureIsGenuine, AccountsAreTrue

LEMMA ExchangeKeeps ==
    ASSUME GenuineInv, pc = "decode", NEW next \in {"address", "sign"}, Exchange(next),
           UNCHANGED <<call, result, doubt, usb>>,
           next = "sign" /\ ~doubt /\ call.op = "transaction" /\ call.path.hardened =>
               call.from = call.path
    PROVE  /\ InTurn' /\ SenderChecked' /\ Silent'
           /\ SignatureIsGenuine' /\ AccountsAreTrue'
  <1>1. /\ pc' = "write" /\ phase' = next /\ received' = <<>>
        /\ UNCHANGED <<call, result, doubt, wire, pending, device, plugged>>
    BY DEF Exchange, usb
  <1>2. ~doubt => Quiet
    BY DEF GenuineInv, InTurn
  <1>3. ~doubt' => Quiet' /\ ReadBefore'
    BY <1>1, <1>2 DEF Quiet, ReadBefore, AllOk
  <1>4. InTurn' /\ SenderChecked' /\ Silent'
    BY <1>1, <1>3 DEF GenuineInv, InTurn, SenderChecked, Silent
  <1> QED
    BY <1>1, <1>4, ResultKept

\* Out of doubt, the address found is one the device gives for the path of the call.
LEMMA AddressFound ==
    ASSUME GenuineInv, ~doubt, pc = "decode", phase = "address", Len(received) > 1
    PROVE  AddressIn(received) \in Parsed(call.path)
  <1>1. PICK p \in Parsed(call.path) : received[2] = AddressFrame(p, 2)
    BY DEF GenuineInv, InTurn, Decodable, Target
  <1>2. received[2].kind = "address" /\ received[2].part = 2 /\ received[2].of = p
    BY <1>1 DEF AddressFrame
  <1> QED  BY <1>2 DEF AddressIn

\* Out of doubt, the signature found is one the device made for the call.
LEMMA SignatureFound ==
    ASSUME GenuineInv, ~doubt, pc = "decode", phase = "sign", Len(received) > 1,
           NEW s \in SignatureIn(received), s # None
    PROVE  s.call = call /\ s.path \in Parsed(call.path)
  <1> DEFINE n == Len(received)
  <1>1. n \in Nat /\ ~(n < 2)
    BY DEF GenuineInv, AskedInv, TypeOK
  <1>2. \/ received[n - 1].kind = "ok"
        \/ \E p \in Parsed(call.path) :
              /\ received[n - 1] = SignatureFrame(call, p, 1)
              /\ received[n] = SignatureFrame(call, p, 2)
    BY DEF GenuineInv, InTurn, Decodable
  <1>3. CASE received[n - 1].kind = "ok"
    <2>1. SignatureIn(received) = {None}
      BY <1>1, <1>3 DEF SignatureIn
    <2> QED  BY <2>1
  <1>4. CASE received[n - 1].kind # "ok"
    <2>1. PICK p \in Parsed(call.path) :
            /\ received[n - 1] = SignatureFrame(call, p, 1)
            /\ received[n] = SignatureFrame(call, p, 2)
      BY <1>2, <1>4
    <2>2. /\ received[n - 1].kind = "signature" /\ received[n].kind = "signature"
          /\ received[n - 1].part = 1 /\ received[n].part = 2
          /\ received[n - 1].of = [call |-> call, path |-> p]
          /\ received[n].of = [call |-> call, path |-> p]
      BY <2>1 DEF SignatureFrame
    <2>3. SignatureIn(received) = {[call |-> call, path |-> p]}
      BY <1>1, <2>2 DEF SignatureIn
    <2>4. s = [call |-> call, path |-> p]
      BY <2>3
    <2> QED  BY <2>4
  <1> QED  BY <1>3, <1>4

LEMMA DecodeKeeps ==
    ASSUME GenuineInv, DecodeCheck \/ NoAddress \/ AddAccount \/ CheckSender \/ DecodeSign
    PROVE  /\ InTurn' /\ SenderChecked' /\ Silent'
           /\ SignatureIsGenuine' /\ AccountsAreTrue'
  <1>0. call \in Calls /\ call.path \in Paths
    BY CallTypes DEF GenuineInv, AskedInv, TypeOK
  <1>1. CASE DecodeCheck
    <2>1. CASE Len(received) > 1
      BY <1>1, <2>1, ExchangeKeeps DEF DecodeCheck
    <2>2. CASE ~(Len(received) > 1)
      BY <1>1, <2>2, FailKeeps DEF DecodeCheck
    <2> QED  BY <2>1, <2>2
  <1>2. CASE NoAddress
    BY <1>2, FailKeeps DEF NoAddress
  <1>3. CASE AddAccount
    <2>1. /\ pc = "decode" /\ phase = "address" /\ Len(received) > 1 /\ UNCHANGED usb
          /\ Return([kind |-> "added", path |-> call.path, address |-> AddressIn(received)])
      BY <1>3 DEF AddAccount
    <2>2. /\ result' = [kind |-> "added", path |-> call.path, address |-> AddressIn(received)]
          /\ doubt' = doubt
      BY <2>1 DEF Return
    <2>3. ~doubt /\ call.path.hardened => AddressIn(received) = call.path
      BY <1>0, <2>1, AddressFound, HardenedIsParsed
    <2>4. AccountsAreTrue' /\ SignatureIsGenuine'
      BY <2>2, <2>3 DEF AccountsAreTrue, SignatureIsGenuine
    <2> QED  BY <2>1, <2>4, ReturnKeeps
  <1>4. CASE CheckSender
    <2>1. /\ pc = "decode" /\ phase = "address" /\ Len(received) > 1 /\ UNCHANGED usb
      BY <1>4 DEF CheckSender
    <2>2. CASE call.op = "personal" \/ AddressIn(received) = call.from
      <3>1. Exchange("sign") /\ UNCHANGED <<call, result, doubt>>
        BY <1>4, <2>2 DEF CheckSender
      <3>2. ~doubt /\ call.op = "transaction" /\ call.path.hardened => call.from = call.path
        BY <1>0, <2>1, <2>2, AddressFound, HardenedIsParsed
      <3> QED  BY <2>1, <3>1, <3>2, ExchangeKeeps
    <2>3. CASE ~(call.op = "personal" \/ AddressIn(received) = call.from)
      <3>1. PICK how \in {"failed", "threw"} : Fail(how)
        BY <1>4, <2>3 DEF CheckSender
      <3> QED  BY <2>1, <3>1, FailKeeps
    <2> QED  BY <2>2, <2>3
  <1>5. CASE DecodeSign
    <2>1. pc = "decode" /\ phase = "sign" /\ UNCHANGED usb
      BY <1>5 DEF DecodeSign
    <2>2. PICK s \in SignatureIn(received) :
            IF s = None THEN Fail("failed")
            ELSE Return([kind |-> "signed", signature |-> s, outside |-> Len(received) < 2])
      BY <1>5 DEF DecodeSign
    <2>3. CASE s = None
      BY <2>1, <2>2, <2>3, FailKeeps
    <2>4. CASE s # None
      <3>1. Return([kind |-> "signed", signature |-> s, outside |-> Len(received) < 2])
        BY <2>2, <2>4
      <3>2. /\ result' = [kind |-> "signed", signature |-> s, outside |-> Len(received) < 2]
            /\ UNCHANGED <<call, doubt>>
        BY <3>1 DEF Return
      <3>3. Len(received) \in Nat
        BY DEF GenuineInv, AskedInv, TypeOK
      <3>4. ~doubt /\ ~(Len(received) < 2) => s.call = call /\ s.path \in Parsed(call.path)
        BY <2>1, <2>4, <3>3, SignatureFound
      <3>5. ~doubt /\ call.op = "transaction" /\ call.path.hardened => call.from = call.path
        BY <2>1 DEF GenuineInv, SenderChecked
      <3>6. SignatureIsGenuine'
        BY <1>0, <3>2, <3>4, <3>5, HardenedIsParsed DEF SignatureIsGenuine
      <3>7. AccountsAreTrue'
        BY <3>2 DEF AccountsAreTrue
      <3> QED  BY <2>1, <3>1, <3>6, <3>7, ReturnKeeps
    <2> QED  BY <2>3, <2>4
  <1> QED  BY <1>1, <1>2, <1>3, <1>4, <1>5

----------------------------------------------------------------------------
(* Steps of the device and its user.                                       *)

\* An answer is given only to what the host waits for; elsewhere nothing is under way.
LEMMA AnswerKeeps ==
    ASSUME GenuineInv, UNCHANGED <<host, plugged>>,
           ~Quiet,
           ~doubt /\ pc = "read" /\ plugged => Awaited' \/ Answered',
           pending # None \/ device.asking, Silent'
    PROVE  /\ InTurn' /\ SenderChecked' /\ Silent'
           /\ SignatureIsGenuine' /\ AccountsAreTrue'
  <1>1. UNCHANGED <<pc, call, phase, cursor, received, result, doubt, plugged>>
    BY DEF host
  <1>2. ~doubt => pc # "write" /\ pc # "decode" /\ ~(pc = "more" /\ plugged)
    BY DEF GenuineInv, InTurn
  <1>3. ~doubt /\ pc = "read" /\ plugged => ReadBefore'
    BY <1>1 DEF GenuineInv, InTurn, ReadBefore, AllOk
  <1>4. InTurn'
    BY <1>1, <1>2, <1>3 DEF InTurn
  <1>5. SenderChecked'
    BY <1>1 DEF GenuineInv, SenderChecked
  <1> QED  BY <1>1, <1>4, <1>5, ResultKept

LEMMA AddressAnswered ==
    ASSUME GenuineInv, DeviceAddress
    PROVE  /\ InTurn' /\ SenderChecked' /\ Silent'
           /\ SignatureIsGenuine' /\ AccountsAreTrue'
  <1>1. /\ pending # None /\ pending.ins = "address" /\ ~device.asking /\ pending' = None
        /\ wire' = wire \o AddressAnswer(pending.path) /\ UNCHANGED <<host, plugged, device>>
    BY DEF DeviceAddress, Answer
  <1>2. ASSUME ~doubt, pc = "read", plugged
        PROVE  Answered'
    <2>1. Awaited
      BY <1>1, <1>2 DEF GenuineInv, InTurn, Answered
    <2>2. phase # "sign" /\ wire = <<>> /\ pending.path \in Parsed(Target)
      BY <1>1, <2>1 DEF Awaited, Packages
    <2>3. wire' = AddressAnswer(pending.path)
      BY <1>1, <2>2 DEF AddressAnswer
    <2>4. wire' \in Answers
      BY <2>2, <2>3 DEF Answers, GoodAnswers
    <2>5. Answers' = Answers
      BY <1>1 DEF Answers, GoodAnswers, Target, host
    <2> QED  BY <1>1, <2>4, <2>5 DEF Answered
  <1>3. plugged
    BY <1>1 DEF GenuineInv, AskedInv, Unplugged
  <1>4. Silent' /\ ~Quiet
    BY <1>1, <1>3 DEF Silent, Quiet
  <1> QED  BY <1>1, <1>2, <1>4, AnswerKeeps

LEMMA RefusalAnswered ==
    ASSUME GenuineInv, DeviceRefuses \/ UserRefuses
    PROVE  /\ InTurn' /\ SenderChecked' /\ Silent'
           /\ SignatureIsGenuine' /\ AccountsAreTrue'
  <1>1. /\ pending # None \/ device.asking
        /\ pending' = IF DeviceRefuses THEN None ELSE pending
        /\ device' = Free
        /\ wire' = wire \o <<StatusFrame("refused")>> /\ UNCHANGED <<host, plugged>>
    BY DEF DeviceRefuses, UserRefuses, Answer
  <1>2. ASSUME ~doubt, pc = "read", plugged
        PROVE  Answered'
    <2>1. Awaited
      BY <1>1, <1>2 DEF GenuineInv, InTurn, Answered
    <2>2. wire = <<>> /\ pending' = None
      BY <1>1, <2>1 DEF Awaited, DeviceRefuses, UserRefuses
    <2>3. wire' = <<StatusFrame("refused")>>
      BY <1>1, <2>2
    <2>4. wire' \in Answers'
      BY <2>3 DEF Answers
    <2>5. ~device'.asking
      BY <1>1 DEF Free
    <2> QED  BY <2>2, <2>4, <2>5 DEF Answered
  <1>3. plugged
    <2>1. ~Free.asking
      BY DEF Free
    <2> QED  BY <1>1, <2>1 DEF GenuineInv, AskedInv, Unplugged
  <1>4. Silent' /\ ~Quiet
    BY <1>1, <1>3 DEF Silent, Quiet
  <1> QED  BY <1>1, <1>2, <1>4, AnswerKeeps

LEMMA SignatureAnswered ==
    ASSUME GenuineInv, UserConfirms
    PROVE  /\ InTurn' /\ SenderChecked' /\ Silent'
           /\ SignatureIsGenuine' /\ AccountsAreTrue'
  <1>1. /\ device.asking /\ device' = Free /\ wire' = wire \o SignatureAnswer(device)
        /\ UNCHANGED <<host, plugged, pending>>
    BY DEF UserConfirms, Answer
  <1>2. device \in Holdings /\ device # Free
    BY <1>1, AskingHolds DEF GenuineInv, AskedInv
  <1>3. ASSUME ~doubt, pc = "read", plugged
        PROVE  Answered'
    <2>1. Awaited
      BY <1>1, <1>3 DEF GenuineInv, InTurn, Answered
    <2>2. /\ wire = <<>> /\ pending = None /\ phase = "sign"
          /\ device.call = call /\ device.upto = cursor
      BY <1>1, <2>1 DEF Awaited
    <2>3. device.path \in Parsed(call.path) /\ cursor = LengthOf[call.message]
      BY <1>1, <1>2, <2>2 DEF GenuineInv, AskedInv, PartsFit, AsksWhatWasPassed
    <2>4. wire' = SignatureAnswer([call |-> call, path |-> device.path])
      BY <1>1, <2>2 DEF SignatureAnswer
    <2>5. wire' \in Answers
      BY <2>2, <2>3, <2>4 DEF Answers, GoodAnswers
    <2>6. Answers' = Answers
      BY <1>1 DEF Answers, GoodAnswers, Target, host
    <2>7. pending' = None /\ ~device'.asking
      BY <1>1, <2>2 DEF Free
    <2> QED  BY <2>5, <2>6, <2>7 DEF Answered
  <1>4. plugged
    BY <1>2 DEF GenuineInv, AskedInv, Unplugged
  <1>5. Silent' /\ ~Quiet
    BY <1>1, <1>4 DEF Silent, Quiet
  <1> QED  BY <1>1, <1>3, <1>5, AnswerKeeps

LEMMA PackageAnswered ==
    ASSUME GenuineInv, DeviceAppend
    PROVE  /\ InTurn' /\ SenderChecked' /\ Silent'
           /\ SignatureIsGenuine' /\ AccountsAreTrue'
  <1>1. /\ pending \in Packages /\ ~device.asking /\ (pending.fresh \/ device # Free)
        /\ pending' = None /\ UNCHANGED <<host, plugged>>
        /\ IF Appended.upto - Appended.from = LengthOf[Appended.call.message]
             THEN device' = [Appended EXCEPT !.asking = TRUE] /\ wire' = wire
             ELSE device' = Appended /\ wire' = wire \o <<StatusFrame("ok")>>
    BY AppendSteps DEF GenuineInv, AskedInv
  <1>2. /\ Appended \in Holdings /\ ~Appended.asking
        /\ Appended.call = pending.call /\ Appended.upto = pending.to
    BY <1>1, AppendFollows DEF GenuineInv, AskedInv
  <1>3. pending # None
    BY <1>1, NoneAssumption DEF Apdus
  <1>4. ASSUME ~doubt, pc = "read", plugged
        PROVE  Awaited' \/ Answered'
    <2>1. Awaited
      BY <1>3, <1>4 DEF GenuineInv, InTurn, Answered
    <2>2. wire = <<>> /\ phase = "sign" /\ pending.call = call /\ pending.to = cursor
      BY <1>1, <1>3, <2>1 DEF Awaited, AddressRequests, Packages
    <2>3. CASE Appended.upto - Appended.from = LengthOf[Appended.call.message]
      <3>1. device' = [Appended EXCEPT !.asking = TRUE] /\ wire' = <<>>
        BY <1>1, <2>2, <2>3
      <3>2. device'.asking /\ device'.call = call /\ device'.upto = cursor
        BY <1>2, <2>2, <3>1 DEF Holdings
      <3>3. phase' = "sign" /\ call' = call /\ cursor' = cursor
        BY <1>1, <2>2 DEF host
      <3> QED  BY <1>1, <3>1, <3>2, <3>3 DEF Awaited
    <2>4. CASE ~(Appended.upto - Appended.from = LengthOf[Appended.call.message])
      <3>1. device' = Appended /\ wire' = <<StatusFrame("ok")>>
        BY <1>1, <2>2, <2>4
      <3>2. wire' \in Answers'
        BY <1>1, <2>2, <3>1 DEF Answers, GoodAnswers, host
      <3> QED  BY <1>1, <1>2, <3>1, <3>2 DEF Answered
    <2> QED  BY <2>3, <2>4
  <1>5. plugged
    BY <1>3 DEF GenuineInv, AskedInv, Unplugged
  <1>6. Silent' /\ ~Quiet
    BY <1>1, <1>3, <1>5 DEF Silent, Quiet
  <1> QED  BY <1>1, <1>3, <1>4, <1>6, AnswerKeeps

LEMMA WireKeeps ==
    ASSUME GenuineInv, Unplug \/ Lose \/ Plug \/ ReadFails \/ Spin \/ UNCHANGED vars
    PROVE  /\ InTurn' /\ SenderChecked' /\ Silent'
           /\ SignatureIsGenuine' /\ AccountsAreTrue'
  <1>1. UNCHANGED <<call, phase, cursor, received, result, doubt>>
    BY DEF Unplug, Lose, Plug, ReadFails, Spin, vars, host, usb
  <1>2. SenderChecked' /\ SignatureIsGenuine' /\ AccountsAreTrue'
    BY <1>1, ResultKept DEF GenuineInv, SenderChecked
  <1>3. (ReadBefore' <=> ReadBefore) /\ (Decodable' <=> Decodable)
    BY <1>1 DEF ReadBefore, AllOk, Decodable, Target
  <1>4. CASE Unplug
    <2>1. /\ plugged' = FALSE /\ wire' = <<>> /\ pending' = None /\ device' = Free /\ pc' = pc
      BY <1>4 DEF Unplug, host
    <2>2. Quiet' /\ Silent'
      BY <2>1 DEF Quiet, Silent, Free
    <2>3. InTurn'
      BY <1>1, <1>3, <2>1, <2>2 DEF GenuineInv, InTurn
    <2> QED  BY <1>2, <2>2, <2>3
  <1>5. CASE Lose
    <2>1. /\ pc' = pc /\ UNCHANGED plugged /\ pc \in {"idle", "decode"}
          /\ wire # <<>> /\ wire' = Tail(wire)
      BY <1>5 DEF Lose, host
    <2>2. ~doubt => pc = "idle"
      BY <2>1 DEF GenuineInv, InTurn, Quiet
    <2>3. InTurn' /\ Silent'
      BY <1>1, <2>1, <2>2 DEF GenuineInv, InTurn, Silent
    <2> QED  BY <1>2, <2>3
  <1>6. CASE Plug
    <2>1. pc' = "idle" /\ plugged'
      BY <1>6 DEF Plug, host
    <2> QED  BY <1>2, <2>1 DEF InTurn, Silent
  <1>7. CASE ReadFails \/ Spin
    <2>1. pc' = "spin" /\ UNCHANGED <<wire, plugged>>
      BY <1>7 DEF ReadFails, Spin, vars, host, usb
    <2> QED  BY <1>2, <2>1 DEF GenuineInv, InTurn, Silent
  <1>8. CASE UNCHANGED vars
    <2>1. UNCHANGED <<pc, wire, pending, device, plugged>>
      BY <1>8 DEF vars, host, usb
    <2>2. InTurn' /\ Silent'
      <3>1. (Quiet' <=> Quiet) /\ (Awaited' <=> Awaited)
        BY <1>1, <2>1 DEF Quiet, Awaited, Target
      <3>2. GoodAnswers' = GoodAnswers
        BY <1>1 DEF GoodAnswers, Target
      <3>3. Answered' <=> Answered
        BY <2>1, <3>2 DEF Answered, Answers
      <3>4. \A answer, n : PartlyRead(answer, n)' <=> PartlyRead(answer, n)
        BY <1>1, <2>1 DEF PartlyRead
      <3> QED
        BY <1>1, <1>3, <2>1, <3>1, <3>2, <3>3, <3>4 DEF GenuineInv, InTurn, Silent
    <2> QED  BY <1>2, <2>2
  <1> QED  BY <1>4, <1>5, <1>6, <1>7, <1>8

----------------------------------------------------------------------------
LEMMA InitGenuine == Init => GenuineInv
  <1> SUFFICES ASSUME Init PROVE GenuineInv
    OBVIOUS
  <1>1. AskedInv
    BY InitAsked
  <1>2. pc = "idle" /\ phase = "check" /\ plugged /\ result.kind = "none"
    BY DEF Init
  <1> QED
    BY <1>1, <1>2 DEF GenuineInv, InTurn, SenderChecked, Silent, SignatureIsGenuine, AccountsAreTrue

LEMMA NextKeepsGenuine == GenuineInv /\ [Next]_vars => GenuineInv'
  <1> SUFFICES ASSUME GenuineInv, [Next]_vars PROVE GenuineInv'
    OBVIOUS
  <1>1. AskedInv'
    BY NextKeepsAsked DEF GenuineInv
  <1>2. ASSUME NEW c \in Calls, Begin(c) PROVE GenuineInv'
    BY <1>1, <1>2, BeginKeeps DEF GenuineInv
  <1>3. CASE NotFound
    BY <1>1, <1>3, FailKeeps DEF GenuineInv, NotFound
  <1>4. CASE OpenFails \/ NothingToWrite
    <2>1. UNCHANGED <<call, result, doubt>>
      BY <1>4 DEF OpenFails, NothingToWrite
    <2> QED  BY <1>1, <1>4, <2>1, OpenKeeps, ResultKept DEF GenuineInv
  <1>5. CASE WriteAddressRequest
    <2>1. UNCHANGED <<call, result, doubt>>
      BY <1>5 DEF WriteAddressRequest
    <2> QED  BY <1>1, <1>5, <2>1, WriteAddressKeeps, ResultKept DEF GenuineInv
  <1>6. CASE WritePackage
    <2>1. UNCHANGED <<call, result, doubt>>
      BY <1>6 DEF WritePackage
    <2> QED  BY <1>1, <1>6, <2>1, WritePackageKeeps, ResultKept DEF GenuineInv
  <1>7. CASE ReadFirst
    <2>1. UNCHANGED <<call, result, doubt>>
      BY <1>7 DEF ReadFirst
    <2> QED  BY <1>1, <1>7, <2>1, ReadFirstKeeps, ResultKept DEF GenuineInv
  <1>8. CASE ReadMore
    <2>1. UNCHANGED <<call, result, doubt>>
      BY <1>8 DEF ReadMore
    <2> QED  BY <1>1, <1>8, <2>1, ReadMoreKeeps, ResultKept DEF GenuineInv
  <1>9. CASE TimesOut
    <2>1. UNCHANGED <<call, result>>
      BY <1>9 DEF TimesOut
    <2> QED  BY <1>1, <1>9, <2>1, TimesOutKeeps, ResultKept DEF GenuineInv
  <1>10. CASE DecodeCheck \/ NoAddress \/ AddAccount \/ CheckSender \/ DecodeSign
    BY <1>1, <1>10, DecodeKeeps DEF GenuineInv
  <1>11. CASE Unplug \/ Lose \/ Plug \/ ReadFails \/ Spin \/ UNCHANGED vars
    BY <1>1, <1>11, WireKeeps DEF GenuineInv
  <1>12. CASE DeviceStep
    BY <1>1, <1>12, AddressAnswered, PackageAnswered, RefusalAnswered, SignatureAnswered
       DEF GenuineInv, DeviceStep
  <1> QED
    BY <1>2, <1>3, <1>4, <1>5, <1>6, <1>7, <1>8, <1>9, <1>10, <1>11, <1>12 DEF Next, HostStep

LEMMA GenuineInvAlways == Spec => []GenuineInv
  BY InitGenuine, NextKeepsGenuine, PTL DEF Spec

\* A signature that is returned is the one the device made for this call, and a transaction's
\* is by the key of its sender, for any calls and sizes, if no answer came late.
THEOREM SignatureIsGenuineAlways == Spec => []SignatureIsGenuine
  <1>1. GenuineInv => SignatureIsGenuine
    BY DEF GenuineInv
  <1> QED  BY <1>1, GenuineInvAlways, PTL

\* generateBip32Account lists an account with the address of its path, for any paths, if no
\* answer came late and the first index is hardened.
THEOREM AccountsAreTrueAlways == Spec => []AccountsAreTrue
  <1>1. GenuineInv => AccountsAreTrue
    BY DEF GenuineInv
  <1> QED  BY <1>1, GenuineInvAlways, PTL

=============================================================================
