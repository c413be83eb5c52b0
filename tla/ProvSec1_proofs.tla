---------------------------- MODULE ProvSec1_proofs ---------------------------
(***************************************************************************)
(* Theorems about the security session, for every number of phones and of  *)
(* faults, over both transports.                                           *)
(***************************************************************************)
EXTENDS ProvSec1, TLAPS

\* Whose the context is.  Over BLE it is the connected phone's.  Over HTTP it is
\* that of the phone with the cookie, and of the connected one once it has asked.
\* An answer is on the way only to the phone of the context, so that phone alone
\* can learn the key.
Ownership ==
    /\ transport \in {"ble", "http"}
    /\ transport = "ble" /\ peer # NoPhone => opened = peer
    /\ transport = "http" /\ cookie # NoPhone => opened = cookie
    /\ transport = "http" /\ peer # NoPhone /\ ~first => opened = peer
    /\ peer = NoPhone => wire = Nothing
    /\ wire.kind \in Answers => opened = peer
    /\ ContextIsHolders

Sec1Inv == Ownership /\ ReadyIsProven

LEMMA InitInv == Init => Sec1Inv
BY DEF Init, Sec1Inv, Ownership, ReadyIsProven, ContextIsHolders, Nothing, Answers

\* What connects and what disconnects.
LEMMA LinkStep ==
    ASSUME Sec1Inv, Disconnect \/ \E p \in Phones : Connect(p)
    PROVE  Sec1Inv'
<1>. USE Sec1Assumption
     DEF Sec1Assumption, Sec1Inv, Ownership, ReadyIsProven, ContextIsHolders,
         Nothing, Answers, Wipe, contextVars
<1>1. CASE Disconnect
  BY <1>1 DEF Disconnect
<1>2. ASSUME NEW p \in Phones, Connect(p) PROVE Sec1Inv'
  BY <1>2 DEF Connect
<1>. QED BY <1>1, <1>2

\* The phone: only Receive gives it a key.
LEMMA PhoneStep ==
    ASSUME Sec1Inv, NEW p \in Phones,
           Phone(p) \/ TryAgain(p) \/ SendEarly(p)
    PROVE  Sec1Inv'
<1>. USE Sec1Assumption
     DEF Sec1Assumption, Sec1Inv, Ownership, ReadyIsProven, ContextIsHolders,
         Nothing, Answers, Send, contextVars, linkVars
<1>1. CASE SendCmd0(p) \/ SendCmd1(p) \/ SendCommand(p) \/ SendEarly(p)
  BY <1>1 DEF SendCmd0, SendCmd1, SendCommand, SendEarly, Quiet
<1>2. CASE GiveUp(p) \/ TryAgain(p)
  BY <1>2 DEF GiveUp, TryAgain
<1>3. CASE Receive(p)
  BY <1>3 DEF Receive
<1>. QED BY <1>1, <1>2, <1>3 DEF Phone

\* The device: after EnsureSession the context is the connected phone's.
LEMMA DeviceStep ==
    ASSUME Sec1Inv, NEW p \in Phones, Device(p)
    PROVE  Sec1Inv'
<1>. USE Sec1Assumption
     DEF Sec1Assumption, Sec1Inv, Ownership, ReadyIsProven, ContextIsHolders,
         Nothing, Answers, Requests, Send, Refuse, HangUp, Wipe, Reopens,
         EnsureSession, contextVars
<1>1. CASE DeviceCmd0(p)
  BY <1>1 DEF DeviceCmd0, KeyExchange
<1>2. CASE DeviceReopens(p)
  BY <1>2 DEF DeviceReopens
<1>3. CASE DeviceCmd1(p)
  BY <1>3 DEF DeviceCmd1, CheckProof
<1>4. CASE DeviceCommand(p)
  BY <1>4 DEF DeviceCommand
<1>5. CASE DeviceNoise(p)
  BY <1>5 DEF DeviceNoise
<1>6. CASE DeviceNotReady(p)
  BY <1>6 DEF DeviceNotReady
<1>. QED BY <1>1, <1>2, <1>3, <1>4, <1>5, <1>6 DEF Device

LEMMA NextInv == Sec1Inv /\ [Next]_vars => Sec1Inv'
<1>. SUFFICES ASSUME Sec1Inv, [Next]_vars PROVE Sec1Inv'
  OBVIOUS
<1>1. CASE Next
  BY <1>1, LinkStep, PhoneStep, DeviceStep DEF Next
<1>2. CASE UNCHANGED vars
  BY <1>2 DEF Sec1Inv, Ownership, ReadyIsProven, ContextIsHolders, vars, contextVars,
              linkVars
<1>. QED BY <1>1, <1>2

\* The key of a context is known to no phone but the one it was opened for (over
\* BLE: of the phones whose links ble_connected takes).
THEOREM ContextHolds == Spec => []ContextIsHolders
BY InitInv, NextInv, PTL DEF Spec, Sec1Inv, Ownership

\* Commands are deciphered only after a right proof of the present key.
THEOREM ReadyHolds == Spec => []ReadyIsProven
BY InitInv, NextInv, PTL DEF Spec, Sec1Inv
-------------------------------------------------------------------------------
(* Where both ends are: who says what when, and how far apart they are in  *)
(* the stream.                                                             *)

\* A phone that is not connected asks for nothing; what is on the way tells what the
\* connected one is doing.
Talk ==
    /\ \A p \in Phones \ {peer} : phone[p] \in {"new", "ready"}
    /\ peer # NoPhone =>
          /\ wire.kind \in {"cmd0", "resp0"} => phone[peer] = "hello"
          /\ wire.kind \in {"cmd1", "resp1"} => phone[peer] = "proving"
          /\ wire.kind = "wrong" => phone[peer] \in {"proving", "new"}
          /\ wire.kind \in {"command", "answer"} => phone[peer] = "asking"
          /\ wire.kind = "malformed" => phone[peer] \in {"asking", "new"}
          /\ wire.kind = "refused" => phone[peer] \notin {"keyed", "ready"}
          /\ phone[peer] \in {"keyed", "proving"} => holder = peer /\ ~first
    /\ wire.kind = "nothing" => wire = Nothing

\* What an answer says of the context it comes from.
Said ==
    /\ wire.kind \in Answers => ~first
    /\ holder # NoPhone => st # "cmd0"
    /\ wire.kind = "resp0" => st = "cmd1" /\ holder = NoPhone /\ walked = 0
    /\ wire.kind \in {"resp1", "answer"} =>
          st = "done" /\ holder = peer /\ ahead = -wire.len

\* A failed check is paid for by a fault: by the wrong proof, or by the try after it.
Walked ==
    /\ walked <= Proof * faults
    /\ wire.kind = "wrong" => walked + Proof <= Proof * faults
    /\ wire.kind = "cmd1" /\ st = "cmd1" => ahead = Proof - walked
    /\ peer # NoPhone /\ walked > 0 /\ (wire.kind = "cmd1" \/ phone[peer] = "keyed") =>
          walked + Proof <= Proof * faults

\* So is every block the two are apart.
Apart ==
    /\ -(2 * faults + 2) <= ahead /\ ahead <= 2 * faults + 2
    /\ holder \in Phones /\ phone[holder] = "ready" => ahead <= 2 * faults
    /\ holder # NoPhone /\ holder = peer /\ wire.kind \in {"command", "malformed"} =>
          -(2 * faults + 2) <= ahead - wire.len

\* As long as nothing was lost, the distance is that of what is on the way.
Together ==
    st = "done" /\ ~lost /\ holder \in Phones =>
        /\ phone[holder] # "keyed"
        /\ phone[holder] = "ready" => ahead = 0 /\ (peer = holder => wire = Nothing)
        /\ phone[holder] = "proving" => wire.kind = "resp1"
        /\ phone[holder] = "asking" =>
              ahead = IF wire.kind \in {"command", "malformed"} THEN wire.len
                      ELSE IF wire.kind = "answer" THEN -wire.len ELSE 0

StreamInv == TypeOK /\ Talk /\ Said /\ Walked /\ Apart /\ Together

\* What is on the way, and the flags, by their types.
Wires == [kind : Requests \cup Answers \cup {"nothing"}, len : {0} \cup Lengths]

Step(p) == Connect(p) \/ Disconnect \/ Phone(p) \/ TryAgain(p) \/ SendEarly(p) \/ Device(p)

LEMMA WireTypes ==
    ASSUME TypeOK, NEW p \in Phones, Step(p)
    PROVE  wire' \in Wires
<1>. USE DEF TypeOK, Wires, Nothing, Answers, Requests, Lengths, Send, Refuse, HangUp, Proof
<1>1. CASE Connect(p) \/ Disconnect \/ TryAgain(p) \/ SendEarly(p)
  BY <1>1 DEF Connect, Disconnect, TryAgain, SendEarly
<1>2. CASE Phone(p)
  BY <1>2 DEF Phone, SendCmd0, SendCmd1, SendCommand, Receive, GiveUp
<1>3. CASE Device(p)
  BY <1>3 DEF Device, DeviceCmd0, KeyExchange, DeviceReopens, DeviceCmd1, CheckProof,
     DeviceCommand, DeviceNoise, DeviceNotReady
<1>. QED BY <1>1, <1>2, <1>3 DEF Step

LEMMA FlagTypes ==
    ASSUME TypeOK, NEW p \in Phones, Step(p)
    PROVE  checked' \in BOOLEAN /\ lost' \in BOOLEAN /\ first' \in BOOLEAN
<1>. USE DEF TypeOK, Wipe, EnsureSession, contextVars, linkVars
<1>1. CASE Connect(p) \/ Disconnect \/ TryAgain(p) \/ SendEarly(p)
  BY <1>1 DEF Connect, Disconnect, TryAgain, SendEarly
<1>2. CASE Phone(p)
  BY <1>2 DEF Phone, SendCmd0, SendCmd1, SendCommand, Receive, GiveUp
<1>3. CASE Device(p)
  BY <1>3 DEF Device, DeviceCmd0, KeyExchange, DeviceReopens, DeviceCmd1, CheckProof,
     DeviceCommand, DeviceNoise, DeviceNotReady
<1>. QED BY <1>1, <1>2, <1>3 DEF Step

\* What is lost with a connection is a fault.
LEMMA LinkStream ==
    ASSUME StreamInv, Sec1Inv, NEW p \in Phones, Connect(p) \/ Disconnect
    PROVE  StreamInv'
<1>0. /\ wire' \in Wires
      /\ checked' \in BOOLEAN /\ lost' \in BOOLEAN /\ first' \in BOOLEAN
  BY WireTypes, FlagTypes DEF StreamInv, Step
<1>. USE Sec1Assumption
     DEF Sec1Assumption, StreamInv, TypeOK, Talk, Said, Walked, Apart, Together,
         Sec1Inv, Ownership, ReadyIsProven, ContextIsHolders, Nothing, Answers,
         Requests, Lengths, Stream, Somebody, Proof, contextVars, linkVars,
         Wipe, Goes, Fault
<1>1. CASE Connect(p)
  <2>1. TypeOK'
    BY <1>1, <1>0 DEF Connect, Wires
  <2>2. Talk' /\ Said' /\ Walked' /\ Apart'
    BY <1>1 DEF Connect
  <2>3. Together'
    BY <1>1 DEF Connect
  <2>. QED BY ONLY <2>1, <2>2, <2>3 DEF StreamInv
<1>2. CASE Disconnect
  <2>1. TypeOK'
    BY <1>2, <1>0 DEF Disconnect, Wires
  <2>2. Talk' /\ Said' /\ Walked' /\ Apart'
    BY <1>2 DEF Disconnect
  <2>3. Together'
    BY <1>2 DEF Disconnect
  <2>. QED BY ONLY <2>1, <2>2, <2>3 DEF StreamInv
<1>. QED BY <1>1, <1>2

\* The phone goes ahead when it asks, and is back when it has the answer.
LEMMA PhoneStream ==
    ASSUME StreamInv, Sec1Inv, NEW p \in Phones,
           Phone(p) \/ TryAgain(p) \/ SendEarly(p)
    PROVE  StreamInv'
<1>. USE Sec1Assumption
     DEF Sec1Assumption, StreamInv, TypeOK, Talk, Said, Walked, Apart, Together,
         Sec1Inv, Ownership, ReadyIsProven, ContextIsHolders, Nothing, Answers,
         Requests, Lengths, Stream, Somebody, Proof, contextVars, linkVars,
         Send, Goes, Fault, Quiet
<1>1. CASE SendCmd0(p)
  <2>1. TypeOK'
    BY <1>1 DEF SendCmd0
  <2>2. Talk' /\ Said' /\ Walked' /\ Apart'
    BY <1>1 DEF SendCmd0
  <2>3. Together'
    BY <1>1 DEF SendCmd0
  <2>. QED BY ONLY <2>1, <2>2, <2>3 DEF StreamInv
<1>2. CASE SendCmd1(p)
  <2>1. TypeOK'
    BY <1>2 DEF SendCmd1
  <2>2. Talk' /\ Said' /\ Walked' /\ Apart'
    BY <1>2 DEF SendCmd1
  <2>3. Together'
    BY <1>2 DEF SendCmd1
  <2>. QED BY ONLY <2>1, <2>2, <2>3 DEF StreamInv
<1>3. CASE SendCommand(p)
  <2>1. TypeOK'
    BY <1>3 DEF SendCommand
  <2>2. Talk' /\ Said' /\ Walked' /\ Apart'
    BY <1>3 DEF SendCommand
  <2>3. Together'
    BY <1>3 DEF SendCommand
  <2>. QED BY ONLY <2>1, <2>2, <2>3 DEF StreamInv
<1>4. CASE SendEarly(p)
  <2>1. TypeOK'
    BY <1>4 DEF SendEarly
  <2>2. Talk' /\ Said' /\ Walked' /\ Apart'
    BY <1>4 DEF SendEarly
  <2>3. Together'
    BY <1>4 DEF SendEarly
  <2>. QED BY ONLY <2>1, <2>2, <2>3 DEF StreamInv
<1>5. CASE Receive(p)
  <2>1. TypeOK'
    BY <1>5 DEF Receive
  <2>2. Talk' /\ Said' /\ Walked' /\ Apart'
    BY <1>5 DEF Receive
  <2>3. Together'
    BY <1>5 DEF Receive
  <2>. QED BY ONLY <2>1, <2>2, <2>3 DEF StreamInv
<1>6. CASE GiveUp(p)
  <2>1. TypeOK'
    BY <1>6 DEF GiveUp
  <2>2. Talk' /\ Said' /\ Walked' /\ Apart'
    BY <1>6 DEF GiveUp
  <2>3. Together'
    BY <1>6 DEF GiveUp
  <2>. QED BY ONLY <2>1, <2>2, <2>3 DEF StreamInv
<1>7. CASE TryAgain(p)
  <2>1. TypeOK'
    BY <1>7 DEF TryAgain
  <2>2. Talk' /\ Said' /\ Walked' /\ Apart'
    BY <1>7 DEF TryAgain
  <2>3. Together'
    BY <1>7 DEF TryAgain
  <2>. QED BY ONLY <2>1, <2>2, <2>3 DEF StreamInv
<1>. QED BY <1>1, <1>2, <1>3, <1>4, <1>5, <1>6, <1>7 DEF Phone

\* The device walks by the length of what it deciphers and enciphers.
LEMMA DeviceStream ==
    ASSUME StreamInv, Sec1Inv, NEW p \in Phones, Device(p)
    PROVE  StreamInv'
<1>0. /\ wire' \in Wires
      /\ checked' \in BOOLEAN /\ lost' \in BOOLEAN /\ first' \in BOOLEAN
  BY WireTypes, FlagTypes DEF StreamInv, Step
<1>. USE Sec1Assumption
     DEF Sec1Assumption, StreamInv, TypeOK, Talk, Said, Walked, Apart, Together,
         Sec1Inv, Ownership, ReadyIsProven, ContextIsHolders, Nothing, Answers,
         Requests, Lengths, Stream, Somebody, Proof, contextVars, linkVars,
         Send, Goes, Fault, Refuse, HangUp, Wipe, Reopens, EnsureSession
<1>1. CASE DeviceCmd0(p)
  <2>1. TypeOK'
    BY <1>1, <1>0 DEF DeviceCmd0, KeyExchange, Wires
  <2>2. Talk' /\ Said' /\ Walked' /\ Apart'
    BY <1>1 DEF DeviceCmd0, KeyExchange
  <2>3. Together'
    BY <1>1 DEF DeviceCmd0, KeyExchange
  <2>. QED BY ONLY <2>1, <2>2, <2>3 DEF StreamInv
<1>2. CASE DeviceReopens(p)
  <2>1. TypeOK'
    BY <1>2, <1>0 DEF DeviceReopens, Wires
  <2>2. Talk' /\ Said' /\ Walked' /\ Apart'
    BY <1>2 DEF DeviceReopens
  <2>3. Together'
    BY <1>2 DEF DeviceReopens
  <2>. QED BY ONLY <2>1, <2>2, <2>3 DEF StreamInv
<1>3. CASE DeviceCmd1(p)
  <2>1. TypeOK'
    BY <1>3, <1>0 DEF DeviceCmd1, CheckProof, Wires
  <2>2. Talk' /\ Said' /\ Walked' /\ Apart'
    BY <1>3 DEF DeviceCmd1, CheckProof
  <2>3. Together'
    BY <1>3 DEF DeviceCmd1, CheckProof
  <2>. QED BY ONLY <2>1, <2>2, <2>3 DEF StreamInv
<1>4. CASE DeviceCommand(p)
  <2>1. TypeOK'
    BY <1>4, <1>0 DEF DeviceCommand, Wires
  <2>2. Talk' /\ Said' /\ Walked' /\ Apart'
    BY <1>4 DEF DeviceCommand
  <2>3. Together'
    BY <1>4 DEF DeviceCommand
  <2>. QED BY ONLY <2>1, <2>2, <2>3 DEF StreamInv
<1>5. CASE DeviceNoise(p)
  <2>1. TypeOK'
    BY <1>5, <1>0 DEF DeviceNoise, Wires
  <2>2. Talk' /\ Said' /\ Walked' /\ Apart'
    BY <1>5 DEF DeviceNoise
  <2>3. Together'
    BY <1>5 DEF DeviceNoise
  <2>. QED BY ONLY <2>1, <2>2, <2>3 DEF StreamInv
<1>6. CASE DeviceNotReady(p)
  <2>1. TypeOK'
    BY <1>6, <1>0 DEF DeviceNotReady, Wires
  <2>2. Talk' /\ Said' /\ Walked' /\ Apart'
    BY <1>6 DEF DeviceNotReady
  <2>3. Together'
    BY <1>6 DEF DeviceNotReady
  <2>. QED BY ONLY <2>1, <2>2, <2>3 DEF StreamInv
<1>. QED BY <1>1, <1>2, <1>3, <1>4, <1>5, <1>6 DEF Device

LEMMA StreamInit == Init => StreamInv
<1>. USE Sec1Assumption DEF Sec1Assumption, Init, Nothing, Stream, Somebody, Proof
<1>1. Init => wire \in Wires
  BY DEF Wires
<1>2. Init => checked \in BOOLEAN /\ lost \in BOOLEAN /\ first \in BOOLEAN
  OBVIOUS
<1>3. Init => TypeOK
  BY <1>1, <1>2 DEF TypeOK, Wires
<1>4. Init => Talk /\ Said /\ Walked /\ Apart /\ Together
  BY DEF Talk, Said, Walked, Apart, Together, Answers
<1>. QED BY <1>3, <1>4 DEF StreamInv

LEMMA StreamNext == StreamInv /\ Sec1Inv /\ [Next]_vars => StreamInv'
<1>. SUFFICES ASSUME StreamInv, Sec1Inv, [Next]_vars PROVE StreamInv'
  OBVIOUS
<1>1. CASE Disconnect
  <2>. PICK p \in Phones : peer = p
    BY <1>1 DEF Disconnect, StreamInv, TypeOK, Somebody
  <2>. QED BY <1>1, LinkStream
<1>2. CASE \E p \in Phones : Connect(p) \/ Phone(p) \/ Device(p) \/ TryAgain(p) \/ SendEarly(p)
  BY <1>2, LinkStream, PhoneStream, DeviceStream
<1>3. CASE UNCHANGED vars
  BY <1>3 DEF StreamInv, TypeOK, Talk, Said, Walked, Apart, Together, vars, contextVars,
              linkVars
<1>. QED BY <1>1, <1>2, <1>3 DEF Next

LEMMA StreamHolds == Spec => [](Sec1Inv /\ StreamInv)
<1>1. Init => Sec1Inv /\ StreamInv
  BY InitInv, StreamInit
<1>2. Sec1Inv /\ StreamInv /\ [Next]_vars => (Sec1Inv /\ StreamInv)'
  BY NextInv, StreamNext
<1>. QED BY <1>1, <1>2, PTL DEF Spec

\* Every variable has its type: the places in the stream stay within bounds that only
\* faults move.
THEOREM StreamTypes == Spec => []TypeOK
<1>1. StreamInv => TypeOK
  BY DEF StreamInv
<1>. QED BY <1>1, StreamHolds, PTL

\* Both ends are at the same place whenever both rest, unless a message was lost.
THEOREM InStepHolds == Spec => []InStep
<1>1. StreamInv => InStep
  BY Sec1Assumption DEF Sec1Assumption, StreamInv, Together, InStep
<1>. QED BY <1>1, StreamHolds, PTL
====
