------------------------------- MODULE ProvSec1 -------------------------------
(***************************************************************************)
(* The security session of esp_prov_sec1.c: one context of the device, the *)
(* phones that talk to it over one transport, and the AES-CTR stream both  *)
(* ends must walk in step.                                                 *)
(*                                                                         *)
(* Of a key all that matters is which phone has it; of the two places in   *)
(* the stream, how far the phone is ahead of the device.  A message that   *)
(* is deciphered at another place, or with another key, is noise, and      *)
(* noise is taken to be no command.                                        *)
(*                                                                         *)
(* Over BLE the connections are those that ble_connected takes, one at a   *)
(* time: a link it does not take could write into the same context (the    *)
(* endpoints do not ask, see ProvBle), and nothing is said of that here.   *)
(*                                                                         *)
(* Messages are lost only with their connection: over BLE that closes the  *)
(* context; over HTTP the cookie finds the same context again.             *)
(***************************************************************************)
EXTENDS Integers

CONSTANTS
    Phones,    \* the phones, model values
    NoPhone,   \* nobody
    MaxFaults  \* bound: messages lost, exchanges failed, proofs wrong, commands
               \* malformed

ASSUME Sec1Assumption == NoPhone \notin Phones /\ MaxFaults \in Nat

Proof == 2         \* PUBLIC_KEY_LEN in cipher blocks
Lengths == {1, 2}  \* of a command or an answer, in blocks

VARIABLES
    transport,  \* "ble" or "http", for good
    st,         \* st of the context
    holder,     \* the phone that has the context's sym_key
    checked,    \* history: a right proof of this key was accepted
    walked,     \* how far the device has walked the stream before st is "done"
    ahead,      \* how far the holder is ahead of the device in the stream
    opened,     \* sid: the phone the context was opened for
    cookie,     \* the phone that has the current cookie (s_cookie_id)
    peer,       \* the phone that is connected
    first,      \* first_sec_request_on_connection
    wire,       \* the message on the way
    phone,      \* phone[p]: what phone p is doing
    faults,     \* how much has gone wrong
    lost        \* history: a message under this key was lost or not deciphered

contextVars == <<st, holder, checked, walked, ahead, opened, lost>>
linkVars == <<cookie, peer, first>>
vars == <<transport, contextVars, linkVars, wire, phone, faults>>

Somebody == Phones \cup {NoPhone}
Requests == {"cmd0", "cmd1", "wrong", "command", "malformed"}
Answers == {"resp0", "resp1", "answer", "refused"}
Nothing == [kind |-> "nothing", len |-> 0]
Stream == -(2 * MaxFaults + 4) .. (2 * MaxFaults + 4)

TypeOK ==
    /\ transport \in {"ble", "http"}
    /\ st \in {"cmd0", "cmd1", "done"}
    /\ holder \in Somebody /\ opened \in Somebody
    /\ cookie \in Somebody /\ peer \in Somebody
    /\ checked \in BOOLEAN /\ lost \in BOOLEAN /\ first \in BOOLEAN
    /\ walked \in 0 .. Proof * (MaxFaults + 1)
    /\ ahead \in Stream
    /\ wire \in [kind : Requests \cup Answers \cup {"nothing"}, len : {0} \cup Lengths]
    /\ phone \in [Phones -> {"new", "hello", "keyed", "proving", "ready", "asking"}]
    /\ faults \in 0 .. MaxFaults
    /\ st = "cmd0" => walked = 0 /\ ~checked

Init ==
    /\ transport \in {"ble", "http"}
    /\ st = "cmd0" /\ holder = NoPhone /\ opened = NoPhone
    /\ checked = FALSE /\ walked = 0 /\ ahead = 0 /\ lost = FALSE
    /\ cookie = NoPhone /\ peer = NoPhone /\ first = FALSE
    /\ wire = Nothing
    /\ phone = [p \in Phones |-> "new"]
    /\ faults = 0

Send(kind, len) == wire' = [kind |-> kind, len |-> len]
Goes(p, state) == phone' = [phone EXCEPT ![p] = state]
Fault == faults < MaxFaults /\ faults' = faults + 1

-------------------------------------------------------------------------------
\* esp_prov_sec1_transport_open and _close: the context is wiped.
Wipe(owner) ==
    /\ st' = "cmd0"
    /\ holder' = NoPhone
    /\ checked' = FALSE
    /\ walked' = 0
    /\ ahead' = 0
    /\ lost' = FALSE
    /\ opened' = owner

\* ble_connected opens the context; prov-http does it at the first request.
Connect(p) ==
    /\ peer = NoPhone
    /\ peer' = p
    /\ first' = TRUE
    /\ IF transport = "ble" THEN Wipe(p) ELSE UNCHANGED contextVars
    /\ UNCHANGED <<transport, cookie, wire, phone, faults>>

\* The connection ends with what was on the way.  ble_disconnected closes the
\* context; over HTTP it stays, and so does the phone's half of it.
Disconnect ==
    /\ peer # NoPhone
    /\ Fault
    /\ peer' = NoPhone
    /\ wire' = Nothing
    /\ IF transport = "ble"
       THEN /\ Wipe(NoPhone)
            /\ Goes(peer, "new")
       ELSE /\ lost' = (lost \/ wire # Nothing)
            /\ Goes(peer, IF phone[peer] \in {"ready", "asking"} THEN "ready" ELSE "new")
            /\ UNCHANGED <<st, holder, checked, walked, ahead, opened>>
    /\ UNCHANGED <<transport, cookie, first>>

-------------------------------------------------------------------------------
\* The phone, which is external: the protocol, and a new exchange whenever it is
\* refused or not answered.

Quiet(p) == peer = p /\ wire = Nothing

SendCmd0(p) ==
    /\ Quiet(p) /\ phone[p] = "new"
    /\ Send("cmd0", 1)
    /\ Goes(p, "hello")
    /\ UNCHANGED <<transport, contextVars, linkVars, faults>>

\* Its stream starts at the proof, however often it tries.
SendCmd1(p) ==
    /\ Quiet(p) /\ phone[p] = "keyed"
    /\ \/ Send("cmd1", Proof) /\ UNCHANGED faults
       \/ Send("wrong", Proof) /\ Fault
    /\ ahead' = IF holder = p THEN Proof - walked ELSE ahead
    /\ Goes(p, "proving")
    /\ UNCHANGED <<transport, st, holder, checked, walked, opened, lost, linkVars>>

SendCommand(p) ==
    /\ Quiet(p) /\ phone[p] = "ready"
    /\ \E n \in Lengths :
          /\ \/ Send("command", n) /\ UNCHANGED faults
             \/ Send("malformed", n) /\ Fault
          /\ ahead' = IF holder = p THEN ahead + n ELSE ahead
    /\ Goes(p, "asking")
    /\ UNCHANGED <<transport, st, holder, checked, walked, opened, lost, linkVars>>

\* A phone that asks, or proves, without a key exchange.
SendEarly(p) ==
    /\ Quiet(p) /\ phone[p] = "new"
    /\ Fault
    /\ Send("malformed", 1) \/ Send("wrong", Proof)
    /\ UNCHANGED <<transport, contextVars, linkVars, phone>>

\* The cookie comes with the first answer.
Receive(p) ==
    /\ peer = p /\ wire.kind \in Answers
    /\ wire' = Nothing
    /\ cookie' = IF transport = "http" /\ opened = p THEN p ELSE cookie
    /\ LET read == holder = p /\ ahead = -wire.len IN
          /\ Goes(p, CASE wire.kind = "resp0" -> "keyed"
                       [] wire.kind \in {"resp1", "answer"} /\ read -> "ready"
                       [] OTHER -> phone[p])
          /\ ahead' = IF wire.kind \in {"resp1", "answer"} /\ holder = p
                      THEN ahead + wire.len ELSE ahead
    /\ holder' = IF wire.kind = "resp0" THEN p ELSE holder
    /\ UNCHANGED <<transport, st, checked, walked, opened, lost, peer, first, faults>>

\* No answer came, or a refusal: a new exchange, or the same step again.
GiveUp(p) ==
    /\ Quiet(p) /\ phone[p] \in {"hello", "proving", "asking"}
    /\ Goes(p, "new")
    /\ UNCHANGED <<transport, contextVars, linkVars, wire, faults>>

TryAgain(p) ==
    /\ Quiet(p) /\ phone[p] \in {"proving", "asking"}
    /\ Fault
    /\ Goes(p, IF phone[p] = "proving" THEN "keyed" ELSE "ready")
    /\ UNCHANGED <<transport, contextVars, linkVars, wire>>

-------------------------------------------------------------------------------
\* The device: the transport's handler, with what it calls of esp_prov_sec1.c.

MutantReopens(p) == FALSE

\* ensure_session: the first request of a TCP connection keeps the context only
\* with the current cookie.
Reopens(p) == transport = "http" /\ first /\ cookie # p

EnsureSession(p) ==
    /\ first' = FALSE
    /\ cookie' = IF Reopens(p) THEN NoPhone ELSE cookie
    /\ opened' = IF Reopens(p) THEN p ELSE opened

\* BLE answers an error; prov-session over HTTP the Sec0 reply.
Refuse == Send("refused", 1)

\* prov-config and prov-scan over HTTP leave the loop without an answer.
HangUp(p) ==
    /\ wire' = Nothing
    /\ peer' = NoPhone
    /\ Goes(p, "new")

MutantKeyExchange(p) ==
    /\ \/ st' = "cmd1" /\ Send("resp0", 2) /\ UNCHANGED faults
       \/ st' = st /\ Refuse /\ Fault
    /\ holder' = NoPhone /\ checked' = FALSE /\ lost' = FALSE
    /\ walked' = 0 /\ ahead' = 0

MutantKeyExchangeOnce(p) ==
    IF st = "done" /\ ~Reopens(p)
    THEN Refuse /\ UNCHANGED <<st, holder, checked, walked, ahead, lost, faults>>
    ELSE /\ \/ st' = "cmd1" /\ Send("resp0", 2) /\ UNCHANGED faults
            \/ st' = "cmd0" /\ Refuse /\ Fault
         /\ holder' = NoPhone /\ checked' = FALSE /\ lost' = FALSE
         /\ walked' = 0 /\ ahead' = 0

\* handle_cmd0 starts again in whatever state it is; it may fail with the new
\* key already written.
KeyExchange(p) ==
    /\ \/ st' = "cmd1" /\ Send("resp0", 2) /\ UNCHANGED faults
       \/ st' = "cmd0" /\ Refuse /\ Fault
    /\ holder' = NoPhone /\ checked' = FALSE /\ lost' = FALSE
    /\ walked' = 0 /\ ahead' = 0

DeviceCmd0(p) ==
    /\ peer = p /\ wire.kind = "cmd0"
    /\ EnsureSession(p)
    /\ KeyExchange(p)
    /\ UNCHANGED <<transport, peer, phone>>

\* The context has just been opened: there is nothing to prove or to decipher.
DeviceReopens(p) ==
    /\ peer = p /\ wire.kind \in Requests \ {"cmd0"} /\ Reopens(p)
    /\ first' = FALSE /\ cookie' = NoPhone
    /\ Wipe(p)
    /\ IF wire.kind \in {"cmd1", "wrong"}
       THEN Refuse /\ UNCHANGED <<peer, phone>>
       ELSE HangUp(p)
    /\ UNCHANGED <<transport, faults>>

MutantCheckProof(p) ==
    IF wire.kind = "cmd1" /\ holder = p /\ ahead = Proof
    THEN /\ st' = "done"
         /\ checked' = TRUE
         /\ ahead' = ahead - 2 * Proof
         /\ Send("resp1", Proof)
         /\ UNCHANGED walked
    ELSE /\ walked' = walked + Proof
         /\ Refuse
         /\ UNCHANGED <<st, checked, ahead>>

\* handle_cmd1: the check walks the stream also when it fails, and the state
\* stays; the answer takes the next part of the stream.
CheckProof(p) ==
    IF st = "cmd1" /\ wire.kind = "cmd1" /\ holder = p /\ ahead = Proof
    THEN /\ st' = "done"
         /\ checked' = TRUE
         /\ ahead' = ahead - 2 * Proof
         /\ Send("resp1", Proof)
         /\ UNCHANGED walked
    ELSE /\ walked' = IF st = "cmd1" THEN walked + Proof ELSE walked
         /\ Refuse
         /\ UNCHANGED <<st, checked, ahead>>

DeviceCmd1(p) ==
    /\ peer = p /\ wire.kind \in {"cmd1", "wrong"} /\ ~Reopens(p)
    /\ EnsureSession(p)
    /\ CheckProof(p)
    /\ UNCHANGED <<transport, holder, lost, peer, phone, faults>>

\* prov-config, prov-scan: decipher, dispatch, encipher the answer.
DeviceCommand(p) ==
    /\ peer = p /\ wire.kind = "command" /\ ~Reopens(p)
    /\ st = "done" /\ holder = p /\ ahead = wire.len
    /\ EnsureSession(p)
    /\ \E n \in Lengths : Send("answer", n) /\ ahead' = ahead - wire.len - n
    /\ UNCHANGED <<transport, st, holder, checked, walked, lost, peer, phone, faults>>

MutantDeviceNoise(p) ==
    /\ peer = p /\ wire.kind \in {"command", "malformed"} /\ ~Reopens(p)
    /\ st = "done" /\ ~(wire.kind = "command" /\ holder = p /\ ahead = wire.len)
    /\ EnsureSession(p)
    /\ IF transport = "ble" THEN Refuse ELSE wire' = Nothing
    /\ UNCHANGED <<transport, st, holder, checked, walked, ahead, lost, peer, phone,
                   faults>>

\* Deciphered, and not understood: the stream has moved all the same.
DeviceNoise(p) ==
    /\ peer = p /\ wire.kind \in {"command", "malformed"} /\ ~Reopens(p)
    /\ st = "done" /\ ~(wire.kind = "command" /\ holder = p /\ ahead = wire.len)
    /\ EnsureSession(p)
    /\ ahead' = IF holder = p THEN ahead - wire.len ELSE ahead
    /\ IF transport = "ble" THEN Refuse ELSE wire' = Nothing
    /\ UNCHANGED <<transport, st, holder, checked, walked, lost, peer, phone, faults>>

\* esp_prov_sec1_is_ready says no.
DeviceNotReady(p) ==
    /\ peer = p /\ wire.kind \in {"command", "malformed"} /\ ~Reopens(p)
    /\ st # "done"
    /\ first' = FALSE
    /\ IF transport = "ble" THEN Refuse /\ UNCHANGED <<peer, phone>> ELSE HangUp(p)
    /\ UNCHANGED <<transport, contextVars, cookie, faults>>

-------------------------------------------------------------------------------
Phone(p) == SendCmd0(p) \/ SendCmd1(p) \/ SendCommand(p) \/ Receive(p) \/ GiveUp(p)
Device(p) == DeviceCmd0(p) \/ DeviceReopens(p) \/ DeviceCmd1(p) \/ DeviceCommand(p)
             \/ DeviceNoise(p) \/ DeviceNotReady(p)

Next ==
    \/ \E p \in Phones : Connect(p) \/ Phone(p) \/ Device(p)
                       \/ TryAgain(p) \/ SendEarly(p)
    \/ Disconnect

Spec == Init /\ [][Next]_vars

FairSpec ==
    /\ Spec
    /\ WF_vars(\E p \in Phones : Connect(p))
    /\ WF_vars(\E p \in Phones : Phone(p))
    /\ WF_vars(\E p \in Phones : Device(p))

-------------------------------------------------------------------------------
\* Both ends are at the same place whenever both rest, unless a message was lost
\* under this key: no refusal, wrong proof or malformed command moves one only.
InStep ==
    \A p \in Phones :
        st = "done" /\ ~lost /\ wire = Nothing /\ holder = p /\ phone[p] = "ready"
            => ahead = 0

\* A context that deciphers commands has seen a right proof of its present key,
\* whatever failed or came between.
ReadyIsProven == st = "done" => checked /\ holder # NoPhone

\* A key belongs to the phone the context was opened for: a client without the
\* cookie does not continue the session of another.  (Over BLE: among the phones
\* whose links ble_connected takes.)
ContextIsHolders == holder # NoPhone => opened = holder

\* Once the faults are over, commands are answered again, without a restart of
\* the device: a new key exchange repairs every state.
Recovers == []<>(wire.kind = "answer")
===============================================================================
