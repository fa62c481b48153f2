------------------------------ MODULE Exchange ------------------------------
(***************************************************************************)
(* packages/miot-device below MiotDevice: MiotTransport and the packets.    *)
(* A call is one exchange of datagrams (a bulk read: one for each property) *)
(* over a socket of its own, and four callbacks race to settle it: the      *)
(* answer, a socket error, the callback of send, and the timer.             *)
(*                                                                          *)
(* MD5 and AES are constructors: a sealed body opens under the token it was *)
(* sealed with, a checksum fits the header, token and body it was made of.  *)
(* A value the device answers is named by the stamp of the packet that asks *)
(* for it.  The device answers what it gets over the socket it got it from; *)
(* a socket that is closed hears nothing more.                              *)
(***************************************************************************)
EXTENDS Absence, Naturals, Sequences

CONSTANTS
    MaxUint,     \* 0xFFFFFFFF: what fits a uint32 of the header
    Dids,        \* the device ids calls are made with
    Codes        \* the codes of refusals

VARIABLES
    token,       \* the configured token: the device's, another one, or of another length
    call,        \* the call under way, or None
    wire,        \* its packet on the way to the device, or None
    inbox,       \* the datagram on its way back, or None
    timer,       \* the timer is armed
    settled,     \* settled
    closes,      \* ghost: how often socket.close() was called on this socket
    owed,        \* the callback of send has not come
    json,        \* what the exchange resolved with, before the call goes on
    verdict,     \* how the call that ended last did
    said,        \* ghost: what the device understood in this call, what it answered to that,
                 \*   and all items it has answered in this call so far
    faults       \* ghost: what went wrong on the way in this exchange

exchangeVars == <<token, call, wire, inbox, timer, settled, closes, owed, json, verdict, said, faults>>
socketVars == <<wire, inbox, timer, settled, closes, owed, faults>>

DeviceToken == "device"
Tokens == {DeviceToken, "another", "short"}

-----------------------------------------------------------------------------
\* BasePacket, OutgoingPacket: the header takes ids and stamps that fit, a token is 16
\* bytes, and the checksum is over the header, the token and the sealed body.
Header(did, stamp) == [did |-> did, stamp |-> stamp]
Sum(header, tk, body) == <<header, tk, body>>
Seal(tk, plain) == [key |-> tk, plain |-> plain]
Throws(did, stamp) == token = "short" \/ did > MaxUint \/ stamp > MaxUint

Outgoing(did, stamp, method) ==
    [header |-> Header(did, stamp), body |-> Seal(token, method), sum |-> Sum(Header(did, stamp), token, Seal(token, method))]
HelloPacket == [header |-> Header(MaxUint, MaxUint), body |-> None, sum |-> None]

\* A socket, the timer, and the packet given to send.
Opens(packet) ==
    /\ wire' = packet /\ inbox' = None /\ timer' = TRUE /\ settled' = FALSE
    /\ closes' = 0 /\ owed' = TRUE /\ faults' = {}

Fail(kind, code) == [kind |-> kind, code |-> code, value |-> None, finalStamp |-> None]
Ends(v) == call' = None /\ verdict' = v

\* sendCommand throws before there is a socket.
SendCommand(c) ==
    IF Throws(c.did, c.stamp) THEN Ends(Fail("thrown", None)) /\ UNCHANGED socketVars
    ELSE call' = c /\ verdict' = None /\ Opens(Outgoing(c.did, c.stamp, c.op))

-----------------------------------------------------------------------------
ExchangeInit ==
    /\ token \in Tokens
    /\ call = None /\ wire = None /\ inbox = None /\ timer = FALSE /\ settled = TRUE
    /\ closes = 0 /\ owed = FALSE /\ json = None /\ verdict = None /\ said = <<>> /\ faults = {}

Handshake ==
    /\ call = None
    /\ call' = [op |-> "handshake", did |-> MaxUint, stamp |-> MaxUint, left |-> 1, results |-> <<>>]
    /\ Opens(HelloPacket)
    /\ said' = <<>> /\ json' = None /\ verdict' = None /\ UNCHANGED token

\* getProperty, setProperty, callAction, and getProperties for n properties
Command(op, n, did, stamp) ==
    /\ call = None
    /\ n = 1 \/ op = "get_many"
    /\ SendCommand([op |-> op, did |-> did, stamp |-> stamp, left |-> n, results |-> <<>>])
    /\ said' = <<>> /\ json' = None /\ UNCHANGED token

-----------------------------------------------------------------------------
\* The device answers a hello with its id and stamp, a packet it can open with items (one
\* for the property, or none), or with an error; an acknowledgement has no body.  A packet
\* under another token it drops, or answers under its own.  Either may arrive cut short or
\* spoilt.
Items(p) == {<<>>} \cup {<<[code |-> c, value |-> IF c = 0 THEN p.header.stamp ELSE None]>> : c \in Codes \cup {0}}
Bodies(p) == {[error |-> c] : c \in Codes} \cup {[result |-> i] : i \in Items(p)}
Understood(p) == p.sum = Sum(p.header, DeviceToken, p.body)
Reply(plain) ==
    LET h == Header(1, 1) IN
    [full |-> TRUE, magic |-> TRUE, header |-> h, body |-> Seal(DeviceToken, plain), sum |-> Sum(h, DeviceToken, Seal(DeviceToken, plain))]
Junk == [text |-> "no JSON"]
Acknowledgement == [Reply(None) EXCEPT !.body = None]

\* What the values are that None stands in for.
Ops == {"get", "set", "action", "get_many"}
Item == [code : Codes \cup {0}, value : Nat \cup {None}]
Body == [error : Codes] \cup [result : Seq(Item)]
Sealed == [key : Tokens, plain : Body \cup {Junk, None}] \cup [key : Tokens, plain : Ops]
Sums == {Header(1, 1)} \X Tokens \X Sealed
Saying == [stamp : Nat, op : Ops, plain : Body, items : Seq(Item)]
Calls == [op : Ops \cup {"handshake"}, did : Nat, stamp : Nat, left : Nat \ {0}, results : Seq(Item)]
Failures == [kind : {"transport_error", "device_error"}, code : Codes \cup {None}, value : {None}, finalStamp : {None}]

ASSUME ExchangeAssumption ==
    /\ MaxUint \in Nat /\ Dids \subseteq Nat
    /\ None \notin Body \cup Sealed \cup Sums \cup Calls \cup Failures \cup {Header(1, 1)}

Answered == said # <<>>
LastSaid == said[Len(said)]
Collected == IF Answered THEN LastSaid.items ELSE <<>>
Given(plain) == IF "result" \in DOMAIN plain THEN plain.result ELSE <<>>

DeviceAnswers(plain) ==
    /\ wire # None /\ wire' = None
    /\ inbox' = IF wire = HelloPacket \/ plain = None THEN Acknowledgement ELSE Reply(plain)
    /\ IF wire # HelloPacket /\ plain # None /\ Understood(wire)
       THEN said' = Append(said, [stamp |-> wire.header.stamp, op |-> wire.body.plain, plain |-> plain,
                                  items |-> Collected \o Given(plain)])
       ELSE UNCHANGED said
    /\ faults' = faults \cup (IF wire # HelloPacket /\ plain = None THEN {"empty"} ELSE {})
    /\ UNCHANGED <<token, call, timer, settled, closes, owed, json, verdict>>

Loses ==
    /\ wire # None \/ inbox # None
    /\ wire' = None /\ inbox' = None
    /\ UNCHANGED <<token, call, timer, settled, closes, owed, json, verdict, said, faults>>

Damages(how) ==
    /\ inbox # None
    /\ inbox' = CASE how = "short" -> [inbox EXCEPT !.full = FALSE]
                  [] how = "magic" -> [inbox EXCEPT !.magic = FALSE]
                  [] how = "body" -> [inbox EXCEPT !.sum = None]
                  [] how = "text" -> IF inbox.body = None THEN inbox ELSE Reply(Junk)
    /\ faults' = faults \cup {how}
    /\ UNCHANGED <<token, call, wire, timer, settled, closes, owed, json, verdict, said>>

-----------------------------------------------------------------------------
\* done(err): who comes first settles the exchange and closes the socket; who comes later
\* finds it settled.  (Mutant: whoever comes settles it.)
DoneUnguarded(v) == settled' = TRUE /\ closes' = closes + 1 /\ Ends(v)
Done(v) ==
    IF settled THEN UNCHANGED <<settled, closes, call, verdict>>
    ELSE settled' = TRUE /\ closes' = closes + 1 /\ Ends(v)

TimerFires ==
    /\ timer /\ timer' = FALSE
    /\ Done(Fail("timeout", None))
    /\ UNCHANGED <<token, wire, inbox, owed, json, said, faults>>

SocketError ==
    /\ call # None /\ ~ settled
    /\ timer' = FALSE /\ faults' = faults \cup {"socket"}
    /\ Done(Fail("transport_error", None))
    /\ UNCHANGED <<token, wire, inbox, owed, json, said>>

\* A socket closed in the meantime fails the send that is not finished.
SendCallback(failed) ==
    /\ owed /\ owed' = FALSE
    /\ timer' = (timer /\ ~ failed)
    /\ IF failed THEN Done(Fail("transport_error", None)) /\ faults' = faults \cup (IF settled THEN {} ELSE {"send"})
       ELSE UNCHANGED <<settled, closes, call, verdict, faults>>
    /\ UNCHANGED <<token, wire, inbox, json, said>>

\* IncomingPacket: too short, no body, a checksum that does not fit, text that is no JSON
Opened(r) ==
    IF ~ r.full THEN [throws |-> TRUE]
    ELSE IF r.body = None THEN [json |-> None]
    ELSE IF r.sum # Sum(r.header, token, r.body) \/ r.body.plain = Junk THEN [throws |-> TRUE]
    ELSE [json |-> r.body.plain]
ParseHello(r) == IF ~ r.full \/ ~ r.magic THEN [throws |-> TRUE] ELSE [json |-> r.header]

\* The answer, or its refusal.
Message ==
    LET o == IF call.op = "handshake" THEN ParseHello(inbox) ELSE Opened(inbox)
        failure == CASE "throws" \in DOMAIN o -> Fail("transport_error", None)
                     [] "json" \in DOMAIN o /\ o.json = None -> Fail("transport_error", None)
                     [] "json" \in DOMAIN o /\ o.json # None ->
                            IF "error" \in DOMAIN o.json THEN Fail("device_error", o.json.error) ELSE None
    IN
    /\ inbox # None /\ call # None /\ ~ settled
    /\ timer' = FALSE /\ settled' = TRUE /\ closes' = closes + 1 /\ inbox' = None
    /\ IF failure # None THEN Ends(failure) /\ json' = None
       ELSE json' = o.json /\ UNCHANGED <<call, verdict>>
    /\ UNCHANGED <<token, wire, owed, said, faults>>

\* The call goes on with the answer: one property is refused by the code of its item, or
\* by there being none, and read or just written; an action is done, whatever the code; a bulk
\* read takes every item, refused ones too, and goes on to its next property under the next
\* stamp.
Succeeds(value, last) == Ends([kind |-> "ok", code |-> None, value |-> value, finalStamp |-> last])
ItemRefused(items) == items = <<>> \/ items[1].code # 0

HandshakeReturns ==
    /\ json # None /\ call.op = "handshake"
    /\ Succeeds(json, None)
    /\ json' = None /\ UNCHANGED <<token, said, socketVars>>

PropertyReturns ==
    /\ json # None /\ call.op \in {"get", "set"}
    /\ IF ItemRefused(json.result)
       THEN Ends(Fail("device_error", IF json.result = <<>> THEN None ELSE json.result[1].code))
       ELSE Succeeds(IF call.op = "get" THEN json.result[1].value ELSE None, None)
    /\ json' = None /\ UNCHANGED <<token, said, socketVars>>

ActionReturns ==
    /\ json # None /\ call.op = "action"
    /\ Succeeds(None, None)
    /\ json' = None /\ UNCHANGED <<token, said, socketVars>>

NextProperty ==
    LET results == call.results \o json.result IN
    /\ json # None /\ call.op = "get_many"
    /\ IF call.left = 1 THEN Succeeds(results, call.stamp) /\ UNCHANGED socketVars
       ELSE SendCommand([call EXCEPT !.left = @ - 1, !.stamp = @ + 1, !.results = results])
    /\ json' = None /\ UNCHANGED <<token, said>>

ExchangeNext ==
    \/ Handshake
    \/ \E op \in {"get", "set", "action", "get_many"}, n \in 1..2, did \in Dids, s \in {1, MaxUint, MaxUint + 1} : Command(op, n, did, s)
    \/ wire # None /\ \E plain \in Bodies(wire) \cup {None} : DeviceAnswers(plain)
    \/ Loses \/ \E how \in {"short", "magic", "body", "text"} : Damages(how)
    \/ TimerFires \/ SocketError \/ Message \/ \E failed \in BOOLEAN : SendCallback(failed)
    \/ HandshakeReturns \/ PropertyReturns \/ ActionReturns \/ NextProperty

\* The timer fires and the call goes on; the network and the device owe nothing.
Returns == HandshakeReturns \/ PropertyReturns \/ ActionReturns \/ NextProperty
ExchangeSpec == ExchangeInit /\ [][ExchangeNext]_exchangeVars /\ WF_exchangeVars(TimerFires) /\ WF_exchangeVars(Returns)

-----------------------------------------------------------------------------
Datagram == [full : BOOLEAN, magic : BOOLEAN, header : {Header(1, 1)}, body : Sealed \cup {None}, sum : Sums \cup {None}]

ExchangeTypeOK ==
    /\ token \in Tokens /\ call \in Calls \cup {None} /\ inbox \in Datagram \cup {None}
    /\ timer \in BOOLEAN /\ settled \in BOOLEAN /\ closes \in {0, 1} /\ owed \in BOOLEAN
    /\ said \in Seq(Saying)
    /\ faults \subseteq {"empty", "short", "magic", "body", "text", "socket", "send"}

\* What the call resolves with is what the device answered to the packets of this very call: a
\* read, the value of the one item, which was not refused; a write, that it was not refused; an
\* action, no more than that it was not an error; a bulk read, every item in the order asked,
\* with the stamp last used.  Without a packet of a command, it is the header of a hello.
Resolution ==
    IF ~ Answered THEN verdict.value = Header(1, 1)
    ELSE /\ "result" \in DOMAIN LastSaid.plain
         /\ LET items == LastSaid.plain.result IN
            \/ /\ LastSaid.op \in {"get", "set"} /\ items # <<>> /\ items[1].code = 0
               /\ verdict.value = IF LastSaid.op = "get" THEN items[1].value ELSE None
            \/ LastSaid.op = "action" /\ verdict.value = None
            \/ /\ LastSaid.op = "get_many" /\ verdict.value = LastSaid.items
               /\ verdict.finalStamp = LastSaid.stamp
               /\ \A i, j \in DOMAIN said : i < j => said[i].stamp < said[j].stamp

\* A refusal is the device's: its error, or the code of the one item of a read or a write.
Refusal ==
    /\ Answered
    /\ \/ "error" \in DOMAIN LastSaid.plain /\ LastSaid.plain.error = verdict.code
       \/ /\ "result" \in DOMAIN LastSaid.plain /\ LastSaid.op \in {"get", "set"}
          /\ LET items == LastSaid.plain.result IN
             IF items = <<>> THEN verdict.code = None
             ELSE items[1].code # 0 /\ items[1].code = verdict.code

\* The verdict on a call is the truth (MiotError.ts, "Device error", "Empty response"): one
\* verdict, one closed socket, whoever of the four callbacks is late; a success and a device
\* error are what the device said; and a transport error is never the name for an answer that
\* arrived whole.
VerdictIsTrue ==
    /\ closes <= 1
    /\ verdict # None =>
         /\ verdict.kind = "ok" => Resolution
         /\ verdict.kind = "device_error" => Refusal
         /\ verdict.kind = "timeout" => faults \cap {"socket", "send"} = {}
         /\ verdict.kind = "transport_error" => faults # {} \/ token # DeviceToken
=============================================================================
