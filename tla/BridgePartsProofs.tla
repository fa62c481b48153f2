-------------------------- MODULE BridgePartsProofs --------------------------
(***************************************************************************)
(* Parts of the bridge: the exchange of datagrams with a device, the       *)
(* storage of its registered devices, commands and bulk reads by key, the  *)
(* clients of external APIs, and what is told of all that.                 *)
(*                                                                         *)
(* The verdict on a call to a device is the truth, for any ids, codes and  *)
(* stamps: the invariant follows the one packet of a call out and back, so *)
(* that what comes back is either what the device said to it or the work   *)
(* of a fault that is on record.                                           *)
(*                                                                         *)
(* What a change of the registered devices did that ran alone holds, and   *)
(* instances are out of date only by deletions or overlapping changes, for *)
(* any number of requests, devices and addresses.  Nothing keeps changes   *)
(* of the file apart, so the invariant speaks of every list one of them    *)
(* has read: each holds the records of lone changes, because whoever makes *)
(* a list out of date has met whoever read it.                             *)
(*                                                                         *)
(* A key reaches its property, for any specifications and rows: a call     *)
(* carries the table it resolved, and that table is a mapping of the rows  *)
(* it read; the youngest row for a key is what the mapper leaves under it. *)
(*                                                                         *)
(* A failure of an external API is named after its cause, for any entries  *)
(* and statuses: attempts made and attempts left add up to the budget of a *)
(* pass, and what a request has logged tells which pass it is in.          *)
(*                                                                         *)
(* Whatever is sampled, everything is counted and the spans of a run are   *)
(* those of its work: below a job every context has the trace of the run,  *)
(* or every context is suppressed.                                         *)
(***************************************************************************)
EXTENDS DeviceStore, Exchange, DeviceCommands, HttpProvider, Telemetry,
        SequenceTheorems, WellFoundedInduction, TLAPS

\* The packets the device has understood in this call have rising stamps.
Rising == \A i, j \in DOMAIN said : i < j => said[i].stamp < said[j].stamp

\* A packet on the way, of this call or of one that timed out, has not been answered yet.
PacketOut(did, stamp, op) == wire = Outgoing(did, stamp, op)
OnTheWay ==
    wire # None =>
        /\ inbox = None
        /\ \/ wire = HelloPacket
           \/ \E did \in Nat, stamp \in Nat, op \in Ops :
                 PacketOut(did, stamp, op) /\ \A j \in DOMAIN said : said[j].stamp < stamp

\* The socket: it is open as long as the exchange is not settled.
Socket ==
    /\ timer => ~ settled
    /\ ~ settled => closes = 0 /\ call # None /\ faults \cap {"socket", "send"} = {}
    /\ verdict # None => settled

\* The device has heard the packet that is sent now.
Heard ==
    /\ Answered /\ LastSaid.stamp = call.stamp /\ LastSaid.op = call.op
    /\ LastSaid.items = call.results \o Given(LastSaid.plain)

\* What is known of a call under way: its packet is the one it sends now, and what a bulk
\* read has collected is what the device had answered when it was sent.
CallUnderWay ==
    call # None =>
        /\ verdict = None
        /\ call.op = "handshake" => said = <<>>
        /\ wire # None => /\ ~ settled /\ call.results = Collected
                          /\ IF call.op = "handshake" THEN wire = HelloPacket
                             ELSE PacketOut(call.did, call.stamp, call.op)
        /\ inbox # None => ~ settled
        /\ settled => json # None

\* A datagram on its way back is what the device said, or something is known to be wrong.
Truthful ==
    call # None /\ inbox # None =>
        /\ ~ inbox.full => "short" \in faults
        /\ ~ inbox.magic => "magic" \in faults
        /\ call.op = "handshake" => inbox.body = None
        /\ call.op # "handshake" /\ inbox.body = None => "empty" \in faults
        /\ inbox.body # None =>
              \E plain \in Body \cup {Junk} :
                 /\ inbox.body = Seal(DeviceToken, plain)
                 /\ plain = Junk => "text" \in faults
                 /\ inbox.sum = Sum(inbox.header, DeviceToken, inbox.body) \/ (inbox.sum = None /\ "body" \in faults)
                 /\ plain # Junk /\ token = DeviceToken => Heard /\ LastSaid.plain = plain

\* An exchange that resolved, before its call goes on, with what the device said.
Resolved ==
    json # None =>
        /\ call # None /\ settled /\ wire = None /\ inbox = None
        /\ IF call.op = "handshake" THEN json = Header(1, 1)
           ELSE Heard /\ LastSaid.plain = json /\ json \in [result : Seq(Item)]

\* The verdict that counts as an answer leaves nothing on the way.
Final == verdict # None /\ verdict.kind \in {"ok", "device_error"} => wire = None

ExchangeInv ==
    /\ ExchangeTypeOK /\ Rising /\ OnTheWay /\ Socket /\ CallUnderWay /\ Truthful /\ Resolved
    /\ Final /\ VerdictIsTrue

-----------------------------------------------------------------------------
\* A sealed body says what was sealed, and under which token.
LEMMA Seals ==
    /\ \A tk \in Tokens, plain \in Body \cup {Junk, None} \cup Ops : Seal(tk, plain) \in Sealed
    /\ \A tk, plain : Seal(tk, plain).key = tk /\ Seal(tk, plain).plain = plain
    /\ \A tk \in Tokens, b \in Sealed : Sum(Header(1, 1), tk, b) \in Sums
    /\ \A h1, tk1, b1, h2, tk2, b2 : Sum(h1, tk1, b1) = Sum(h2, tk2, b2) => h1 = h2 /\ tk1 = tk2 /\ b1 = b2
    /\ \A b \in Sealed : b # None
    /\ \A s \in Sums : s # None
BY ExchangeAssumption DEF Seal, Sealed, Sum, Sums

\* What a device says is no junk, and refuses or answers.
LEMMA Bodied ==
    ASSUME NEW b \in Body
    PROVE  /\ b # None /\ b # Junk
           /\ "error" \in DOMAIN b => b.error \in Codes /\ "result" \notin DOMAIN b
           /\ "error" \notin DOMAIN b => b \in [result : Seq(Item)] /\ "result" \in DOMAIN b
<1>1. b # None
    BY ExchangeAssumption
<1>2. CASE b \in [error : Codes]
    <2>1. "error" \in DOMAIN b /\ "result" \notin DOMAIN b /\ b.error \in Codes
        BY <1>2
    <2>2. "error" \notin DOMAIN Junk
        BY DEF Junk
    <2>3. QED
        BY <1>1, <2>1, <2>2
<1>3. CASE b \in [result : Seq(Item)]
    <2>1. "result" \in DOMAIN b /\ "error" \notin DOMAIN b
        BY <1>3
    <2>2. "result" \notin DOMAIN Junk
        BY DEF Junk
    <2>3. QED
        BY <1>1, <1>3, <2>1, <2>2
<1>4. QED
    BY <1>2, <1>3 DEF Body

\* The device answers with a body.
LEMMA BodiesAre ==
    ASSUME NEW p, p.header.stamp \in Nat, NEW b \in Bodies(p)
    PROVE  b \in Body
<1>1. CASE \E c \in Codes : b = [error |-> c]
    BY <1>1 DEF Body
<1>2. CASE \E items \in Items(p) : b = [result |-> items]
    <2>1. PICK items \in Items(p) : b = [result |-> items]
        BY <1>2
    <2>2. CASE items = <<>>
        BY <2>1, <2>2 DEF Body
    <2>3. CASE items # <<>>
        <3>1. PICK c \in Codes \cup {0} : items = <<[code |-> c, value |-> IF c = 0 THEN p.header.stamp ELSE None]>>
            BY <2>3 DEF Items
        <3>2. PICK i : i = [code |-> c, value |-> IF c = 0 THEN p.header.stamp ELSE None]
            OBVIOUS
        <3>3. i \in Item /\ items = <<i>>
            BY <3>1, <3>2 DEF Item
        <3>4. QED
            BY <2>1, <3>3 DEF Body
    <2>4. QED
        BY <2>2, <2>3
<1>3. QED
    BY <1>1, <1>2 DEF Bodies

\* What a body gives is a list of items.
LEMMA GivenItems ==
    ASSUME NEW b \in Body
    PROVE  Given(b) \in Seq(Item)
<1>1. CASE "result" \in DOMAIN b
    BY <1>1 DEF Given, Body
<1>2. CASE "result" \notin DOMAIN b
    <2>1. <<>> \in Seq(Item)
        OBVIOUS
    <2>2. QED
        BY <1>2, <2>1 DEF Given
<1>3. QED
    BY <1>1, <1>2

\* What has been collected is a list of items, and an answer makes it longer.
LEMMA CollectedItems ==
    ASSUME said \in Seq(Saying)
    PROVE  Collected \in Seq(Item)
<1>1. CASE ~ Answered
    <2>1. <<>> \in Seq(Item)
        OBVIOUS
    <2>2. QED
        BY <1>1, <2>1 DEF Collected
<1>2. CASE Answered
    <2>1. Len(said) \in DOMAIN said
        BY <1>2 DEF Answered
    <2>2. PICK e \in Saying : e = said[Len(said)]
        BY <2>1
    <2>3. e.items \in Seq(Item)
        BY DEF Saying
    <2>4. QED
        BY <1>2, <2>2, <2>3 DEF Collected, LastSaid
<1>3. QED
    BY <1>1, <1>2

\* A packet with a command is no hello.
LEMMA OutgoingIs ==
    ASSUME token \in Tokens, NEW did, NEW stamp, NEW op \in Ops
    PROVE  /\ Outgoing(did, stamp, op) # HelloPacket
           /\ Outgoing(did, stamp, op).header.stamp = stamp /\ Outgoing(did, stamp, op).body.plain = op
           /\ Understood(Outgoing(did, stamp, op)) <=> token = DeviceToken
<1>1. Seal(token, op) # None
    BY Seals
<1>2. Outgoing(did, stamp, op).body = Seal(token, op) /\ HelloPacket.body = None
    BY DEF Outgoing, HelloPacket
<1>3. Outgoing(did, stamp, op).header.stamp = stamp /\ Outgoing(did, stamp, op).body.plain = op
    BY DEF Outgoing, Header, Seal
<1>4. Understood(Outgoing(did, stamp, op)) <=> token = DeviceToken
    BY Seals DEF Understood, Outgoing
<1>5. QED
    BY <1>1, <1>2, <1>3, <1>4

\* A datagram of the device is well formed, and says what was sealed into it.
LEMMA RepliesAre ==
    /\ Acknowledgement \in Datagram /\ Acknowledgement.full /\ Acknowledgement.magic
    /\ Acknowledgement.body = None /\ Acknowledgement.header = Header(1, 1)
    /\ \A plain \in Body \cup {Junk} :
          /\ Reply(plain) \in Datagram /\ Reply(plain).full /\ Reply(plain).magic
          /\ Reply(plain).header = Header(1, 1) /\ Reply(plain).body = Seal(DeviceToken, plain)
          /\ Reply(plain).sum = Sum(Header(1, 1), DeviceToken, Seal(DeviceToken, plain))
<1>1. DeviceToken \in Tokens
    BY DEF Tokens
<1>2. \A plain \in Body \cup {Junk, None} :
          /\ Reply(plain).full /\ Reply(plain).magic /\ DOMAIN Reply(plain) = {"full", "magic", "header", "body", "sum"}
          /\ Reply(plain).header = Header(1, 1) /\ Reply(plain).body = Seal(DeviceToken, plain)
          /\ Reply(plain).sum = Sum(Header(1, 1), DeviceToken, Seal(DeviceToken, plain))
          /\ Seal(DeviceToken, plain) \in Sealed
          /\ Sum(Header(1, 1), DeviceToken, Seal(DeviceToken, plain)) \in Sums
          /\ Reply(plain) \in Datagram
    <2>1. TAKE plain \in Body \cup {Junk, None}
    <2>2. PICK b \in Sealed : b = Seal(DeviceToken, plain)
        BY <1>1, Seals
    <2>3. PICK s \in Sums : s = Sum(Header(1, 1), DeviceToken, b)
        BY <1>1, Seals
    <2>4. Reply(plain) = [full |-> TRUE, magic |-> TRUE, header |-> Header(1, 1), body |-> b, sum |-> s]
        BY <2>2, <2>3 DEF Reply
    <2>5. QED
        BY <2>2, <2>3, <2>4 DEF Datagram
<1>3. Acknowledgement = [Reply(None) EXCEPT !.body = None]
    BY DEF Acknowledgement
<1>4. PICK r \in Datagram : r = Reply(None) /\ r.full /\ r.magic /\ r.header = Header(1, 1)
    BY <1>2
<1>5. Acknowledgement \in Datagram /\ Acknowledgement.full /\ Acknowledgement.magic
      /\ Acknowledgement.body = None /\ Acknowledgement.header = Header(1, 1)
    BY <1>3, <1>4 DEF Datagram
<1>6. QED
    BY <1>2, <1>5

\* The packet under way is the same as long as it stays on the wire.
LEMMA SamePacket ==
    ASSUME token' = token, wire' = wire
    PROVE  \A did, stamp, op : PacketOut(did, stamp, op)' = PacketOut(did, stamp, op)
BY DEF PacketOut, Outgoing, Seal, Sum, Header

\* What the device said, and what a verdict says of that, is the same as long as nothing is added.
LEMMA SameSaid ==
    ASSUME said' = said
    PROVE  Answered' = Answered /\ LastSaid' = LastSaid /\ Collected' = Collected
BY DEF Answered, LastSaid, Collected

LEMMA SameVerdict ==
    ASSUME said' = said, verdict' = verdict
    PROVE  (Resolution' <=> Resolution) /\ (Refusal' <=> Refusal)
BY DEF Resolution, Refusal, Answered, LastSaid, Header

\* The device token is one, and so on: the types at hand.
LEMMA Typed ==
    ASSUME ExchangeInv
    PROVE  /\ token \in Tokens /\ call \in Calls \cup {None} /\ inbox \in Datagram \cup {None}
           /\ said \in Seq(Saying)
           /\ Len(said) \in Nat /\ DOMAIN said = 1..Len(said)
           /\ call # None => call.stamp \in Nat /\ call.results \in Seq(Item) /\ call.op \in Ops \cup {"handshake"}
                             /\ call.left \in Nat \ {0} /\ call.did \in Nat
<1>1. /\ token \in Tokens /\ call \in Calls \cup {None} /\ inbox \in Datagram \cup {None}
      /\ said \in Seq(Saying)
    BY DEF ExchangeInv, ExchangeTypeOK
<1>2. Len(said) \in Nat /\ DOMAIN said = 1..Len(said)
    BY <1>1
<1>3. \A c \in Calls : c.stamp \in Nat /\ c.results \in Seq(Item) /\ c.op \in Ops \cup {"handshake"}
                       /\ c.left \in Nat \ {0} /\ c.did \in Nat
    BY DEF Calls
<1>4. QED
    BY <1>1, <1>2, <1>3

-----------------------------------------------------------------------------
\* Nothing is under way at first.
LEMMA ExchangeStarts == ExchangeInit => ExchangeInv
<1>1. SUFFICES ASSUME ExchangeInit PROVE ExchangeInv
    OBVIOUS
<1>2. DOMAIN said = {} /\ said \in Seq(Saying)
    BY <1>1 DEF ExchangeInit
<1>3. ExchangeTypeOK
    BY <1>1, <1>2 DEF ExchangeInit, ExchangeTypeOK
<1>4. Rising
    BY <1>2 DEF Rising
<1>5. OnTheWay /\ Socket /\ CallUnderWay /\ Truthful /\ Resolved /\ Final /\ VerdictIsTrue
    BY <1>1 DEF ExchangeInit, OnTheWay, Socket, CallUnderWay, Truthful, Resolved, Final, VerdictIsTrue
<1>6. QED
    BY <1>3, <1>4, <1>5 DEF ExchangeInv

\* The call ends with a verdict, and its socket is closed.
LEMMA EndsInv ==
    ASSUME ExchangeInv, call' = None, json' = None, settled' = TRUE, UNCHANGED <<token, wire, said>>,
           timer' = FALSE \/ (settled /\ timer' = timer), owed' \in BOOLEAN, closes' \in {0, 1},
           inbox' = inbox \/ inbox' = None,
           faults' \subseteq {"empty", "short", "magic", "body", "text", "socket", "send"},
           Final', VerdictIsTrue'
    PROVE  ExchangeInv'
<1>1. ExchangeTypeOK'
    BY DEF ExchangeInv, ExchangeTypeOK
<1>2. Rising'
    BY DEF ExchangeInv, Rising
<1>3. OnTheWay'
    BY SamePacket DEF ExchangeInv, OnTheWay
<1>4. Socket'
    BY DEF ExchangeInv, Socket
<1>5. CallUnderWay' /\ Truthful' /\ Resolved'
    BY DEF CallUnderWay, Truthful, Resolved
<1>6. QED
    BY <1>1, <1>2, <1>3, <1>4, <1>5 DEF ExchangeInv

\* One of the callbacks settles the exchange with a failure.
LEMMA FailedInv ==
    ASSUME ExchangeInv, ~ settled, NEW kind \in {"timeout", "transport_error"},
           settled' = TRUE, closes' = closes + 1, call' = None, verdict' = Fail(kind, None),
           timer' = FALSE, owed' \in BOOLEAN, UNCHANGED <<token, wire, said>>, json' = None,
           inbox' = inbox \/ inbox' = None,
           faults' \subseteq {"empty", "short", "magic", "body", "text", "socket", "send"},
           kind = "timeout" => faults' = faults,
           kind = "transport_error" => faults' # {} \/ token # DeviceToken
    PROVE  ExchangeInv'
<1>1. closes = 0 /\ closes' = 1 /\ faults \cap {"socket", "send"} = {}
    BY DEF ExchangeInv, Socket
<1>2. verdict'.kind = kind
    BY DEF Fail
<1>3. Final' /\ VerdictIsTrue'
    BY <1>1, <1>2 DEF Final, VerdictIsTrue
<1>4. QED
    BY <1>1, <1>3, EndsInv

\* As long as the socket is open nothing has resolved.
LEMMA OpenUnresolved ==
    ASSUME ExchangeInv, ~ settled
    PROVE  json = None
BY DEF ExchangeInv, Resolved

\* The timer settles an open exchange as a timeout, and finds a settled one disarmed.
LEMMA TimerFiresInv ==
    ASSUME ExchangeInv, TimerFires
    PROVE  ExchangeInv'
<1>1. ~ settled
    BY DEF ExchangeInv, Socket, TimerFires
<1>2. owed' \in BOOLEAN
    BY DEF ExchangeInv, ExchangeTypeOK, TimerFires
<1>3. faults' \subseteq {"empty", "short", "magic", "body", "text", "socket", "send"}
    BY DEF ExchangeInv, ExchangeTypeOK, TimerFires
<1>4. QED
    BY <1>1, <1>2, <1>3, FailedInv, OpenUnresolved DEF TimerFires, Done, Ends

\* A socket error settles the exchange, and is on record.
LEMMA SocketErrorInv ==
    ASSUME ExchangeInv, SocketError
    PROVE  ExchangeInv'
<1>1. owed' \in BOOLEAN
    BY DEF ExchangeInv, ExchangeTypeOK, SocketError
<1>2. faults' \subseteq {"empty", "short", "magic", "body", "text", "socket", "send"} /\ faults' # {}
    BY DEF ExchangeInv, ExchangeTypeOK, SocketError
<1>3. QED
    BY <1>1, <1>2, FailedInv, OpenUnresolved DEF SocketError, Done, Ends

\* A step that changes neither the call nor its socket's end.
LEMMA AsideInv ==
    ASSUME ExchangeInv, UNCHANGED <<token, call, settled, closes, json, verdict, said>>,
           timer' \in BOOLEAN, timer' => timer, owed' \in BOOLEAN,
           faults' = faults, (wire' = wire /\ inbox' = inbox) \/ (wire' = None /\ inbox' = None)
    PROVE  ExchangeInv'
<1>1. ExchangeTypeOK'
    BY DEF ExchangeInv, ExchangeTypeOK
<1>2. Rising'
    BY DEF ExchangeInv, Rising
<1>3. OnTheWay'
    BY SamePacket DEF ExchangeInv, OnTheWay
<1>4. Socket'
    BY DEF ExchangeInv, Socket
<1>5. CallUnderWay'
    BY SamePacket, SameSaid DEF ExchangeInv, CallUnderWay
<1>6. Truthful'
    BY DEF ExchangeInv, Truthful, Heard, LastSaid, Answered
<1>7. Resolved'
    BY DEF ExchangeInv, Resolved, Heard, LastSaid, Answered
<1>8. Final' /\ VerdictIsTrue'
    BY SameVerdict DEF ExchangeInv, Final, VerdictIsTrue
<1>9. QED
    BY <1>1, <1>2, <1>3, <1>4, <1>5, <1>6, <1>7, <1>8 DEF ExchangeInv

\* The callback of send settles an open exchange if it failed, and is ignored otherwise.
LEMMA SendCallbackInv ==
    ASSUME ExchangeInv, NEW failed \in BOOLEAN, SendCallback(failed)
    PROVE  ExchangeInv'
<1>1. CASE failed /\ ~ settled
    <2>1. timer' = FALSE /\ owed' \in BOOLEAN
        BY <1>1 DEF SendCallback
    <2>2. faults' \subseteq {"empty", "short", "magic", "body", "text", "socket", "send"} /\ faults' # {}
        BY <1>1 DEF ExchangeInv, ExchangeTypeOK, SendCallback
    <2>3. QED
        BY <1>1, <2>1, <2>2, FailedInv, OpenUnresolved DEF SendCallback, Done, Ends
<1>2. CASE ~ failed \/ settled
    <2>1. UNCHANGED <<token, call, settled, closes, json, verdict, said>>
        BY <1>2 DEF SendCallback, Done
    <2>2. faults' = faults /\ wire' = wire /\ inbox' = inbox
        BY <1>2 DEF SendCallback, Done
    <2>3. timer' \in BOOLEAN /\ owed' \in BOOLEAN
        BY DEF SendCallback, ExchangeInv, ExchangeTypeOK
    <2>4. timer' => timer
        BY DEF SendCallback
    <2>5. QED
        BY <2>1, <2>2, <2>3, <2>4, AsideInv
<1>3. QED
    BY <1>1, <1>2

\* A lost packet or datagram leaves less to say.
LEMMA LosesInv ==
    ASSUME ExchangeInv, Loses
    PROVE  ExchangeInv'
<1>1. timer' \in BOOLEAN /\ (timer' => timer) /\ owed' \in BOOLEAN
    BY DEF Loses, ExchangeInv, ExchangeTypeOK
<1>2. QED
    BY <1>1, AsideInv DEF Loses

\* A new exchange: its packet is on the wire, and nothing said in the call so far is as
\* late as it.
LEMMA OpensInv ==
    ASSUME ExchangeInv, NEW c \in Calls, NEW packet, call' = c, verdict' = None, json' = None, token' = token,
           Opens(packet), said' = said \/ said' = <<>>,
           IF c.op = "handshake" THEN packet = HelloPacket /\ said' = <<>> ELSE packet = Outgoing(c.did, c.stamp, c.op),
           \A j \in DOMAIN said' : said'[j].stamp < c.stamp,
           c.results = Collected'
    PROVE  ExchangeInv'
<1>1. /\ said \in Seq(Saying) /\ token \in Tokens
      /\ c.op \in Ops \cup {"handshake"} /\ c.did \in Nat /\ c.stamp \in Nat
    BY Typed DEF Calls
<1>2. ExchangeTypeOK'
    <2>1. said' \in Seq(Saying)
        <3>1. <<>> \in Seq(Saying)
            OBVIOUS
        <3>2. QED
            BY <1>1, <3>1
    <2>2. QED
        BY <1>1, <2>1 DEF ExchangeTypeOK, Opens
<1>3. Rising'
    <2>1. CASE said' = said
        BY <2>1 DEF ExchangeInv, Rising
    <2>2. CASE said' = <<>>
        BY <2>2 DEF Rising
    <2>3. QED
        BY <2>1, <2>2
<1>4. \A did, stamp, op : (wire' = Outgoing(did, stamp, op)) <=> PacketOut(did, stamp, op)'
    BY DEF PacketOut, Outgoing, Seal, Sum, Header
<1>5. OnTheWay'
    <2>1. wire' = packet /\ inbox' = None
        BY DEF Opens
    <2>2. CASE c.op = "handshake"
        BY <2>1, <2>2 DEF OnTheWay, HelloPacket, Header
    <2>3. CASE c.op # "handshake"
        <3>1. c.op \in Ops /\ wire' = Outgoing(c.did, c.stamp, c.op)
            BY <1>1, <2>1, <2>3
        <3>2. PacketOut(c.did, c.stamp, c.op)'
            BY <1>4, <3>1
        <3>3. QED
            BY <1>1, <2>1, <3>1, <3>2 DEF OnTheWay
    <2>4. QED
        BY <2>2, <2>3
<1>6. Socket'
    BY ExchangeAssumption DEF Socket, Opens
<1>7. CallUnderWay'
    <2>1. wire' = packet /\ inbox' = None /\ settled' = FALSE
        BY DEF Opens
    <2>2. c.op # "handshake" => PacketOut(c.did, c.stamp, c.op)'
        BY <1>4, <2>1
    <2>3. QED
        BY <2>1, <2>2 DEF CallUnderWay, HelloPacket, Header
<1>8. Truthful' /\ Resolved' /\ Final' /\ VerdictIsTrue'
    BY DEF Truthful, Resolved, Final, VerdictIsTrue, Opens
<1>9. QED
    BY <1>2, <1>3, <1>5, <1>6, <1>7, <1>8 DEF ExchangeInv

\* A handshake sends a hello.
LEMMA HandshakeInv ==
    ASSUME ExchangeInv, Handshake
    PROVE  ExchangeInv'
<1>1. PICK c : c = [op |-> "handshake", did |-> MaxUint, stamp |-> MaxUint, left |-> 1, results |-> <<>>]
    OBVIOUS
<1>2. c \in Calls /\ c.op = "handshake" /\ c.results = <<>>
    BY <1>1, ExchangeAssumption DEF Calls
<1>3. call' = c /\ said' = <<>> /\ DOMAIN said' = {} /\ Collected' = <<>>
    BY <1>1 DEF Handshake, Collected, Answered
<1>4. QED
    BY <1>2, <1>3, OpensInv DEF Handshake

\* sendCommand throws, and the call ends with that.
LEMMA ThrownInv ==
    ASSUME ExchangeInv, settled, call' = None, verdict' = Fail("thrown", None), json' = None,
           UNCHANGED socketVars, token' = token, said' = said \/ said' = <<>>
    PROVE  ExchangeInv'
<1>1. ExchangeTypeOK'
    <2>1. said' \in Seq(Saying)
        <3>1. <<>> \in Seq(Saying)
            OBVIOUS
        <3>2. QED
            BY <3>1, Typed
    <2>2. QED
        BY <2>1 DEF ExchangeInv, ExchangeTypeOK, socketVars
<1>2. Rising' /\ \A j \in DOMAIN said' : j \in DOMAIN said /\ said'[j] = said[j]
    <2>1. CASE said' = said
        BY <2>1 DEF ExchangeInv, Rising
    <2>2. CASE said' = <<>>
        BY <2>2 DEF Rising
    <2>3. QED
        BY <2>1, <2>2
<1>3. OnTheWay'
    BY <1>2, SamePacket DEF ExchangeInv, OnTheWay, socketVars
<1>4. verdict'.kind = "thrown"
    BY DEF Fail
<1>5. Socket' /\ CallUnderWay' /\ Truthful' /\ Resolved' /\ Final'
    BY <1>4 DEF ExchangeInv, Socket, CallUnderWay, Truthful, Resolved, Final, socketVars
<1>6. VerdictIsTrue'
    BY <1>4 DEF ExchangeInv, VerdictIsTrue, socketVars
<1>7. QED
    BY <1>1, <1>2, <1>3, <1>5, <1>6 DEF ExchangeInv

\* A command sends its first packet, or throws on it.
LEMMA CommandInv ==
    ASSUME ExchangeInv, NEW op \in Ops, NEW n \in 1..2, NEW did \in Dids, NEW s \in Nat, Command(op, n, did, s)
    PROVE  ExchangeInv'
<1>1. settled
    BY DEF ExchangeInv, Socket, Command
<1>2. PICK c : c = [op |-> op, did |-> did, stamp |-> s, left |-> n, results |-> <<>>]
    OBVIOUS
<1>3. c \in Calls /\ c.op \in Ops /\ c.results = <<>> /\ c.op # "handshake"
    BY <1>2, ExchangeAssumption DEF Calls, Ops
<1>4. /\ SendCommand(c) /\ said' = <<>> /\ json' = None /\ token' = token
      /\ DOMAIN said' = {} /\ Collected' = <<>>
    BY <1>2 DEF Command, Collected, Answered
<1>5. CASE Throws(c.did, c.stamp)
    BY <1>1, <1>4, <1>5, ThrownInv DEF SendCommand, Ends
<1>6. CASE ~ Throws(c.did, c.stamp)
    <2>1. call' = c /\ verdict' = None /\ Opens(Outgoing(c.did, c.stamp, c.op))
        BY <1>4, <1>6 DEF SendCommand
    <2>2. QED
        BY <1>3, <1>4, <2>1, OpensInv
<1>7. QED
    BY <1>5, <1>6

-----------------------------------------------------------------------------
\* The device hears a packet and answers it.
LEMMA DeviceAnswersInv ==
    ASSUME ExchangeInv, NEW plain \in Bodies(wire) \cup {None}, DeviceAnswers(plain)
    PROVE  ExchangeInv'
<1>1. /\ wire # None /\ wire' = None
      /\ UNCHANGED <<token, call, timer, settled, closes, owed, json, verdict>>
      /\ faults \subseteq faults' /\ faults' \subseteq faults \cup {"empty"}
      /\ faults' \cap {"socket", "send"} = faults \cap {"socket", "send"}
    BY DEF DeviceAnswers
<1>2. json = None /\ (verdict # None => verdict.kind \notin {"ok", "device_error"})
    BY <1>1 DEF ExchangeInv, Resolved, Final
<1>3. CASE wire = HelloPacket
    <2>1. inbox' = Acknowledgement /\ said' = said
        BY <1>3 DEF DeviceAnswers
    <2>2. inbox' \in Datagram /\ inbox'.full /\ inbox'.magic /\ inbox'.body = None
        BY <2>1, RepliesAre
    <2>3. call # None => call.op = "handshake"
        <3>1. SUFFICES ASSUME call # None, call.op # "handshake" PROVE FALSE
            OBVIOUS
        <3>2. PacketOut(call.did, call.stamp, call.op) /\ call.op \in Ops /\ token \in Tokens
            BY <1>1, <3>1, Typed DEF ExchangeInv, CallUnderWay
        <3>3. QED
            BY <1>3, <3>2, OutgoingIs DEF PacketOut
    <2>4. ExchangeTypeOK'
        BY <1>1, <2>1, <2>2 DEF ExchangeInv, ExchangeTypeOK
    <2>5. Rising' /\ OnTheWay' /\ Socket' /\ CallUnderWay' /\ Final' /\ Resolved'
        BY <1>1, <1>2, <2>1 DEF ExchangeInv, Rising, OnTheWay, Socket, CallUnderWay, Final, Resolved
    <2>6. Truthful'
        BY <1>1, <2>2, <2>3 DEF Truthful
    <2>7. VerdictIsTrue'
        BY <1>1, <1>2, <2>1 DEF ExchangeInv, VerdictIsTrue
    <2>8. QED
        BY <2>4, <2>5, <2>6, <2>7 DEF ExchangeInv
<1>4. CASE wire # HelloPacket
    <2>1. PICK did \in Nat, stamp \in Nat, op \in Ops :
              PacketOut(did, stamp, op) /\ \A j \in DOMAIN said : said[j].stamp < stamp
        BY <1>1, <1>4 DEF ExchangeInv, OnTheWay
    <2>2. /\ wire.header.stamp = stamp /\ wire.body.plain = op
          /\ Understood(wire) <=> token = DeviceToken
        BY <2>1, Typed, OutgoingIs DEF PacketOut
    <2>3. call # None => /\ call.op # "handshake" /\ call.stamp = stamp /\ call.op = op
                         /\ call.results = Collected /\ ~ settled
        <3>1. SUFFICES ASSUME call # None
                       PROVE  /\ call.op # "handshake" /\ call.stamp = stamp /\ call.op = op
                              /\ call.results = Collected /\ ~ settled
            OBVIOUS
        <3>2. /\ call.op # "handshake" /\ PacketOut(call.did, call.stamp, call.op) /\ ~ settled
              /\ call.results = Collected
            BY <1>1, <1>4, <3>1 DEF ExchangeInv, CallUnderWay
        <3>3. call.op \in Ops /\ token \in Tokens
            BY <3>1, <3>2, Typed
        <3>4. wire.header.stamp = call.stamp /\ wire.body.plain = call.op
            BY <3>2, <3>3, OutgoingIs DEF PacketOut
        <3>5. QED
            BY <2>2, <3>2, <3>4
    <2>4. CASE plain = None
        <3>1. inbox' = Acknowledgement /\ said' = said /\ "empty" \in faults'
            BY <1>4, <2>4 DEF DeviceAnswers
        <3>2. inbox' \in Datagram /\ inbox'.full /\ inbox'.magic /\ inbox'.body = None
            BY <3>1, RepliesAre
        <3>3. ExchangeTypeOK'
            BY <1>1, <3>1, <3>2 DEF ExchangeInv, ExchangeTypeOK
        <3>4. Rising' /\ OnTheWay' /\ Socket' /\ CallUnderWay' /\ Final' /\ Resolved'
            BY <1>1, <1>2, <3>1 DEF ExchangeInv, Rising, OnTheWay, Socket, CallUnderWay, Final, Resolved
        <3>5. Truthful'
            BY <1>1, <3>1, <3>2 DEF Truthful
        <3>6. VerdictIsTrue'
            BY <1>1, <1>2, <3>1 DEF ExchangeInv, VerdictIsTrue
        <3>7. QED
            BY <3>3, <3>4, <3>5, <3>6 DEF ExchangeInv
    <2>5. CASE plain # None
        <3>1. plain \in Body
            BY <2>2, <2>5, BodiesAre
        <3>2. plain # Junk
            BY <3>1, Bodied
        <3>3. inbox' = Reply(plain) /\ faults' = faults
            BY <1>4, <2>5 DEF DeviceAnswers
        <3>4. /\ inbox' \in Datagram /\ inbox'.full /\ inbox'.magic /\ inbox'.header = Header(1, 1)
              /\ inbox'.body = Seal(DeviceToken, plain) /\ inbox'.sum = Sum(Header(1, 1), DeviceToken, Seal(DeviceToken, plain))
            BY <3>1, <3>3, RepliesAre
        <3>5. PICK all : all = Collected \o Given(plain)
            OBVIOUS
        <3>6. PICK r : r = [stamp |-> stamp, op |-> op, plain |-> plain, items |-> all]
            OBVIOUS
        <3>7. /\ r \in Saying /\ r.stamp = stamp /\ r.op = op /\ r.plain = plain /\ r.items = all
              /\ said' = IF token = DeviceToken THEN Append(said, r) ELSE said
            <4>1. all \in Seq(Item)
                <5>1. PICK a \in Seq(Item) : a = Collected
                    BY Typed, CollectedItems
                <5>2. PICK b \in Seq(Item) : b = Given(plain)
                    BY <3>1, GivenItems
                <5>3. all = a \o b
                    BY <3>5, <5>1, <5>2
                <5>4. QED
                    BY <5>3
            <4>2. r \in Saying
                BY <3>1, <3>6, <4>1 DEF Saying
            <4>3. QED
                BY <1>4, <2>2, <2>5, <3>5, <3>6, <4>2 DEF DeviceAnswers
        <3>8. /\ said' \in Seq(Saying)
              /\ \A j \in DOMAIN said : j \in DOMAIN said' /\ said'[j] = said[j]
              /\ \A j \in DOMAIN said' : j \in DOMAIN said \/ (said'[j] = r /\ \A i \in DOMAIN said : i < j)
              /\ \A i, j \in DOMAIN said' : i < j => i \in DOMAIN said
              /\ token = DeviceToken => said' # <<>> /\ said'[Len(said')] = r
              /\ token # DeviceToken => said' = said
            <4>1. CASE token = DeviceToken
                <5>1. said' = Append(said, r)
                    BY <3>7, <4>1
                <5>2. /\ said' \in Seq(Saying) /\ Len(said') = Len(said) + 1
                      /\ DOMAIN said' = 1..Len(said) + 1 /\ said'[Len(said) + 1] = r
                      /\ \A j \in 1..Len(said) : said'[j] = said[j]
                    BY <3>7, <5>1, Typed
                <5>3. said' # <<>>
                    BY <5>2, Typed
                <5>4. QED
                    BY <4>1, <5>2, <5>3, Typed
            <4>2. CASE token # DeviceToken
                BY <3>7, <4>2, Typed
            <4>3. QED
                BY <4>1, <4>2
        <3>9. ExchangeTypeOK'
            BY <1>1, <3>3, <3>4, <3>8 DEF ExchangeInv, ExchangeTypeOK
        <3>10. Rising'
            <4>1. SUFFICES ASSUME NEW i \in DOMAIN said', NEW j \in DOMAIN said', i < j
                           PROVE  said'[i].stamp < said'[j].stamp
                BY DEF Rising
            <4>2. i \in DOMAIN said /\ said'[i] = said[i]
                BY <3>8, <4>1
            <4>3. CASE j \in DOMAIN said
                BY <3>8, <4>1, <4>2, <4>3 DEF ExchangeInv, Rising
            <4>4. CASE j \notin DOMAIN said
                BY <2>1, <3>7, <3>8, <4>2, <4>4
            <4>5. QED
                BY <4>3, <4>4
        <3>12. OnTheWay' /\ Socket' /\ Final' /\ Resolved'
            BY <1>1, <1>2, <3>3 DEF ExchangeInv, OnTheWay, Socket, Final, Resolved
        <3>13. CallUnderWay'
            BY <1>1, <1>2, <2>3, <3>8 DEF ExchangeInv, CallUnderWay
        <3>14. Truthful'
            <4>1. call # None /\ token = DeviceToken => (Heard /\ LastSaid.plain = plain)'
                BY <1>1, <2>3, <3>5, <3>7, <3>8 DEF Heard, LastSaid, Answered
            <4>2. inbox'.body # None
                BY <3>1, <3>4, Seals DEF Tokens
            <4>3. SUFFICES ASSUME call # None PROVE Truthful'
                BY <1>1 DEF Truthful
            <4>4. inbox'.sum = Sum(inbox'.header, DeviceToken, inbox'.body)
                BY <3>4
            <4>5. \E q \in Body \cup {Junk} :
                     /\ inbox'.body = Seal(DeviceToken, q)
                     /\ q # Junk
                     /\ token = DeviceToken => (Heard /\ LastSaid.plain = q)'
                BY <3>1, <3>2, <3>4, <4>1, <4>3
            <4>6. QED
                BY <1>1, <2>3, <3>4, <4>2, <4>3, <4>4, <4>5 DEF Truthful, Sum, Seal, DeviceToken, Heard, LastSaid, Answered
        <3>15. VerdictIsTrue'
            BY <1>1, <1>2, <3>3 DEF ExchangeInv, VerdictIsTrue
        <3>16. QED
            BY <3>9, <3>10, <3>12, <3>13, <3>14, <3>15 DEF ExchangeInv
    <2>6. QED
        BY <2>4, <2>5
<1>5. QED
    BY <1>3, <1>4

\* A datagram that is damaged on the way is no longer whole, and that is on record.
LEMMA DamagesInv ==
    ASSUME ExchangeInv, NEW how \in {"short", "magic", "body", "text"}, Damages(how)
    PROVE  ExchangeInv'
<1>1. /\ inbox # None /\ inbox \in Datagram /\ faults' = faults \cup {how}
      /\ UNCHANGED <<token, call, wire, timer, settled, closes, owed, json, verdict, said>>
      /\ faults' \cap {"socket", "send"} = faults \cap {"socket", "send"}
    BY Typed DEF Damages
<1>2. /\ inbox' \in Datagram
      /\ inbox'.full \/ ~ inbox.full \/ "short" \in faults'
      /\ inbox'.magic \/ ~ inbox.magic \/ "magic" \in faults'
      /\ \/ inbox'.body = inbox.body
            /\ inbox'.header = inbox.header
               /\ (inbox'.sum = inbox.sum \/ (inbox'.sum = None /\ "body" \in faults'))
         \/ inbox.body # None /\ "text" \in faults' /\ inbox'.body = Seal(DeviceToken, Junk)
            /\ inbox'.sum = Sum(inbox'.header, DeviceToken, inbox'.body)
    <2>1. CASE how = "short"
        BY <1>1, <2>1 DEF Damages, Datagram
    <2>2. CASE how = "magic"
        BY <1>1, <2>2 DEF Damages, Datagram
    <2>3. CASE how = "body"
        BY <1>1, <2>3 DEF Damages, Datagram
    <2>4. CASE how = "text" /\ inbox.body = None
        BY <1>1, <2>4 DEF Damages
    <2>5. CASE how = "text" /\ inbox.body # None
        <3>1. inbox' = Reply(Junk)
            BY <2>5 DEF Damages
        <3>2. inbox' \in Datagram /\ inbox'.full /\ inbox'.magic /\ inbox'.header = Header(1, 1)
              /\ inbox'.body = Seal(DeviceToken, Junk) /\ inbox'.sum = Sum(Header(1, 1), DeviceToken, Seal(DeviceToken, Junk))
            BY <3>1, RepliesAre
        <3>3. QED
            BY <1>1, <2>5, <3>2
    <2>6. QED
        BY <2>1, <2>2, <2>3, <2>4, <2>5
<1>3. ExchangeTypeOK'
    BY <1>1, <1>2 DEF ExchangeInv, ExchangeTypeOK
<1>4. Rising'
    BY <1>1 DEF ExchangeInv, Rising
<1>5. OnTheWay'
    BY <1>1 DEF ExchangeInv, OnTheWay
<1>6. Socket' /\ Final' /\ Resolved'
    BY <1>1 DEF ExchangeInv, Socket, Final, Resolved
<1>7. CallUnderWay'
    BY <1>1, SamePacket, SameSaid DEF ExchangeInv, CallUnderWay
<1>8. Truthful'
    <2>1. SUFFICES ASSUME call # None PROVE Truthful'
        BY <1>1 DEF Truthful
    <2>2. /\ ~ inbox'.full => "short" \in faults'
          /\ ~ inbox'.magic => "magic" \in faults'
        BY <1>1, <1>2, <2>1 DEF ExchangeInv, Truthful
    <2>3. CASE inbox'.body = inbox.body
               /\ inbox'.header = inbox.header
               /\ (inbox'.sum = inbox.sum \/ (inbox'.sum = None /\ "body" \in faults'))
        BY <1>1, <1>2, <2>1, <2>2, <2>3 DEF ExchangeInv, Truthful, Heard, LastSaid, Answered, Sum, Seal
    <2>4. CASE inbox.body # None /\ "text" \in faults' /\ inbox'.body = Seal(DeviceToken, Junk)
               /\ inbox'.sum = Sum(inbox'.header, DeviceToken, inbox'.body)
        <3>1. call.op # "handshake" /\ inbox'.body # None
            BY <1>1, <2>1, <2>4, Seals DEF ExchangeInv, Truthful, Tokens
        <3>2. QED
            BY <1>1, <2>2, <2>4, <3>1 DEF Truthful, Sum, Seal, Junk, DeviceToken
    <2>5. QED
        BY <1>2, <2>3, <2>4
<1>9. VerdictIsTrue'
    BY <1>1, SameVerdict DEF ExchangeInv, VerdictIsTrue
<1>10. QED
    BY <1>3, <1>4, <1>5, <1>6, <1>7, <1>8, <1>9 DEF ExchangeInv

-----------------------------------------------------------------------------
\* What a datagram turns out to be: nothing to read, or what the device said.
LEMMA Reads ==
    ASSUME ExchangeInv, inbox # None, call # None, NEW o,
           o = IF call.op = "handshake" THEN ParseHello(inbox) ELSE Opened(inbox)
    PROVE  \/ o = [throws |-> TRUE] /\ (faults # {} \/ token # DeviceToken)
           \/ o = [json |-> None] /\ faults # {}
           \/ call.op = "handshake" /\ o = [json |-> Header(1, 1)]
           \/ /\ call.op # "handshake" /\ Heard
              /\ \E plain \in Body : o = [json |-> plain] /\ LastSaid.plain = plain
<1>1. inbox \in Datagram /\ inbox.header = Header(1, 1)
    BY Typed DEF Datagram
<1>2. CASE call.op = "handshake"
    <2>1. CASE ~ inbox.full \/ ~ inbox.magic
        <3>1. faults # {}
            BY <2>1 DEF ExchangeInv, Truthful
        <3>2. o = [throws |-> TRUE]
            BY <1>2, <2>1 DEF ParseHello
        <3>3. QED
            BY <3>1, <3>2
    <2>2. CASE ~ (~ inbox.full \/ ~ inbox.magic)
        BY <1>1, <1>2, <2>2 DEF ParseHello
    <2>3. QED
        BY <2>1, <2>2
<1>3. CASE call.op # "handshake"
    <2>1. o = Opened(inbox)
        BY <1>3
    <2>2. CASE ~ inbox.full
        BY <2>1, <2>2 DEF Opened, ExchangeInv, Truthful
    <2>3. CASE inbox.full /\ inbox.body = None
        BY <1>3, <2>1, <2>3 DEF Opened, ExchangeInv, Truthful
    <2>4. CASE inbox.full /\ inbox.body # None
        <3>1. PICK plain \in Body \cup {Junk} :
                 /\ inbox.body = Seal(DeviceToken, plain)
                 /\ plain = Junk => "text" \in faults
                 /\ inbox.sum = Sum(inbox.header, DeviceToken, inbox.body) \/ (inbox.sum = None /\ "body" \in faults)
                 /\ plain # Junk /\ token = DeviceToken => Heard /\ LastSaid.plain = plain
            BY <2>4 DEF ExchangeInv, Truthful
        <3>2. inbox.body.plain = plain
            BY <3>1, Seals
        <3>3. CASE inbox.sum # Sum(inbox.header, token, inbox.body) \/ plain = Junk
            <4>1. o = [throws |-> TRUE]
                BY <2>1, <2>4, <3>2, <3>3 DEF Opened
            <4>2. faults # {} \/ token # DeviceToken
                BY <3>1, <3>3
            <4>3. QED
                BY <4>1, <4>2
        <3>4. CASE inbox.sum = Sum(inbox.header, token, inbox.body) /\ plain # Junk
            <4>1. o = [json |-> plain] /\ plain \in Body
                BY <2>1, <2>4, <3>1, <3>2, <3>4 DEF Opened
            <4>2. CASE token = DeviceToken
                BY <1>3, <3>1, <3>4, <4>1, <4>2
            <4>3. CASE token # DeviceToken
                <5>1. inbox.sum # None
                    <6>1. inbox.body \in Sealed
                        BY <3>1, Seals DEF Tokens
                    <6>2. inbox.sum \in Sums
                        BY <1>1, <3>4, <6>1, Typed, Seals
                    <6>3. QED
                        BY <6>2, Seals
                <5>2. QED
                    BY <3>1, <3>4, <4>3, <5>1, Seals
            <4>4. QED
                BY <4>2, <4>3
        <3>5. QED
            BY <3>3, <3>4
    <2>5. QED
        BY <2>2, <2>3, <2>4
<1>4. QED
    BY <1>2, <1>3

\* The datagram that arrives in time settles the exchange: as what the device said, as
\* the error it gave, or as the fault that spoilt it.
LEMMA MessageInv ==
    ASSUME ExchangeInv, Message
    PROVE  ExchangeInv'
<1>1. PICK o : o = IF call.op = "handshake" THEN ParseHello(inbox) ELSE Opened(inbox)
    OBVIOUS
<1>2. PICK failure :
          failure = CASE "throws" \in DOMAIN o -> Fail("transport_error", None)
                      [] "json" \in DOMAIN o /\ o.json = None -> Fail("transport_error", None)
                      [] "json" \in DOMAIN o /\ o.json # None ->
                             IF "error" \in DOMAIN o.json THEN Fail("device_error", o.json.error) ELSE None
    OBVIOUS
<1>3. /\ inbox # None /\ call # None /\ ~ settled /\ inbox' = None
      /\ timer' = FALSE /\ settled' = TRUE /\ closes' = closes + 1
      /\ UNCHANGED <<token, wire, owed, said, faults>>
      /\ IF failure # None THEN call' = None /\ verdict' = failure /\ json' = None
         ELSE json' = o.json /\ UNCHANGED <<call, verdict>>
    BY <1>1, <1>2 DEF Message, Ends
<1>4. /\ closes = 0 /\ closes' = 1 /\ owed' \in BOOLEAN /\ wire = None
      /\ faults' \subseteq {"empty", "short", "magic", "body", "text", "socket", "send"}
    <2>1. closes = 0 /\ closes' = 1
        BY <1>3 DEF ExchangeInv, Socket
    <2>2. wire = None
        BY <1>3 DEF ExchangeInv, OnTheWay
    <2>3. QED
        BY <1>3, <2>1, <2>2 DEF ExchangeInv, ExchangeTypeOK
<1>5. ASSUME failure = Fail("transport_error", None), faults # {} \/ token # DeviceToken
      PROVE  ExchangeInv'
    <2>1. failure \in Failures
        BY <1>5 DEF Failures, Fail
    <2>2. failure # None
        BY <2>1, ExchangeAssumption
    <2>3. QED
        BY <1>3, <1>4, <1>5, <2>2, FailedInv
<1>6. CASE o = [throws |-> TRUE] /\ (faults # {} \/ token # DeviceToken)
    <2>1. "throws" \in DOMAIN o /\ "json" \notin DOMAIN o
        BY <1>6
    <2>2. failure = Fail("transport_error", None)
        BY <1>2, <2>1
    <2>3. QED
        BY <1>5, <1>6, <2>2
<1>7. CASE o = [json |-> None] /\ faults # {}
    <2>1. "throws" \notin DOMAIN o /\ "json" \in DOMAIN o /\ o.json = None
        BY <1>7
    <2>2. failure = Fail("transport_error", None)
        BY <1>2, <2>1
    <2>3. QED
        BY <1>5, <1>7, <2>2

\* An exchange that resolves.
<1>8. ASSUME failure = None, o.json # None,
             IF call.op = "handshake" THEN o.json = Header(1, 1)
             ELSE Heard /\ LastSaid.plain = o.json /\ o.json \in [result : Seq(Item)]
      PROVE  ExchangeInv'
    <2>1. json' = o.json /\ call' = call /\ verdict' = verdict /\ verdict = None
        BY <1>3, <1>8 DEF ExchangeInv, CallUnderWay
    <2>2. ExchangeTypeOK'
        BY <1>3, <1>4, <2>1 DEF ExchangeInv, ExchangeTypeOK
    <2>3. Rising' /\ OnTheWay' /\ Socket' /\ Final'
        BY <1>3, <1>4, <2>1 DEF ExchangeInv, Rising, OnTheWay, Socket, Final
    <2>4. CallUnderWay' /\ Truthful'
        BY <1>3, <1>4, <1>8, <2>1 DEF ExchangeInv, CallUnderWay, Truthful
    <2>5. Resolved'
        BY <1>3, <1>4, <1>8, <2>1 DEF Resolved, Heard, LastSaid, Answered, Header
    <2>6. VerdictIsTrue'
        BY <1>4, <2>1 DEF VerdictIsTrue
    <2>7. QED
        BY <2>2, <2>3, <2>4, <2>5, <2>6 DEF ExchangeInv
<1>9. CASE call.op = "handshake" /\ o = [json |-> Header(1, 1)]
    <2>1. "throws" \notin DOMAIN o /\ "json" \in DOMAIN o /\ o.json = Header(1, 1) /\ o.json # None
        BY <1>9, ExchangeAssumption
    <2>2. "error" \notin DOMAIN o.json
        BY <2>1 DEF Header
    <2>3. failure = None
        BY <1>2, <2>1, <2>2
    <2>4. QED
        BY <1>8, <1>9, <2>1, <2>3
<1>10. ASSUME call.op # "handshake", Heard, NEW plain \in Body, o = [json |-> plain], LastSaid.plain = plain
       PROVE  ExchangeInv'
    <2>1. "throws" \notin DOMAIN o /\ "json" \in DOMAIN o /\ o.json = plain /\ o.json # None
        BY <1>10, Bodied
    <2>2. CASE "error" \notin DOMAIN plain
        <3>1. failure = None /\ plain \in [result : Seq(Item)]
            BY <1>2, <2>1, <2>2, Bodied
        <3>2. QED
            BY <1>8, <1>10, <2>1, <3>1
    <2>3. CASE "error" \in DOMAIN plain
        <3>1. plain.error \in Codes /\ failure = Fail("device_error", plain.error)
            BY <1>2, <2>1, <2>3, Bodied
        <3>2. failure \in Failures
            BY <3>1 DEF Failures, Fail
        <3>3. failure # None
            BY <3>2, ExchangeAssumption
        <3>4. /\ call' = None /\ json' = None /\ verdict' = failure
              /\ failure.kind = "device_error" /\ failure.code = plain.error
            BY <1>3, <3>1, <3>3 DEF Fail
        <3>5. Answered' /\ LastSaid'.plain = plain
            BY <1>3, <1>10 DEF Answered, LastSaid, Heard
        <3>6. Final' /\ VerdictIsTrue'
            BY <1>3, <1>4, <2>3, <3>4, <3>5 DEF Final, VerdictIsTrue, Refusal
        <3>7. QED
            BY <1>3, <1>4, <3>4, <3>6, EndsInv
    <2>4. QED
        BY <2>2, <2>3
<1>11. QED
    BY <1>1, <1>3, <1>6, <1>7, <1>9, <1>10, Reads

-----------------------------------------------------------------------------
\* The call goes on with what was resolved, and ends with that.
LEMMA ReturnsInv ==
    ASSUME ExchangeInv, json # None, call' = None, json' = None, UNCHANGED <<token, said, socketVars>>, Final', VerdictIsTrue'
    PROVE  ExchangeInv'
<1>1. settled
    BY DEF ExchangeInv, Resolved
<1>2. closes' \in {0, 1} /\ owed' \in BOOLEAN
      /\ faults' \subseteq {"empty", "short", "magic", "body", "text", "socket", "send"}
    BY DEF ExchangeInv, ExchangeTypeOK, socketVars
<1>3. QED
    BY <1>1, <1>2, EndsInv DEF socketVars

\* What is known of a command that was answered.
LEMMA ResolvedWith ==
    ASSUME ExchangeInv, json # None, call.op # "handshake"
    PROVE  /\ settled /\ wire = None /\ closes \in {0, 1} /\ Heard /\ said # <<>>
           /\ Answered /\ LastSaid.plain = json /\ LastSaid.op = call.op
           /\ LastSaid.items = call.results \o json.result /\ LastSaid.stamp = call.stamp
           /\ json.result \in Seq(Item) /\ "result" \in DOMAIN json /\ "error" \notin DOMAIN json
           /\ Len(said) \in DOMAIN said
<1>1. settled /\ wire = None /\ closes \in {0, 1} /\ Heard /\ LastSaid.plain = json
      /\ json \in [result : Seq(Item)]
    BY DEF ExchangeInv, Resolved, ExchangeTypeOK
<1>2. /\ said # <<>> /\ Answered /\ LastSaid.op = call.op /\ LastSaid.stamp = call.stamp
      /\ LastSaid.items = call.results \o json.result
    BY <1>1 DEF Heard, Answered, Given
<1>3. Len(said) \in DOMAIN said
    BY <1>2, Typed
<1>4. QED
    BY <1>1, <1>2, <1>3

\* A handshake returns the header of the answer.
LEMMA HandshakeReturnsInv ==
    ASSUME ExchangeInv, HandshakeReturns
    PROVE  ExchangeInv'
<1>1. /\ json = Header(1, 1) /\ json # None /\ call # None /\ call.op = "handshake"
      /\ said = <<>> /\ wire = None /\ closes \in {0, 1}
    BY DEF ExchangeInv, Resolved, CallUnderWay, HandshakeReturns, ExchangeTypeOK
<1>2. call' = None /\ json' = None /\ UNCHANGED <<token, said, socketVars>>
      /\ verdict'.kind = "ok" /\ verdict'.value = json
    BY DEF HandshakeReturns, Succeeds, Ends
<1>3. ~ Answered' /\ Header(1, 1)' = Header(1, 1)
    BY <1>1, <1>2 DEF Answered, Header
<1>4. Final' /\ VerdictIsTrue'
    BY <1>1, <1>2, <1>3 DEF Final, VerdictIsTrue, Resolution, socketVars
<1>5. QED
    BY <1>1, <1>2, <1>4, ReturnsInv

\* An action is done.
LEMMA ActionReturnsInv ==
    ASSUME ExchangeInv, ActionReturns
    PROVE  ExchangeInv'
<1>1. json # None /\ call.op = "action"
    BY DEF ActionReturns
<1>2. call' = None /\ json' = None /\ UNCHANGED <<token, said, socketVars>>
      /\ verdict'.kind = "ok" /\ verdict'.value = None
    BY DEF ActionReturns, Succeeds, Ends
<1>3. LastSaid' = LastSaid /\ Answered' = Answered
    BY <1>2 DEF LastSaid, Answered
<1>4. Final' /\ VerdictIsTrue'
    BY <1>1, <1>2, <1>3, ResolvedWith DEF Final, VerdictIsTrue, Resolution, socketVars
<1>5. QED
    BY <1>1, <1>2, <1>4, ReturnsInv

\* A property is the value of its item, or refused with the code of its item.
LEMMA PropertyReturnsInv ==
    ASSUME ExchangeInv, PropertyReturns
    PROVE  ExchangeInv'
<1>1. json # None /\ call.op \in {"get", "set"} /\ call.op # "handshake"
    BY DEF PropertyReturns
<1>2. call' = None /\ json' = None /\ UNCHANGED <<token, said, socketVars>>
    BY DEF PropertyReturns, Succeeds, Ends
<1>3. LastSaid' = LastSaid /\ Answered' = Answered
    BY <1>2 DEF LastSaid, Answered
<1>4. Answered /\ LastSaid.op = call.op /\ LastSaid.plain = json /\ "result" \in DOMAIN json
    BY <1>1, ResolvedWith
<1>5. CASE ItemRefused(json.result)
    <2>1. /\ verdict'.kind = "device_error"
          /\ verdict'.code = IF json.result = <<>> THEN None ELSE json.result[1].code
        BY <1>5 DEF PropertyReturns, Ends, Fail
    <2>2. Refusal'
        BY <1>1, <1>3, <1>4, <1>5, <2>1 DEF Refusal, ItemRefused
    <2>3. Final' /\ VerdictIsTrue'
        BY <1>1, <1>2, <2>1, <2>2, ResolvedWith DEF Final, VerdictIsTrue, socketVars
    <2>4. QED
        BY <1>1, <1>2, <2>3, ReturnsInv
<1>6. CASE ~ ItemRefused(json.result)
    <2>1. verdict'.kind = "ok" /\ verdict'.value = IF call.op = "get" THEN json.result[1].value ELSE None
        BY <1>6 DEF PropertyReturns, Succeeds, Ends
    <2>2. Resolution'
        BY <1>1, <1>3, <1>4, <1>6, <2>1 DEF Resolution, ItemRefused
    <2>3. Final' /\ VerdictIsTrue'
        BY <1>1, <1>2, <2>1, <2>2, ResolvedWith DEF Final, VerdictIsTrue, socketVars
    <2>4. QED
        BY <1>1, <1>2, <2>3, ReturnsInv
<1>7. QED
    BY <1>5, <1>6

\* An element of a sequence.
LEMMA ElementOf ==
    ASSUME NEW S, NEW s \in Seq(S), NEW i \in DOMAIN s
    PROVE  s[i] \in S
OBVIOUS

\* A bulk read collects what the device said, and asks on under the next stamp.
LEMMA NextPropertyInv ==
    ASSUME ExchangeInv, NextProperty
    PROVE  ExchangeInv'
<1>1. json # None /\ call.op # "handshake" /\ call # None
    BY DEF NextProperty, ExchangeInv, Resolved
<1>2. PICK results : results = call.results \o json.result
    OBVIOUS
<1>3. /\ json' = None /\ UNCHANGED <<token, said>>
      /\ IF call.left = 1 THEN Succeeds(results, call.stamp) /\ UNCHANGED socketVars
         ELSE SendCommand([call EXCEPT !.left = @ - 1, !.stamp = @ + 1, !.results = results])
    BY <1>2 DEF NextProperty
<1>4. \A j \in DOMAIN said : said[j].stamp \in Nat /\ said[j].stamp <= call.stamp
    <2>1. TAKE j \in DOMAIN said
    <2>2. said[j] \in Saying /\ Len(said) \in DOMAIN said /\ j \in 1..Len(said)
        <3>1. said \in Seq(Saying) /\ j \in 1..Len(said)
            BY Typed
        <3>2. said[j] \in Saying
            BY <3>1, ElementOf
        <3>3. QED
            BY <1>1, <3>1, <3>2, ResolvedWith
    <2>3. said[Len(said)].stamp = call.stamp /\ call.stamp \in Nat /\ said[j].stamp \in Nat
        BY <1>1, <2>2, Typed, ResolvedWith DEF LastSaid, Saying
    <2>4. j < Len(said) => said[j].stamp < call.stamp
        BY <2>2, <2>3 DEF ExchangeInv, Rising
    <2>5. QED
        BY <2>2, <2>3, <2>4
<1>5. results \in Seq(Item) /\ results = Collected
    <2>1. PICK a \in Seq(Item) : a = call.results
        BY <1>1, Typed
    <2>2. PICK b \in Seq(Item) : b = json.result
        BY <1>1, ResolvedWith
    <2>3. results = a \o b
        BY <1>2, <2>1, <2>2
    <2>4. QED
        BY <1>1, <1>2, <2>3, ResolvedWith DEF Collected
<1>6. CASE call.left = 1
    <2>1. /\ call' = None /\ UNCHANGED socketVars
          /\ verdict'.kind = "ok" /\ verdict'.finalStamp = call.stamp /\ verdict'.value = results
        BY <1>3, <1>6 DEF Succeeds, Ends
    <2>2. LastSaid' = LastSaid /\ Answered' = Answered /\ said' = said
        BY <1>3 DEF LastSaid, Answered
    <2>3. Answered /\ LastSaid.op = "get_many" /\ results = LastSaid.items /\ call.stamp = LastSaid.stamp
        BY <1>1, <1>2, ResolvedWith DEF NextProperty
    <2>4. \A i, j \in DOMAIN said : i < j => said[i].stamp < said[j].stamp
        BY DEF ExchangeInv, Rising
    <2>5. Resolution'
        BY <1>1, <2>1, <2>2, <2>3, <2>4, ResolvedWith DEF Resolution
    <2>6. Final' /\ VerdictIsTrue'
        BY <1>1, <2>1, <2>5, ResolvedWith DEF Final, VerdictIsTrue, socketVars
    <2>7. QED
        BY <1>1, <1>3, <2>1, <2>6, ReturnsInv
<1>7. CASE call.left # 1
    <2>1. PICK c : c = [call EXCEPT !.left = @ - 1, !.stamp = @ + 1, !.results = results]
        OBVIOUS
    <2>2. SendCommand(c)
        BY <1>3, <1>7, <2>1
    <2>3. /\ c \in Calls /\ c.op = call.op /\ c.stamp = call.stamp + 1 /\ c.results = results
        <3>1. call \in Calls /\ call.left - 1 \in Nat \ {0} /\ call.stamp + 1 \in Nat
            BY <1>1, <1>7, Typed
        <3>2. QED
            BY <1>5, <2>1, <3>1 DEF Calls
    <2>4. \A j \in DOMAIN said : said[j].stamp < c.stamp
        BY <1>1, <1>4, <2>3, Typed
    <2>5. CASE Throws(c.did, c.stamp)
        <3>1. settled
            BY <1>1, ResolvedWith
        <3>2. QED
            BY <1>3, <2>2, <2>5, <3>1, ThrownInv DEF SendCommand, Ends
    <2>6. CASE ~ Throws(c.did, c.stamp)
        <3>1. call' = c /\ verdict' = None /\ Opens(Outgoing(c.did, c.stamp, c.op))
            BY <2>2, <2>6 DEF SendCommand
        <3>2. Collected' = Collected
            BY <1>3 DEF Collected, Answered, LastSaid
        <3>3. QED
            BY <1>1, <1>3, <1>5, <2>3, <2>4, <3>1, <3>2, OpensInv
    <2>7. QED
        BY <2>5, <2>6
<1>8. QED
    BY <1>6, <1>7

-----------------------------------------------------------------------------
\* One step for each action.
LEMMA ExchangeSteps == ExchangeInv /\ [ExchangeNext]_exchangeVars => ExchangeInv'
<1>1. SUFFICES ASSUME ExchangeInv, [ExchangeNext]_exchangeVars
               PROVE  ExchangeInv'
    OBVIOUS
<1>2. CASE Handshake
    BY <1>1, <1>2, HandshakeInv
<1>3. ASSUME NEW op \in {"get", "set", "action", "get_many"}, NEW n \in 1..2, NEW did \in Dids,
             NEW s \in {1, MaxUint, MaxUint + 1}, Command(op, n, did, s)
      PROVE  ExchangeInv'
    <2>1. op \in Ops /\ s \in Nat
        BY ExchangeAssumption DEF Ops
    <2>2. QED
        BY <1>1, <1>3, <2>1, CommandInv
<1>4. ASSUME NEW plain \in Bodies(wire) \cup {None}, DeviceAnswers(plain)
      PROVE  ExchangeInv'
    BY <1>1, <1>4, DeviceAnswersInv
<1>5. CASE Loses
    BY <1>1, <1>5, LosesInv
<1>6. ASSUME NEW how \in {"short", "magic", "body", "text"}, Damages(how)
      PROVE  ExchangeInv'
    BY <1>1, <1>6, DamagesInv
<1>7. CASE TimerFires
    BY <1>1, <1>7, TimerFiresInv
<1>8. CASE SocketError
    BY <1>1, <1>8, SocketErrorInv
<1>9. CASE Message
    BY <1>1, <1>9, MessageInv
<1>10. ASSUME NEW failed \in BOOLEAN, SendCallback(failed)
       PROVE  ExchangeInv'
    BY <1>1, <1>10, SendCallbackInv
<1>11. CASE HandshakeReturns
    BY <1>1, <1>11, HandshakeReturnsInv
<1>12. CASE PropertyReturns
    BY <1>1, <1>12, PropertyReturnsInv
<1>13. CASE ActionReturns
    BY <1>1, <1>13, ActionReturnsInv
<1>14. CASE NextProperty
    BY <1>1, <1>14, NextPropertyInv
<1>15. CASE UNCHANGED exchangeVars
    <2>1. UNCHANGED <<token, call, settled, closes, json, verdict, said, timer, owed, faults, wire, inbox>>
        BY <1>15 DEF exchangeVars
    <2>2. timer' \in BOOLEAN /\ owed' \in BOOLEAN
        BY <1>1, <2>1 DEF ExchangeInv, ExchangeTypeOK
    <2>3. QED
        BY <1>1, <2>1, <2>2, AsideInv
<1>16. QED
    BY <1>1, <1>2, <1>3, <1>4, <1>5, <1>6, <1>7, <1>8, <1>9, <1>10, <1>11, <1>12, <1>13, <1>14, <1>15
       DEF ExchangeNext

\* The invariant holds throughout.
LEMMA ExchangeInvariance == ExchangeSpec => []ExchangeInv
<1>1. QED
    BY ExchangeStarts, ExchangeSteps, PTL DEF ExchangeSpec

\* An exchange is of its type for any ids, codes and stamps, those included that do not fit
\* a header: the callbacks of MiotTransport.sendPacket never close a socket twice, and what
\* comes back is a datagram of the device, damaged or not.
THEOREM ExchangeTypes == ExchangeSpec => []ExchangeTypeOK
<1>1. ExchangeInv => ExchangeTypeOK
    BY DEF ExchangeInv
<1>2. QED
    BY <1>1, ExchangeInvariance, PTL

\* The verdict on a call to a device is the truth (MiotTransport.ts, MiotError.ts), whatever
\* is lost, damaged or late, and whichever token is configured.  A read resolves with the value
\* of the item the device answered to this very call, and only if its code is 0; a write, only
\* if the code is 0; a bulk read, with every item the device answered, in the order asked, and
\* the stamp last used; an action, with nothing but that the answer was no error, whatever the
\* code in it.  A device error carries the code the device gave, and a transport error has a
\* cause other than an answer that arrived whole.
THEOREM TrueVerdicts == ExchangeSpec => []VerdictIsTrue
<1>1. ExchangeInv => VerdictIsTrue
    BY DEF ExchangeInv
<1>2. QED
    BY <1>1, ExchangeInvariance, PTL

-----------------------------------------------------------------------------
\* Changes that are under way at once have met.
Meetings == \A r, q \in Changes : r # q /\ UnderWay(r) /\ UnderWay(q) => {r, q} \in met

\* What the histories tell of the requests.
Histories ==
    /\ \A p \in stored : pc[p] \in {"done", "failed"}
    /\ \A x \in Deletes :
          pc[x] \in {"notifications", "store", "write", "writing", "done"} => target[x] \in stored

\* A list of records keeps what lone changes did.
Keeps(list) ==
    /\ list \subseteq stored
    /\ \A p \in stored : Alone(p) /\ p \notin gone => p \in list
    /\ \A x \in Deletes : pc[x] = "done" /\ Alone(x) => target[x] \notin list
    /\ \A p, q \in list : p # q /\ device[p] = device[q] => ~ Alone(p) \/ ~ Alone(q)

\* So do the stored list and the lists changes of the file have read.
Lists ==
    /\ Keeps(rows)
    /\ \A r \in Changes : pc[r] \in {"write", "writing"} => Keeps(snapshot[r])

\* What a lone registration found free is free when it stores.
Free ==
    \A p \in Posts : Alone(p) =>
        /\ pc[p] \in {"store", "write", "writing"} => \A q \in rows : device[q] # device[p]
        /\ pc[p] \in {"write", "writing"} => \A q \in snapshot[p] : device[q] # device[p]

\* In MongoDB a second record of a device comes only from a registration that met the first.
Met ==
    backend = "mongo" =>
        \A p \in Posts, q \in rows :
            (pc[p] = "store" \/ p \in rows) /\ p # q /\ device[p] = device[q] => {p, q} \in met

\* The file is empty while it is written.
FileKept ==
    /\ \A r \in Changes : pc[r] \in {"write", "writing"} => backend = "file"
    /\ \A r \in Changes : pc[r] = "writing" /\ file # "empty" => ~ Alone(r)
    /\ file = "empty" => broken \/ \E r \in Changes : pc[r] = "writing"
    /\ file = "garbled" => broken \/ met # {}

\* Instances and commands come from records.
PoolKnown ==
    \A d \in Devices : instance[d] # "none" =>
        \E p \in stored : device[p] = d /\ address[p] = instance[d]
FoundKnown == \A c \in Commands : pc[c] \in {"send", "done"} => record[c] \in stored

StoreInv ==
    /\ TypeOK /\ Meetings /\ Histories /\ Lists /\ Free /\ Met /\ FileKept
    /\ PoolKnown /\ FoundKnown /\ StaleOnlyByDeletion

USE StoreAssumption DEF Requests

\* There are no records at first.
LEMMA StoreStarts == Init => StoreInv
<1> SUFFICES ASSUME Init PROVE StoreInv
  OBVIOUS
<1>1. TypeOK
  BY DEF Init, TypeOK, Outcomes
<1>2. rows = {} /\ stored = {} /\ file = "whole" /\ \A r \in Requests : pc[r] = "new"
  BY DEF Init
<1>3. Meetings /\ Histories /\ Lists /\ Free /\ Met /\ FileKept
  BY <1>2 DEF Meetings, Histories, Lists, Keeps, Free, Met, FileKept, Changes, UnderWay
<1>4. PoolKnown /\ FoundKnown /\ StaleOnlyByDeletion
  BY <1>2 DEF Init, PoolKnown, FoundKnown, StaleOnlyByDeletion
<1> QED
  BY <1>1, <1>3, <1>4 DEF StoreInv

\* Who was not alone will not have been.
LEMMA NotAloneAgain ==
    ASSUME met \subseteq met', NEW r, Alone(r)'
    PROVE  Alone(r)
BY DEF Alone

\* Changes that have met are not alone.
LEMMA MetNotAlone ==
    ASSUME NEW r, NEW q, {r, q} \in met
    PROVE  ~ Alone(r) /\ ~ Alone(q)
BY DEF Alone

\* What the invariant says of commands, when records are added and deleted.
LEMMA KnownGrows ==
    ASSUME StoreInv, UNCHANGED <<instance, record, sentTo>>,
           stored \subseteq stored', gone \subseteq gone', met \subseteq met',
           \A c \in Commands : pc'[c] = pc[c]
    PROVE  (PoolKnown /\ FoundKnown /\ StaleOnlyByDeletion)'
<1>1. PoolKnown'
  BY DEF StoreInv, PoolKnown
<1>2. FoundKnown'
  BY DEF StoreInv, FoundKnown
<1>3. StaleOnlyByDeletion'
  BY NotAloneAgain DEF StoreInv, StaleOnlyByDeletion
<1> QED
  BY <1>1, <1>2, <1>3

\* A change starts, or goes on to its next await or its end, without touching the storage.
LEMMA Moves ==
    ASSUME StoreInv, NEW r \in Changes, NEW stage,
           At(r, stage), UNCHANGED <<backend, rows, stored, gone, instance, snapshot, record, sentTo>>,
           file' = file, broken' = broken,
           Meets(r) \/ met' = met,
           \/ pc[r] = "new" /\ r \in Posts /\ stage = "check" /\ Meets(r)
           \/ pc[r] = "new" /\ r \in Deletes /\ stage = "notifications" /\ Meets(r)
                 /\ target[r] \in rows
           \/ pc[r] = "new" /\ r \in Deletes /\ stage \in {"refused", "failed"}
           \/ pc[r] = "check" /\ r \in Posts /\ stage = "refused"
           \/ /\ pc[r] = "check" /\ r \in Posts /\ stage = "store"
              /\ \A q \in rows : device[q] # device[r]
           \/ pc[r] = "notifications" /\ r \in Deletes /\ stage = "store"
           \/ UnderWay(r) /\ pc[r] # "writing" /\ stage = "failed"
    PROVE  StoreInv'
<1>1. met \subseteq met' /\ met' \subseteq SUBSET Changes
  BY DEF Meets, StoreInv, TypeOK
<1>2. /\ pc'[r] = stage /\ stage \notin {"new", "done", "write", "writing"}
      /\ \A q \in Requests : q # r => pc'[q] = pc[q]
      /\ pc[r] \notin Outcomes
      /\ stage = "failed" \/ pc[r] \in {"new", "check", "notifications"}
  BY DEF StoreInv, TypeOK, At, Changes, UnderWay, Outcomes
<1>3. pc' = [pc EXCEPT ![r] = stage] /\ stage \in Outcomes \cup {"check", "notifications", "store"}
  BY DEF At, Outcomes
<1>4. TypeOK'
  <2>1. /\ pc' \in [Requests -> Outcomes \cup {"new", "check", "notifications", "store", "write",
                                              "writing", "send"}]
        /\ \A c \in Commands : pc'[c] = pc[c]
    BY <1>3 DEF StoreInv, TypeOK, Changes
  <2> QED
    BY <1>1, <2>1 DEF StoreInv, TypeOK
<1>5. Meetings'
  <2> SUFFICES ASSUME NEW a \in Changes, NEW b \in Changes, a # b, UnderWay(a)', UnderWay(b)'
               PROVE  {a, b} \in met'
    BY DEF Meetings
  <2>1. CASE a # r /\ b # r
    BY <2>1, <1>1, <1>2 DEF StoreInv, Meetings, UnderWay, Changes
  <2>2. CASE UnderWay(r)
    <3>1. UnderWay(a) /\ UnderWay(b)
      BY <2>2, <1>2 DEF UnderWay, Changes
    <3> QED
      BY <3>1, <1>1 DEF StoreInv, Meetings
  <2>3. CASE ~ UnderWay(r) /\ (a = r \/ b = r)
    <3>1. pc[r] = "new" /\ Meets(r)
      BY <2>3, <1>2 DEF UnderWay, Outcomes
    <3>2. PICK c \in Changes : UnderWay(c) /\ {a, b} = {r, c}
      BY <2>3, <1>2 DEF UnderWay, Changes
    <3> QED
      BY <3>1, <3>2 DEF Meets
  <2> QED
    BY <2>1, <2>2, <2>3
<1>6. Histories'
  BY <1>2 DEF StoreInv, Histories, Lists, Keeps, Outcomes, UnderWay, Changes, TypeOK
<1>7. Lists'
  <2>1. \A x \in Deletes : pc'[x] = "done" => pc[x] = "done"
    BY <1>2 DEF Changes
  <2>2. \A q \in Changes : pc'[q] \in {"write", "writing"} => pc[q] \in {"write", "writing"}
    BY <1>2 DEF Changes
  <2>3. \A q : Alone(q)' => Alone(q)
    BY <1>1, NotAloneAgain
  <2>4. Keeps(rows)'
    BY <2>1, <2>3 DEF StoreInv, Lists, Keeps
  <2>5. ASSUME NEW q \in Changes, pc'[q] \in {"write", "writing"}
        PROVE  Keeps(snapshot[q])'
    <3>1. Keeps(snapshot[q]) /\ snapshot' = snapshot
      BY <2>2, <2>5 DEF StoreInv, Lists
    <3> QED
      BY <3>1, <2>1, <2>3 DEF Keeps
  <2> QED
    BY <2>4, <2>5 DEF Lists
<1>8. Free'
  BY <1>1, <1>2, NotAloneAgain DEF StoreInv, Free, Changes, Outcomes, UnderWay
<1>9. Met'
  BY <1>1, <1>2 DEF StoreInv, Met, Changes, Outcomes, UnderWay
<1>10. FileKept'
  BY <1>1, <1>2, NotAloneAgain DEF StoreInv, FileKept, Changes
<1>11. (PoolKnown /\ FoundKnown /\ StaleOnlyByDeletion)'
  BY <1>1, <1>2, KnownGrows DEF Changes
<1> QED
  BY <1>4, <1>5, <1>6, <1>7, <1>8, <1>9, <1>10, <1>11 DEF StoreInv

\* A change takes effect on the list it has, beside changes it has met.
LEMMA Applies ==
    ASSUME StoreInv, NEW r \in Changes, NEW L, Stores(r, L),
           \/ pc[r] = "store" /\ backend = "mongo" /\ L = rows
           \/ pc[r] = "writing" /\ L = snapshot[r],
           At(r, "done") \/ At(r, "failed"),
           UNCHANGED <<backend, met, instance, snapshot, record, sentTo>>
    PROVE  (Meetings /\ Histories /\ Lists /\ Free /\ Met /\ PoolKnown /\ FoundKnown
              /\ StaleOnlyByDeletion)'
<1>1. /\ pc'[r] \in {"done", "failed"}
      /\ \A q \in Requests : q # r => pc'[q] = pc[q]
      /\ UnderWay(r) /\ r \in Requests
  BY DEF StoreInv, TypeOK, At, Changes, UnderWay, Outcomes
<1>2. /\ Keeps(L) /\ L \subseteq stored
      /\ rows' = IF r \in Posts THEN L \cup {r} ELSE L \ {target[r]}
      /\ stored' = stored \cup (Posts \cap {r})
      /\ gone' = gone \cup (IF r \in Deletes THEN {target[r]} ELSE {})
  BY DEF StoreInv, Lists, Keeps, Stores, Changed
<1>3. (r \in Posts /\ r \notin Deletes) \/ (r \in Deletes /\ r \notin Posts)
  BY DEF Changes
<1>4. \A q \in Changes : q # r /\ UnderWay(q) => {r, q} \in met /\ ~ Alone(r) /\ ~ Alone(q)
  BY <1>1, MetNotAlone DEF StoreInv, Meetings
<1>5. \A q \in Requests : Alone(q)' <=> Alone(q)
  BY DEF Alone
<1>6. Meetings'
  BY <1>1 DEF StoreInv, Meetings, UnderWay, Outcomes, Changes
<1>7. Histories'
  BY <1>1, <1>2 DEF StoreInv, TypeOK, Histories, Changes
<1>8. ASSUME NEW list, Keeps(list), list = L \/ ~ Alone(r)
      PROVE  /\ \A p \in stored' : Alone(p) /\ p \notin gone' => p \in list \/ p = r
             /\ \A x \in Deletes : pc'[x] = "done" /\ Alone(x) => target[x] \notin list \/ x = r
  BY <1>1, <1>2, <1>8 DEF Keeps, Changes
<1>9. Keeps(rows)'
  <2>1. rows' \subseteq stored'
    BY <1>2, <1>3
  <2>2. \A p \in stored' : Alone(p) /\ p \notin gone' => p \in rows'
    <3>1. \A p \in stored' : Alone(p) /\ p \notin gone' => p \in L \/ p = r
      BY <1>2, <1>8
    <3>2. stored' \subseteq Posts
      BY <1>2 DEF StoreInv, TypeOK
    <3> QED
      BY <1>2, <1>3, <3>1, <3>2
  <2>3. \A x \in Deletes : pc'[x] = "done" /\ Alone(x) => target[x] \notin rows'
    <3> SUFFICES ASSUME NEW x \in Deletes, pc'[x] = "done", Alone(x) PROVE target[x] \notin rows'
      OBVIOUS
    <3>1. CASE r \in Deletes
      BY <3>1, <1>2, <1>3, <1>8
    <3>2. CASE r \in Posts
      <4>1. pc[x] = "done" /\ target[x] \in stored /\ target[x] \notin L
        BY <3>2, <1>1, <1>2, <1>3 DEF StoreInv, Histories, Keeps, Changes
      <4>2. r \notin stored
        BY <1>1 DEF StoreInv, Histories, UnderWay, Outcomes
      <4> QED
        BY <3>2, <4>1, <4>2, <1>2
    <3> QED
      BY <3>1, <3>2, <1>3
  <2>4. ASSUME NEW p \in rows', NEW q \in rows', p # q, device[p] = device[q]
        PROVE  ~ Alone(p) \/ ~ Alone(q)
    <3>1. CASE p \in L /\ q \in L
      BY <2>4, <3>1, <1>2 DEF Keeps
    <3>2. CASE ~(p \in L /\ q \in L)
      <4>1. r \in Posts /\ \E k \in L : {p, q} = {r, k} /\ device[k] = device[r]
        BY <2>4, <3>2, <1>2, <1>3
      <4>2. ~ Alone(r)
        BY <4>1 DEF StoreInv, Free
      <4> QED
        BY <4>1, <4>2
    <3> QED
      BY <3>1, <3>2
  <2>5. \A q : Alone(q)' <=> Alone(q)
    BY DEF Alone
  <2> QED
    BY <2>1, <2>2, <2>3, <2>4, <2>5 DEF Keeps
<1>10. Lists'
  <2> SUFFICES ASSUME NEW q \in Changes, pc'[q] \in {"write", "writing"} PROVE Keeps(snapshot[q])'
    BY <1>9 DEF Lists
  <2>1. q # r /\ pc[q] = pc'[q] /\ UnderWay(q) /\ Keeps(snapshot[q]) /\ snapshot' = snapshot
    BY <1>1 DEF StoreInv, Lists, UnderWay, Outcomes, Changes
  <2>2. ~ Alone(r)
    BY <2>1, <1>4
  <2>3. \A k : Alone(k)' <=> Alone(k)
    BY DEF Alone
  <2>4. PICK list : list = snapshot[q]
    OBVIOUS
  <2>5. /\ \A p \in stored' : Alone(p) /\ p \notin gone' => p \in list \/ p = r
        /\ \A x \in Deletes : pc'[x] = "done" /\ Alone(x) => target[x] \notin list \/ x = r
    BY <2>1, <2>2, <2>4, <1>8
  <2> QED
    BY <2>1, <2>2, <2>3, <2>4, <2>5, <1>2 DEF Keeps
<1>11. Free'
  <2> SUFFICES ASSUME NEW p \in Posts, Alone(p)', pc'[p] \in {"store", "write", "writing"}
               PROVE  FALSE
    BY DEF Free
  <2>1. p # r /\ UnderWay(p)
    BY <1>1 DEF UnderWay, Outcomes
  <2> QED
    BY <2>1, <1>4, <1>5 DEF Changes
<1>12. Met'
  <2> SUFFICES ASSUME backend = "mongo", NEW p \in Posts, NEW q \in rows',
                      pc'[p] = "store" \/ p \in rows', p # q, device[p] = device[q]
               PROVE  {p, q} \in met
    BY DEF Met
  <2>1. L = rows
    BY DEF StoreInv, FileKept
  <2>2. CASE pc'[p] = "store"
    <3>1. pc[p] = "store" /\ p # r /\ UnderWay(p)
      BY <2>2, <1>1 DEF UnderWay, Outcomes
    <3>2. q = r \/ q \in rows
      BY <2>1, <1>2
    <3> QED
      BY <3>1, <3>2, <1>1, <1>4 DEF StoreInv, Met, Changes
  <2>3. CASE p \in rows'
    <3>1. rows' \subseteq rows \cup {r} /\ rows' \subseteq Posts /\ {p, q} = {q, p}
      BY <2>1, <1>2 DEF StoreInv, TypeOK
    <3>2. CASE p \in rows /\ q \in rows
      BY <3>2 DEF StoreInv, Met
    <3>3. CASE p = r
      BY <3>1, <3>3, <1>1, <2>1 DEF StoreInv, Met, FileKept
    <3>4. CASE q = r
      <4>1. p \in rows /\ pc[q] = "store" /\ q \in Posts
        BY <2>3, <3>1, <3>4 DEF StoreInv, FileKept
      <4> QED
        BY <3>1, <4>1 DEF StoreInv, Met
    <3> QED
      BY <2>3, <3>1, <3>2, <3>3, <3>4
  <2> QED
    BY <2>2, <2>3
<1>13. (PoolKnown /\ FoundKnown /\ StaleOnlyByDeletion)'
  <2>1. \A c \in Commands : pc'[c] = pc[c]
    BY <1>1 DEF Changes
  <2> QED
    BY <1>2, <2>1, KnownGrows
<1> QED
  BY <1>6, <1>7, <1>9, <1>10, <1>11, <1>12, <1>13

\* A change of the database is one operation of the server.
LEMMA MongoChangesStep ==
    ASSUME StoreInv, NEW r \in Changes, MongoChanges(r)
    PROVE  StoreInv'
<1>1. (Meetings /\ Histories /\ Lists /\ Free /\ Met /\ PoolKnown /\ FoundKnown
         /\ StaleOnlyByDeletion)'
  <2>1. PICK L : L = rows
    OBVIOUS
  <2>2. Stores(r, L)
    BY <2>1 DEF MongoChanges
  <2> QED
    BY <2>1, <2>2, Applies DEF MongoChanges
<1>2. TypeOK'
  BY DEF MongoChanges, StoreInv, TypeOK, At, Changes, Changed, Stores, Outcomes
<1>3. FileKept'
  BY DEF MongoChanges, StoreInv, TypeOK, FileKept, At, Changes
<1> QED
  BY <1>1, <1>2, <1>3 DEF StoreInv

\* The file holds what was written, which is what was read and the change.
LEMMA WriteEndsStep ==
    ASSUME StoreInv, NEW r \in Changes, WriteEnds(r)
    PROVE  StoreInv'
<1> USE DEF WriteEnds
<1>1. PICK L : L = snapshot[r]
  OBVIOUS
<1>2. Stores(r, L)
  BY <1>1
<1>3. (Meetings /\ Histories /\ Lists /\ Free /\ Met /\ PoolKnown /\ FoundKnown
         /\ StaleOnlyByDeletion)'
  BY <1>1, <1>2, Applies
<1>4. backend = "file" /\ L \subseteq Posts
  BY <1>1 DEF StoreInv, TypeOK, FileKept, Changes
<1>5. rows' \subseteq Posts /\ stored' \subseteq Posts /\ gone' \subseteq Posts
  BY <1>2, <1>4 DEF StoreInv, TypeOK, Stores, Changed, Changes
<1>6. /\ pc' = [pc EXCEPT ![r] = "done"] /\ "done" \in Outcomes
      /\ \A c \in Commands : pc'[c] = pc[c]
  BY DEF StoreInv, TypeOK, At, Changes, Outcomes
<1>7. TypeOK'
  BY <1>4, <1>5, <1>6 DEF StoreInv, TypeOK, Changes
<1>8. FileKept'
  <2>1. \A q \in Changes : q # r => pc'[q] = pc[q]
    BY DEF StoreInv, TypeOK, At, Changes
  <2>2. \A q \in Changes : pc'[q] \in {"write", "writing"} => q # r /\ UnderWay(q) /\ UnderWay(r)
    BY <2>1, <1>6 DEF StoreInv, TypeOK, At, Changes, UnderWay, Outcomes
  <2>3. \A q \in Changes : pc'[q] \in {"write", "writing"} => ~ Alone(q)
    BY <2>2, MetNotAlone DEF StoreInv, Meetings
  <2>4. \A q : Alone(q)' <=> Alone(q)
    BY DEF Alone
  <2> QED
    BY <1>4, <2>3, <2>4 DEF FileKept
<1> QED
  BY <1>3, <1>7, <1>8 DEF StoreInv

\* Steps that leave the records as they are and start no change.
LEMMA RecordsStay ==
    ASSUME StoreInv, UNCHANGED <<backend, rows, stored, gone, met>>,
           \A r \in Changes : UnderWay(r)' => UnderWay(r),
           \A p \in Posts : pc[p] \in {"done", "failed"} => pc'[p] = pc[p],
           \A r \in Changes : pc'[r] = "done" => pc[r] = "done" \/ (pc[r] = "writing" /\ ~ Alone(r)),
           \A x \in Deletes : pc'[x] \in {"notifications", "store", "write", "writing"}
               => pc[x] \in {"notifications", "store", "write", "writing"},
           \A r \in Changes : pc'[r] \in {"write", "writing"} =>
               \/ pc[r] \in {"write", "writing"} /\ snapshot'[r] = snapshot[r]
               \/ pc[r] = "store" /\ snapshot'[r] = rows,
           \A p \in Posts : pc'[p] = "store" => pc[p] = "store"
    PROVE  (Meetings /\ Histories /\ Lists /\ Free /\ Met)'
<1>1. \A r : Alone(r)' <=> Alone(r)
  BY DEF Alone
<1>2. Meetings'
  BY DEF StoreInv, Meetings
<1>3. Histories'
  BY DEF StoreInv, TypeOK, Histories, Changes
<1>4. \A x \in Deletes : pc'[x] = "done" /\ Alone(x) => pc[x] = "done"
  BY DEF Changes
<1>5. Keeps(rows)'
  BY <1>1, <1>4 DEF StoreInv, Lists, Keeps
<1>6. ASSUME NEW r \in Changes, pc'[r] \in {"write", "writing"}
      PROVE  Keeps(snapshot[r])'
  <2>1. Keeps(rows) /\ (pc[r] \in {"write", "writing"} => Keeps(snapshot[r]))
    BY DEF StoreInv, Lists
  <2>2. CASE snapshot'[r] = snapshot[r] /\ pc[r] \in {"write", "writing"}
    BY <2>1, <2>2, <1>1, <1>4 DEF Keeps
  <2>3. CASE snapshot'[r] = rows
    BY <2>1, <2>3, <1>1, <1>4 DEF Keeps
  <2> QED
    BY <1>6, <2>2, <2>3
<1>7. Lists'
  BY <1>5, <1>6 DEF Lists
<1>8. Free'
  BY <1>1 DEF StoreInv, Free, Changes
<1>9. Met'
  BY DEF StoreInv, Met
<1> QED
  BY <1>2, <1>3, <1>7, <1>8, <1>9

\* The steps of a change of the file before its end, and its failure.
LEMMA FileSteps ==
    ASSUME StoreInv, NEW r \in Changes,
           FileReads(r) \/ WriteBegins(r) \/ WriteEndsShort(r) \/ (pc[r] = "writing" /\ Fails(r))
    PROVE  StoreInv'
<1>1. /\ UNCHANGED <<backend, rows, stored, gone, met, instance, record, sentTo>>
      /\ \A q \in Requests : q # r => pc'[q] = pc[q] /\ snapshot'[q] = snapshot[q]
      /\ r \in Requests /\ UnderWay(r)
      /\ \A c \in Commands : pc'[c] = pc[c]
  BY DEF StoreInv, TypeOK, FileReads, WriteBegins, WriteEndsShort, Fails, At, Changes, storeVars,
      UnderWay, Outcomes
<1>2. WriteEndsShort(r) => ~ Alone(r)
  <2>1. pc[r] = "writing" /\ file = "garbled" => ~ Alone(r)
    BY DEF StoreInv, FileKept
  <2> QED
    BY <2>1 DEF StoreInv, FileKept, WriteEndsShort
<1>3. \/ pc[r] = "store" /\ pc'[r] = "write" /\ snapshot'[r] = rows
      \/ pc[r] = "write" /\ pc'[r] = "writing" /\ snapshot'[r] = snapshot[r]
      \/ pc[r] = "writing" /\ pc'[r] = "done" /\ ~ Alone(r)
      \/ pc[r] = "writing" /\ pc'[r] = "failed"
  BY <1>2 DEF StoreInv, TypeOK, FileReads, WriteBegins, WriteEndsShort, Fails, At, Changes
<1>4. (Meetings /\ Histories /\ Lists /\ Free /\ Met)'
  <2>1. \A q \in Changes : UnderWay(q)' => UnderWay(q)
    BY <1>1 DEF UnderWay, Changes
  <2> QED
    BY <2>1, <1>1, <1>3, RecordsStay DEF Changes
<1>5. (PoolKnown /\ FoundKnown /\ StaleOnlyByDeletion)'
  BY <1>1, KnownGrows
<1>6. TypeOK'
  <2>1. file' \in {"whole", "empty", "garbled"} /\ broken' \in BOOLEAN
    BY DEF StoreInv, TypeOK, FileReads, WriteBegins, WriteEndsShort, Fails, CutShort, storeVars
  <2>2. backend = "file"
    BY DEF StoreInv, TypeOK, FileKept, FileReads, WriteBegins, WriteEndsShort
  <2>3. /\ pc' \in [Requests -> Outcomes \cup {"new", "check", "notifications", "store", "write",
                                              "writing", "send"}]
        /\ snapshot' \in [Requests -> SUBSET Posts]
    BY <1>1 DEF StoreInv, TypeOK, FileReads, WriteBegins, WriteEndsShort, Fails, At, Outcomes
  <2> QED
    BY <1>1, <2>1, <2>2, <2>3 DEF StoreInv, TypeOK
<1>7. FileKept'
  <2> SUFFICES /\ \A q \in Changes : pc'[q] \in {"write", "writing"} => backend = "file"
               /\ \A q \in Changes : pc'[q] = "writing" /\ file' # "empty" => ~ Alone(q)
               /\ file' = "empty" => broken' \/ \E q \in Changes : pc'[q] = "writing"
               /\ file' = "garbled" => broken' \/ met # {}
    BY <1>1 DEF FileKept, Alone
  <2>1. CASE FileReads(r)
    BY <2>1, <1>1, <1>3 DEF StoreInv, FileKept, FileReads, storeVars, Changes
  <2>2. CASE WriteBegins(r)
    BY <2>2, <1>1, <1>3 DEF StoreInv, FileKept, WriteBegins, Changes
  <2>3. ASSUME pc[r] = "writing", pc'[r] \in {"done", "failed"}
        PROVE  \A q \in Changes : pc'[q] \in {"write", "writing"} => backend = "file" /\ ~ Alone(q)
    <3>1. \A q \in Changes : pc'[q] \in {"write", "writing"} =>
              q # r /\ UnderWay(q) /\ pc[q] \in {"write", "writing"}
      BY <2>3, <1>1 DEF UnderWay, Outcomes, Changes
    <3> QED
      BY <3>1, <1>1, MetNotAlone DEF StoreInv, Meetings, FileKept
  <2>4. CASE WriteEndsShort(r)
    <3>1. met # {} /\ file' = "garbled"
      BY <2>4, <1>2 DEF Alone, WriteEndsShort
    <3> QED
      BY <2>3, <2>4, <3>1, <1>3 DEF WriteEndsShort
  <2>5. CASE pc[r] = "writing" /\ Fails(r)
    BY <2>3, <2>5, <1>3 DEF Fails, CutShort
  <2> QED
    BY <2>1, <2>2, <2>4, <2>5
<1> QED
  BY <1>4, <1>5, <1>6, <1>7 DEF StoreInv

-----------------------------------------------------------------------------
\* A pooled address is that of a record the device had; if it is not the one of the record a
\* command found, one of the two is gone or was not alone.
LEMMA PooledKnown ==
    ASSUME StoreInv, NEW p \in stored
    PROVE  \E q \in stored :
              /\ device[q] = device[p] /\ address[q] = Pooled(p)
              /\ \/ Pooled(p) = address[p]
                 \/ {q, p} \cap gone # {} \/ ~ Alone(q) \/ ~ Alone(p)
<1>1. p \in Posts /\ device[p] \in Devices
  BY DEF StoreInv, TypeOK
<1>2. CASE instance[device[p]] = "none"
  BY <1>2 DEF Pooled
<1>3. CASE instance[device[p]] # "none"
  <2>1. PICK q \in stored : device[q] = device[p] /\ address[q] = instance[device[p]]
    BY <1>1, <1>3 DEF StoreInv, PoolKnown
  <2>2. CASE {q, p} \cap gone = {} /\ Alone(q) /\ Alone(p)
    <3>1. q = p
      BY <2>1, <2>2 DEF StoreInv, Lists, Keeps
    <3> QED
      BY <3>1, <2>1, <1>3 DEF Pooled
  <2> QED
    BY <1>3, <2>1, <2>2 DEF Pooled
<1> QED
  BY <1>2, <1>3

\* A command moves on or fails; the storage and the changes stay as they are.
LEMMA CommandSteps ==
    ASSUME StoreInv, NEW c \in Commands, CommandFinds(c) \/ CommandSends(c) \/ Fails(c)
    PROVE  StoreInv'
<1>1. /\ UNCHANGED <<backend, rows, stored, gone, met, snapshot>>
      /\ \A q \in Changes : pc'[q] = pc[q]
      /\ \A e \in Commands : e # c => pc'[e] = pc[e] /\ record'[e] = record[e] /\ sentTo'[e] = sentTo[e]
  BY DEF StoreInv, TypeOK, CommandFinds, CommandSends, Fails, At, storeVars, Changes
<1>2. pc[c] # "writing" => file' = file /\ broken' = broken
  BY DEF StoreInv, TypeOK, CommandFinds, CommandSends, Fails, CutShort, storeVars
<1>3. (Meetings /\ Histories /\ Lists /\ Free /\ Met)'
  <2>1. \A q \in Changes : UnderWay(q)' => UnderWay(q)
    BY <1>1 DEF UnderWay
  <2> QED
    BY <1>1, <2>1, RecordsStay DEF Changes
<1>4. file' = file /\ broken' = broken
  BY <1>2 DEF StoreInv, TypeOK, Outcomes
<1>5. FileKept'
  BY <1>1, <1>4 DEF StoreInv, FileKept, Alone
<1>6. TypeOK' /\ PoolKnown' /\ FoundKnown' /\ StaleOnlyByDeletion'
  <2>1. CASE CommandFinds(c)
    <3>1. TypeOK'
      BY <2>1, <1>4 DEF StoreInv, TypeOK, CommandFinds, At, storeVars, Outcomes
    <3>2. rows \subseteq stored
      BY DEF StoreInv, Lists, Keeps
    <3>3. PoolKnown' /\ FoundKnown'
      BY <2>1, <1>1, <3>2 DEF StoreInv, TypeOK, CommandFinds, At, PoolKnown, FoundKnown
    <3>4. \A e \in Commands : pc'[e] = "done" => e # c
      BY <2>1 DEF StoreInv, TypeOK, CommandFinds, At
    <3>5. StaleOnlyByDeletion'
      BY <2>1, <1>1, <3>4 DEF StoreInv, StaleOnlyByDeletion, CommandFinds, Alone
    <3> QED
      BY <3>1, <3>3, <3>5
  <2>2. CASE CommandSends(c)
    <3>1. PICK p \in stored : p = record[c]
      BY <2>2 DEF StoreInv, FoundKnown, CommandSends
    <3>2. p \in Posts /\ device[p] \in Devices /\ address[p] \in Addresses
      BY DEF StoreInv, TypeOK
    <3>3. PICK q \in stored :
             /\ device[q] = device[p] /\ address[q] = Pooled(p)
             /\ \/ Pooled(p) = address[p]
                \/ {q, p} \cap gone # {} \/ ~ Alone(q) \/ ~ Alone(p)
      BY PooledKnown
    <3>4. Pooled(p) \in Addresses
      BY <3>3 DEF StoreInv, TypeOK
    <3>5. /\ instance' = [instance EXCEPT ![device[p]] = Pooled(p)]
          /\ sentTo' = [sentTo EXCEPT ![c] = Pooled(p)]
          /\ pc' = [pc EXCEPT ![c] = "done"] /\ record' = record /\ "done" \in Outcomes
      BY <2>2, <3>1 DEF CommandSends, At, Outcomes
    <3>6. TypeOK'
      BY <1>1, <1>4, <3>1, <3>2, <3>4, <3>5 DEF StoreInv, TypeOK
    <3>7. PoolKnown'
      BY <1>1, <3>2, <3>3, <3>5 DEF StoreInv, TypeOK, PoolKnown
    <3>8. FoundKnown'
      BY <1>1, <3>1, <3>5 DEF StoreInv, TypeOK, FoundKnown
    <3>9. StaleOnlyByDeletion'
      <4> SUFFICES ASSUME NEW e \in Commands, pc'[e] = "done"
                   PROVE  \/ sentTo'[e] = address[record'[e]]
                          \/ \E k \in stored' :
                                /\ device[k] = device[record'[e]] /\ sentTo'[e] = address[k]
                                /\ \/ {k, record'[e]} \cap gone' # {}
                                   \/ ~ Alone(k)' \/ ~ Alone(record[e])'
        BY <3>5 DEF StaleOnlyByDeletion, Alone
      <4>1. CASE e = c
        <5>1. sentTo'[c] = Pooled(p)
          BY <3>5 DEF StoreInv, TypeOK
        <5> QED
          BY <4>1, <5>1, <1>1, <3>1, <3>3, <3>5 DEF Alone
      <4>2. CASE e # c
        BY <4>2, <1>1, <3>5 DEF StoreInv, StaleOnlyByDeletion, Alone
      <4> QED
        BY <4>1, <4>2
    <3> QED
      BY <3>6, <3>7, <3>8, <3>9
  <2>3. CASE Fails(c)
    <3>1. TypeOK'
      BY <2>3, <1>1, <1>4 DEF StoreInv, TypeOK, Fails, At, Outcomes
    <3>2. PoolKnown' /\ FoundKnown'
      BY <2>3, <1>1 DEF StoreInv, TypeOK, Fails, At, PoolKnown, FoundKnown
    <3>3. \A e \in Commands : pc'[e] = "done" => e # c
      BY <2>3 DEF StoreInv, TypeOK, Fails, At
    <3>4. StaleOnlyByDeletion'
      BY <2>3, <1>1, <3>3 DEF StoreInv, StaleOnlyByDeletion, Fails, Alone
    <3> QED
      BY <3>1, <3>2, <3>4
  <2> QED
    BY <2>1, <2>2, <2>3
<1> QED
  BY <1>3, <1>5, <1>6 DEF StoreInv

\* A crash forgets the requests and the instances, and keeps what is stored; it may cut a write
\* short.
LEMMA RestartStep ==
    ASSUME StoreInv, Restart
    PROVE  StoreInv'
<1> USE DEF Restart
<1>1. /\ \A r \in Requests : pc'[r] \in Outcomes \cup {"new"}
      /\ \A r \in Requests : pc[r] \in Outcomes \cup {"new"} => pc'[r] = pc[r]
      /\ \A r \in Requests : pc'[r] = pc[r] \/ pc'[r] = "failed"
  BY DEF StoreInv, TypeOK, UnderWay, Outcomes
<1>2. file' \in {"whole", "empty", "garbled"} /\ broken' \in BOOLEAN
  BY DEF StoreInv, TypeOK, CutShort
<1>3. backend = "mongo" => file' = "whole"
  BY DEF StoreInv, TypeOK, FileKept, CutShort
<1>4. TypeOK'
  <2>1. /\ pc' \in [Requests -> Outcomes \cup {"new", "check", "notifications", "store", "write",
                                              "writing", "send"}]
        /\ instance' \in [Devices -> Addresses \cup {"none"}]
    BY DEF StoreInv, TypeOK, Outcomes
  <2>2. \A c \in Commands : pc'[c] \in Outcomes \cup {"new", "send"}
                              /\ (pc'[c] \in {"send", "done"} => record[c] \in Posts)
    BY <1>1 DEF StoreInv, TypeOK, Outcomes
  <2> QED
    BY <1>2, <1>3, <2>1, <2>2 DEF StoreInv, TypeOK
<1>5. \A r \in Requests : pc'[r] \notin {"check", "notifications", "store", "write", "writing", "send"}
  BY <1>1 DEF Outcomes
<1>6. (Meetings /\ Histories /\ Lists /\ Free /\ Met)'
  <2>1. \A q \in Changes : ~ UnderWay(q)'
    BY <1>1 DEF UnderWay, Changes
  <2>2. \A p \in Posts : pc[p] \in {"done", "failed"} => pc'[p] = pc[p]
    BY <1>1 DEF Outcomes
  <2>3. \A r \in Changes : pc'[r] = "done" => pc[r] = "done"
    BY <1>1 DEF Changes
  <2> QED
    BY <1>5, <2>1, <2>2, <2>3, RecordsStay DEF Changes
<1>7. FileKept'
  <2>1. file' = "empty" => broken'
    BY DEF StoreInv, FileKept, CutShort
  <2>2. file' = "garbled" => broken' \/ met # {}
    BY DEF StoreInv, FileKept, CutShort
  <2> QED
    BY <1>5, <2>1, <2>2 DEF FileKept, Changes
<1>8. PoolKnown' /\ FoundKnown'
  BY <1>1, <1>5 DEF StoreInv, PoolKnown, FoundKnown
<1>9. StaleOnlyByDeletion'
  BY <1>1 DEF StoreInv, StaleOnlyByDeletion, Alone
<1> QED
  BY <1>4, <1>6, <1>7, <1>8, <1>9 DEF StoreInv

\* One step for each action.
LEMMA StoreSteps == StoreInv /\ [Next]_vars => StoreInv'
<1> SUFFICES ASSUME StoreInv, [Next]_vars PROVE StoreInv'
  OBVIOUS
<1>1. ASSUME NEW p \in Posts, PostDiscovers(p) \/ PostChecks(p) PROVE StoreInv'
  BY <1>1, Moves DEF PostDiscovers, PostChecks, Changes, storeVars
<1>2. ASSUME NEW x \in Deletes, DeleteFinds(x) \/ NotificationsDeleted(x) PROVE StoreInv'
  BY <1>2, Moves DEF DeleteFinds, NotificationsDeleted, Changes, storeVars
<1>3. ASSUME NEW r \in Changes,
             MongoChanges(r) \/ FileReads(r) \/ WriteBegins(r) \/ WriteEnds(r) \/ WriteEndsShort(r)
      PROVE  StoreInv'
  BY <1>3, MongoChangesStep, WriteEndsStep, FileSteps
<1>4. ASSUME NEW c \in Commands, CommandFinds(c) \/ CommandSends(c) PROVE StoreInv'
  BY <1>4, CommandSteps
<1>5. ASSUME NEW r \in Requests, Fails(r) PROVE StoreInv'
  <2>1. CASE r \in Changes /\ pc[r] # "writing"
    <3>1. file' = file /\ broken' = broken
      BY <1>5, <2>1 DEF Fails, CutShort, StoreInv, TypeOK
    <3>2. (UnderWay(r) \/ (pc[r] = "new" /\ r \in Deletes)) /\ At(r, "failed")
      BY <1>5, <2>1 DEF Fails, Changes
    <3>3. UNCHANGED <<backend, rows, stored, gone, met, instance, snapshot, record, sentTo>>
      BY <1>5 DEF Fails
    <3> QED
      BY <2>1, <3>1, <3>2, <3>3, Moves
  <2>2. CASE r \in Changes /\ pc[r] = "writing"
    BY <1>5, <2>2, FileSteps
  <2>3. CASE r \in Commands
    BY <1>5, <2>3, CommandSteps
  <2> QED
    BY <2>1, <2>2, <2>3 DEF Changes
<1>6. CASE Restart
  BY <1>6, RestartStep
<1>7. CASE UNCHANGED vars
  <2>1. (Meetings /\ Histories /\ Lists /\ Free /\ Met /\ FileKept)'
    BY <1>7 DEF vars, storeVars, StoreInv, Meetings, Histories, Lists, Keeps, Free, Met, FileKept,
        UnderWay, Alone
  <2>2. TypeOK' /\ PoolKnown' /\ FoundKnown' /\ StaleOnlyByDeletion'
    BY <1>7 DEF vars, storeVars, StoreInv, TypeOK, PoolKnown, FoundKnown, StaleOnlyByDeletion, Alone
  <2> QED
    BY <2>1, <2>2 DEF StoreInv
<1> QED
  BY <1>1, <1>2, <1>3, <1>4, <1>5, <1>6, <1>7 DEF Next, Changes

\* The invariant holds throughout.
THEOREM StoreInvariance == Spec => []StoreInv
BY StoreStarts, StoreSteps, PTL DEF Spec

\* Every reachable state of the device store is of its type; a command goes on only with the
\* record it found.
THEOREM StoreTypes == Spec => []TypeOK
BY StoreInvariance, PTL DEF StoreInv

\* What a change did that ran alone holds, with either backend: its record stays until it is
\* deleted, or stays deleted, and no device has two such records; the file is unreadable for
\* good only after a write was cut short or changes overlapped.  Of changes that overlap the
\* theorem claims nothing.
THEOREM LoneChanges == Spec => []LoneChangesHold
<1>1. StoreInv => LoneChangesHold
  <2> SUFFICES ASSUME StoreInv PROVE LoneChangesHold
    OBVIOUS
  <2>1. Once
    BY DEF StoreInv, TypeOK, Lists, Keeps, Met, Once
  <2>2. NothingLost /\ NothingRevived
    BY DEF StoreInv, Lists, Keeps, NothingLost, NothingRevived
  <2>3. FileLives
    BY DEF StoreInv, TypeOK, FileKept, FileLives, Unreadable
  <2> QED
    BY <2>1, <2>2, <2>3 DEF LoneChangesHold
<1> QED
  BY <1>1, StoreInvariance, PTL

\* The pool and the records disagree only by a deletion, or by changes that overlapped.
THEOREM StaleByDeletion == Spec => []StaleOnlyByDeletion
BY StoreInvariance, PTL DEF StoreInv

-----------------------------------------------------------------------------
(* Commands and bulk reads by key. *)
\* What a call that is under way was made of: entries the mapper may leave under their
\* keys, given the rows the call has read; for a command by key, one that allows it.
Mapped(c) == \A k \in DOMAIN c.table : c.table[k] \in Entries(c.rows, k)
ByKey(c) ==
    /\ c.iid = None /\ c.props[1] \in DOMAIN c.table
    /\ Allowed(c.op, c.table[c.props[1]], c.value)
CallFits(c) ==
    /\ c.rows \in Seq(Rows) /\ Mapped(c)
    /\ c.op \in {"get", "set", "action", "read"}
    /\ c.op \in {"get", "set"} => c.props[1] = None \/ ByKey(c)
    /\ c.op = "read" => c.iid = None

\* What it has sent and was answered: its own packets, in order, and items of which a
\* good one has the value of the property it names.
IsSequence(s) == s \in Seq({s[n] : n \in DOMAIN s})
Progress ==
    /\ IsSequence(sent) /\ IsSequence(answers)
    /\ \A n \in DOMAIN sent : sent[n] = Packet(command, n)
    /\ \A i \in DOMAIN answers : answers[i].code = 0 => answers[i].value = answers[i].iid

NothingRefusedYet == \A r \in reported : r[1] # "refused"

KeysInv ==
    /\ overrides \in Seq(Rows)
    /\ command # None =>
          /\ ended = None
          /\ CallFits(command) /\ Progress
          /\ command.op = "read" => NothingRefusedYet
    /\ KeysReachTheirProperties

-----------------------------------------------------------------------------
\* The youngest of some positions is what CHOOSE finds.
LEMMA Youngest ==
    ASSUME NEW S \in SUBSET Nat, NEW i \in S, \A j \in S : j <= i
    PROVE  i = CHOOSE h \in S : \A j \in S : j <= h
<1>1. ASSUME NEW h \in S, \A j \in S : j <= h
      PROVE  h = i
    <2>1. h <= i /\ i <= h /\ h \in Nat /\ i \in Nat
        BY <1>1
    <2>2. QED
        BY <2>1
<1>2. QED
    BY <1>1

\* What the mapper leaves under a key is what the key stands for.
LEMMA EntryMeans ==
    ASSUME NEW rs \in Seq(Rows), NEW k, NEW e \in Entries(rs, k), NEW op, NEW v, Allowed(op, e, v)
    PROVE  Means(rs, k, InstanceIds(e), op, v)
<1> DEFINE forK == OverrideRows(rs, k)
<1>0. op = "set" => "WRITE" \in e.access /\ v \in e.values
    BY DEF Allowed, Listed
<1>1. CASE forK = {}
    <2>1. e \in PublishedEntries(k)
        BY <1>1 DEF Entries
    <2>2. PICK s \in SiidsWithSpec : \E p \in {q \in services[s].properties : KeyOf(s, q) = k} :
             e = [source |-> "spec", siid |-> s, piid |-> p.piid, access |-> p.access, values |-> p.values]
        BY <2>1 DEF PublishedEntries
    <2>3. PICK p \in services[s].properties :
             KeyOf(s, p) = k /\ e = [source |-> "spec", siid |-> s, piid |-> p.piid, access |-> p.access, values |-> p.values]
        BY <2>2
    <2>4. InstanceIds(e) = <<s, p.piid>> /\ e.access = p.access /\ e.values = p.values
        BY <2>3 DEF InstanceIds
    <2>5. QED
        BY <1>0, <1>1, <2>3, <2>4 DEF Means, OverrideRows
<1>2. CASE forK # {}
    <2>1. PICK i \in forK : (\A h \in forK : h <= i) /\ e = Entry(rs[i])
        BY <1>2 DEF Entries
    <2>2. forK \subseteq Nat
        BY DEF OverrideRows
    <2>3. i = CHOOSE h \in forK : \A j \in forK : j <= h
        BY <2>1, <2>2, Youngest
    <2>4. InstanceIds(e) = <<rs[i].siid, rs[i].piid>> /\ e.access = rs[i].access /\ e.values = rs[i].values
        BY <2>1 DEF InstanceIds, Entry
    <2>5. QED
        BY <1>0, <1>2, <2>3, <2>4 DEF Means, OverrideRows
<1>3. QED
    BY <1>1, <1>2

\* Among some positions there is a first.
LEMMA SmallestOf ==
    ASSUME NEW S \in SUBSET Nat, S # {}
    PROVE  \E i \in S : \A j \in S : i <= j
<1> DEFINE R == {p \in Nat \X Nat : p[1] < p[2]}
<1>1. IsWellFoundedOn(R, Nat)
    BY NatLessThanWellFounded DEF OpToRel
<1>2. \A k, n \in Nat : <<k, n>> \in R <=> k < n
    OBVIOUS
<1> HIDE DEF R
<1>3. PICK i \in S : \A j \in S : ~ (<<j, i>> \in R)
    BY <1>1, WFMin
<1>4. \A j \in S : ~ (j < i) /\ j \in Nat /\ i \in Nat
    BY <1>2, <1>3
<1>5. QED
    BY <1>4

LEMMA OneMore ==
    ASSUME NEW s, IsSequence(s), NEW e
    PROVE  /\ IsSequence(Append(s, e)) /\ Len(s) \in Nat
           /\ DOMAIN Append(s, e) = DOMAIN s \cup {Len(s) + 1} /\ DOMAIN s = 1..Len(s)
           /\ \A n \in DOMAIN s : Append(s, e)[n] = s[n]
           /\ Append(s, e)[Len(s) + 1] = e
<1> DEFINE S == {s[n] : n \in DOMAIN s} \cup {e}
<1>1. s \in Seq(S)
    BY DEF IsSequence
<1>2. \A i \in DOMAIN s : s[i] \in S
    OBVIOUS
<1> HIDE DEF S
<1>3. Append(s, e) \in Seq(S) /\ Len(Append(s, e)) = Len(s) + 1 /\ Len(s) \in Nat
    BY <1>1, e \in S DEF S
<1>4. /\ DOMAIN Append(s, e) = DOMAIN s \cup {Len(s) + 1} /\ DOMAIN s = 1..Len(s)
      /\ \A n \in DOMAIN s : Append(s, e)[n] = s[n]
      /\ Append(s, e)[Len(s) + 1] = e
    BY <1>1, <1>3
<1>5. IsSequence(Append(s, e))
    <2> PICK u : u = Append(s, e)
        OBVIOUS
    <2> DEFINE T == {u[n] : n \in DOMAIN u}
    <2>0. u \in Seq(S)
        BY <1>3
    <2>1. Len(u) \in Nat /\ u \in [1..Len(u) -> S]
        BY <2>0, LenProperties
    <2>2. u \in [1..Len(u) -> T]
        BY <2>1
    <2>3. u \in Seq(T)
        <3> HIDE DEF T
        <3>1. Seq(T) = UNION {[1..n -> T] : n \in Nat}
            BY SeqDef, Zenon
        <3>2. QED
            BY <2>1, <2>2, <3>1, Zenon
    <2>4. QED
        BY <2>3 DEF IsSequence
<1>6. QED
    BY <1>3, <1>4, <1>5

LEMMA KeysStart == CommandsInit => KeysInv
BY DEF CommandsInit, KeysInv, KeysReachTheirProperties, Over

\* The specification of a device stays, and with it what a key may stand for.
LEMMA EntriesStay ==
    ASSUME services' = services, NEW CONSTANT rs, NEW CONSTANT k
    PROVE  Entries(rs, k)' = Entries(rs, k)
BY DEF Entries, PublishedEntries, OverrideRows, Entry, KeyOf, SiidsWithSpec

LEMMA FitsStays ==
    ASSUME services' = services, NEW CONSTANT c, CallFits(c)
    PROVE  CallFits(c)'
BY EntriesStay DEF CallFits, Mapped, ByKey, Allowed, Listed

\* A call begins with nothing sent and nothing answered.
LEMMA CallBegins ==
    ASSUME KeysInv, command = None, NEW CONSTANT c, Begins(c), CallFits(c), NothingRefusedYet',
           UNCHANGED <<services, overrides>>
    PROVE  KeysInv'
<1>1. command' = c /\ sent' = <<>> /\ answers' = <<>> /\ ended' = None
    BY DEF Begins
<1>2. Progress'
    BY <1>1 DEF Progress, IsSequence
<1>3. CallFits(command)'
    BY <1>1, FitsStays
<1>4. QED
    BY <1>1, <1>2, <1>3 DEF KeysInv, KeysReachTheirProperties, Over

LEMMA CallFails ==
    ASSUME KeysInv, NEW why \in {"error", "nothing_read", "bad_request"}, FailsAs(why),
           UNCHANGED <<services, overrides>>
    PROVE  KeysInv'
<1>1. command' = None /\ ended' = [kind |-> why]
    BY DEF FailsAs
<1>2. ended'.kind \notin {"get", "set", "results"}
    BY <1>1
<1>3. QED
    BY <1>1, <1>2 DEF KeysInv, KeysReachTheirProperties, Over

\* Rows come and go; what a call has read it keeps.
LEMMA RowsChange ==
    ASSUME KeysInv, overrides' \in Seq(Rows), Cleared, UNCHANGED <<services, command>>
    PROVE  KeysInv'
<1>1. CASE command = None
    BY <1>1 DEF KeysInv, Cleared, KeysReachTheirProperties, Over
<1>2. CASE command # None
    <2>1. UNCHANGED <<services, command, sent, answers, ended, reported>>
        BY <1>2 DEF Cleared
    <2> PICK c : c = command
        OBVIOUS
    <2>2. CallFits(c)' /\ command' = c
        BY <1>2, <2>1, FitsStays DEF KeysInv
    <2>3. Progress'
        BY <1>2, <2>1 DEF KeysInv, Progress, Packet
    <2>4. ended' = None
        BY <1>2, <2>1 DEF KeysInv
    <2>5. command'.op = "read" => NothingRefusedYet'
        BY <1>2, <2>1 DEF KeysInv, NothingRefusedYet
    <2>6. KeysReachTheirProperties'
        BY <2>4 DEF KeysReachTheirProperties, Over
    <2>7. QED
        BY <2>2, <2>3, <2>4, <2>5, <2>6 DEF KeysInv
<1>3. QED
    BY <1>1, <1>2

\* A mapping leaves an entry for its key.
LEMMA TableIsMapped ==
    ASSUME NEW t \in Tables, NEW k \in DOMAIN t
    PROVE  t[k] \in Entries(overrides, k)
BY DEF Tables

LEMMA CreateKeeps == ASSUME KeysInv, NEW r \in Rows, CreateOverride(r) PROVE KeysInv'
<1>1. overrides' \in Seq(Rows)
    BY DEF CreateOverride, KeysInv
<1>2. QED
    BY <1>1, RowsChange DEF CreateOverride

LEMMA DeleteKeeps == ASSUME KeysInv, NEW i \in 1..MaxRows, DeleteOverride(i) PROVE KeysInv'
<1>1. overrides \in Seq(Rows) /\ i \in 1..Len(overrides)
    BY DEF DeleteOverride, KeysInv
<1>2. SubSeq(overrides, 1, i - 1) \in Seq(Rows) /\ SubSeq(overrides, i + 1, Len(overrides)) \in Seq(Rows)
    BY <1>1
<1>3. overrides' \in Seq(Rows)
    BY <1>2 DEF DeleteOverride
<1>4. QED
    BY <1>3, RowsChange DEF DeleteOverride

LEMMA GetPropertiesKeeps == ASSUME KeysInv, NEW keys \in BulkReads, GetProperties(keys) PROVE KeysInv'
<1>1. command = None /\ UNCHANGED <<services, overrides>>
    BY DEF GetProperties
<1>2. PICK t \in Tables :
         /\ reported' = {<<"unresolved", k>> : k \in {keys[i] : i \in DOMAIN keys} \ DOMAIN t}
         /\ IF Resolvable(t, keys) = <<>> THEN FailsAs("nothing_read")
            ELSE Begins(Call("read", t, Resolvable(t, keys), None, None))
    BY DEF GetProperties
<1>3. CASE Resolvable(t, keys) = <<>>
    BY <1>1, <1>2, <1>3, CallFails
<1>4. CASE Resolvable(t, keys) # <<>>
    <2> PICK c : c = Call("read", t, Resolvable(t, keys), None, None)
        OBVIOUS
    <2>1. Begins(c)
        BY <1>2, <1>4
    <2>2. c.op = "read" /\ c.table = t /\ c.rows = overrides /\ c.iid = None
        BY DEF Call
    <2>3. overrides \in Seq(Rows)
        BY DEF KeysInv
    <2>4. CallFits(c)
        BY <2>2, <2>3, TableIsMapped DEF CallFits, Mapped
    <2>5. NothingRefusedYet'
        BY <1>2 DEF NothingRefusedYet
    <2>6. QED
        BY <1>1, <2>1, <2>4, <2>5, CallBegins
<1>5. QED
    BY <1>3, <1>4

LEMMA ExecuteKeeps ==
    ASSUME KeysInv, NEW op \in {"get", "set", "action"}, NEW k \in Asked, NEW v \in Written, Execute(op, k, v)
    PROVE  KeysInv'
<1>1. command = None /\ UNCHANGED <<services, overrides>> /\ overrides \in Seq(Rows)
    BY DEF Execute, KeysInv
<1>2. PICK t \in Tables :
         LET acts == {a \in ActionsOf : a.key = k}
             ok == IF op = "action" THEN acts # {} ELSE k \in DOMAIN t /\ Allowed(op, t[k], v)
         IN
         \/ ok /\ op # "action" /\ Begins(Call(op, t, <<k>>, IF op = "set" THEN v ELSE None, None)) /\ reported' = {}
         \/ ok /\ op = "action" /\ reported' = {}
               /\ \E a \in acts : Begins(Call(op, t, <<k>>, None, <<a.siid, a.aiid>>))
         \/ ~ ok /\ FailsAs("bad_request") /\ reported' = {<<"rejected_locally", MiotMethodOf(op)>>}
    BY DEF Execute
<1>3. CASE FailsAs("bad_request")
    BY <1>1, <1>3, CallFails
<1>4. CASE /\ k \in DOMAIN t /\ Allowed(op, t[k], v) /\ op # "action" /\ reported' = {}
           /\ Begins(Call(op, t, <<k>>, IF op = "set" THEN v ELSE None, None))
    <2> PICK c : c = Call(op, t, <<k>>, IF op = "set" THEN v ELSE None, None)
        OBVIOUS
    <2>1. /\ c.op = op /\ c.table = t /\ c.rows = overrides /\ c.props[1] = k /\ c.iid = None
          /\ op = "set" => c.value = v
        BY DEF Call
    <2>2. Allowed(op, t[k], c.value)
        BY <1>4, <2>1 DEF Allowed
    <2>3. CallFits(c)
        BY <1>1, <1>4, <2>1, <2>2, TableIsMapped DEF CallFits, Mapped, ByKey
    <2>4. Begins(c) /\ NothingRefusedYet'
        BY <1>4 DEF NothingRefusedYet
    <2>5. QED
        BY <1>1, <2>3, <2>4, CallBegins
<1>5. ASSUME op = "action", reported' = {}, NEW a \in ActionsOf, Begins(Call(op, t, <<k>>, None, <<a.siid, a.aiid>>))
      PROVE  KeysInv'
    <2> PICK c : c = Call(op, t, <<k>>, None, <<a.siid, a.aiid>>)
        OBVIOUS
    <2>1. c.op = "action" /\ c.table = t /\ c.rows = overrides
        BY <1>5 DEF Call
    <2>2. CallFits(c)
        BY <1>1, <2>1, TableIsMapped DEF CallFits, Mapped
    <2>3. Begins(c) /\ NothingRefusedYet'
        BY <1>5 DEF NothingRefusedYet
    <2>4. QED
        BY <1>1, <2>2, <2>3, CallBegins
<1>6. QED
    BY <1>2, <1>3, <1>4, <1>5

LEMMA ExecuteRawKeeps ==
    ASSUME KeysInv, NEW op \in {"get", "set", "action"}, NEW s, NEW i, ExecuteRaw(op, s, i)
    PROVE  KeysInv'
<1>1. command = None /\ UNCHANGED <<services, overrides>> /\ overrides \in Seq(Rows) /\ reported' = {}
    BY DEF ExecuteRaw, KeysInv
<1>2. CASE i = None
    BY <1>1, <1>2, CallFails DEF ExecuteRaw
<1>3. CASE i # None
    <2> PICK c : c = Call(op, [k \in {} |-> None], <<None>>, None, <<s, i>>)
        OBVIOUS
    <2>1. c.op = op /\ c.table = [k \in {} |-> None] /\ c.rows = overrides /\ c.props[1] = None
        BY DEF Call
    <2>2. CallFits(c)
        BY <1>1, <2>1 DEF CallFits, Mapped
    <2>3. Begins(c) /\ NothingRefusedYet'
        BY <1>1, <1>3 DEF ExecuteRaw, NothingRefusedYet
    <2>4. QED
        BY <1>1, <2>2, <2>3, CallBegins
<1>4. QED
    BY <1>2, <1>3

LEMMA AnsweredKeeps == ASSUME KeysInv, NEW code \in {0, 1, None}, PacketAnswered(code) PROVE KeysInv'
<1> PICK c : c = command
    OBVIOUS
<1> PICK p : p = Packet(c, Len(sent) + 1)
    OBVIOUS
<1>1. /\ c # None /\ Len(sent) < Len(c.props) /\ sent' = Append(sent, p)
      /\ answers' = IF code = None THEN answers ELSE Append(answers, Answer(p, code))
      /\ UNCHANGED <<services, overrides, command, ended, reported>>
    BY DEF PacketAnswered
<1>2. ended = None /\ CallFits(c) /\ Progress /\ overrides \in Seq(Rows) /\ (c.op = "read" => NothingRefusedYet)
    BY <1>1 DEF KeysInv
<1>3. CallFits(command)'
    BY <1>1, <1>2, FitsStays
<1>4. Progress'
    <2>1. IsSequence(sent') /\ IsSequence(answers')
        BY <1>1, <1>2, OneMore DEF Progress
    <2>2. \A n \in DOMAIN sent' : sent'[n] = Packet(c, n)
        BY <1>1, <1>2, OneMore DEF Progress
    <2>3. \A n : Packet(c, n)' = Packet(c, n)
        BY DEF Packet
    <2>4. Answer(p, code).code = 0 => Answer(p, code).value = Answer(p, code).iid
        BY DEF Answer
    <2>5. \A i \in DOMAIN answers' : answers'[i].code = 0 => answers'[i].value = answers'[i].iid
        BY <1>1, <1>2, <2>4, OneMore DEF Progress
    <2>6. QED
        BY <1>1, <2>1, <2>2, <2>3, <2>5 DEF Progress
<1>5. QED
    BY <1>1, <1>2, <1>3, <1>4 DEF KeysInv, KeysReachTheirProperties, Over, NothingRefusedYet

\* The answer to one property is an item with its instance ids, or there is none.
LEMMA ResultIs ==
    ASSUME Progress, NEW CONSTANT c, NEW CONSTANT n, Result(c, n).code = 0
    PROVE  Result(c, n).value = Packet(c, n).iid
<1> DEFINE found == {i \in DOMAIN answers : answers[i].iid = Packet(c, n).iid}
           first == CHOOSE i \in found : \A j \in found : i <= j
<1>1. CASE found = {}
    BY <1>1 DEF Result, Missing, MISSING
<1>2. CASE found # {}
    <2>1. found \subseteq Nat
        BY DEF Progress, IsSequence
    <2>2. \E i \in found : \A j \in found : i <= j
        BY <1>2, <2>1, SmallestOf
    <2>3. first \in found
        BY <2>2
    <2>4. Result(c, n) = [code |-> answers[first].code, value |-> answers[first].value]
        BY <1>2 DEF Result
    <2>5. QED
        BY <2>3, <2>4 DEF Progress
<1>3. QED
    BY <1>1, <1>2

LEMMA ReadEndsKeeps == ASSUME KeysInv, ReadEnds PROVE KeysInv'
<1> PICK c : c = command
    OBVIOUS
<1> PICK R : R = [n \in DOMAIN c.props |-> Result(c, n)]
    OBVIOUS
<1>1. /\ c # None /\ c.op = "read" /\ command' = None
      /\ ended' = [kind |-> "results", table |-> c.table, of |-> {[key |-> c.props[n], result |-> R[n]] : n \in DOMAIN c.props}]
      /\ reported' = reported \cup {<<"refused", c.props[n], c.table[c.props[n]].source>> : n \in {m \in DOMAIN c.props : R[m].code # 0}}
      /\ UNCHANGED <<services, overrides, sent, answers>>
    BY DEF ReadEnds
<1>2. Progress /\ CallFits(c) /\ NothingRefusedYet /\ overrides \in Seq(Rows)
    BY <1>1 DEF KeysInv
<1>3. ASSUME NEW n \in DOMAIN c.props
      PROVE  /\ R[n].code = 0 => R[n].value = InstanceIds(c.table[c.props[n]])
             /\ R[n].code # 0 <=> <<"refused", c.props[n], c.table[c.props[n]].source>> \in reported'
    <2>1. R[n].code = 0 => R[n].value = InstanceIds(c.table[c.props[n]])
        BY <1>1, <1>2, ResultIs DEF Packet, CallFits
    <2>2. ASSUME NEW m \in DOMAIN c.props, c.props[m] = c.props[n]
          PROVE  R[m] = R[n]
        <3>1. Packet(c, m) = Packet(c, n)
            BY <2>2 DEF Packet
        <3>2. Result(c, m) = Result(c, n)
            BY <3>1 DEF Result
        <3>3. QED
            BY <3>2
    <2>3. <<"refused", c.props[n], c.table[c.props[n]].source>> \notin reported
        BY <1>2 DEF NothingRefusedYet
    <2>4. QED
        BY <1>1, <2>1, <2>2, <2>3
<1>4. \A r \in ended'.of :
         /\ r.result.code = 0 => r.result.value = InstanceIds(ended'.table[r.key])
         /\ r.result.code # 0 <=> <<"refused", r.key, ended'.table[r.key].source>> \in reported'
    <2> SUFFICES ASSUME NEW n \in DOMAIN c.props, NEW r, r = [key |-> c.props[n], result |-> R[n]]
                 PROVE  /\ r.result.code = 0 => r.result.value = InstanceIds(ended'.table[r.key])
                        /\ r.result.code # 0 <=> <<"refused", r.key, ended'.table[r.key].source>> \in reported'
        BY <1>1
    <2>1. r.key = c.props[n] /\ r.result = R[n] /\ ended'.table = c.table
        BY <1>1
    <2>2. QED
        BY <1>3, <2>1
<1>5. ended'.kind \notin {"get", "set"}
    BY <1>1
<1>6. QED
    BY <1>1, <1>2, <1>4, <1>5 DEF KeysInv, KeysReachTheirProperties, Over, InstanceIds

LEMMA CommandEndsKeeps == ASSUME KeysInv, CommandEnds PROVE KeysInv'
<1> PICK c : c = command
    OBVIOUS
<1>1. /\ c # None /\ c.op # "read" /\ Len(sent) = 1 /\ command' = None
      /\ \/ ended' = [kind |-> "error"]
         \/ ended' = [kind |-> c.op, rows |-> c.rows, key |-> c.props[1], iid |-> sent[1].iid, written |-> sent[1].value]
      /\ UNCHANGED <<services, overrides, sent, answers>>
    BY DEF CommandEnds
<1>2. Progress /\ CallFits(c) /\ overrides \in Seq(Rows)
    BY <1>1 DEF KeysInv
<1>3. sent[1] = Packet(c, 1)
    BY <1>1, <1>2 DEF Progress, IsSequence
<1>4. CASE ended' = [kind |-> "error"]
    BY <1>1, <1>2, <1>4 DEF KeysInv, KeysReachTheirProperties, Over
<1>5. CASE ended' = [kind |-> c.op, rows |-> c.rows, key |-> c.props[1], iid |-> sent[1].iid, written |-> sent[1].value]
    <2>1. /\ ended'.kind = c.op /\ ended'.rows = c.rows /\ ended'.key = c.props[1]
          /\ ended'.iid = Packet(c, 1).iid /\ ended'.written = c.value
        BY <1>3, <1>5 DEF Packet
    <2>2. c.op \in {"get", "set"} /\ c.props[1] # None =>
             Means(c.rows, c.props[1], Packet(c, 1).iid, c.op, c.value)
        <3> SUFFICES ASSUME c.op \in {"get", "set"}, c.props[1] # None
                     PROVE  Means(c.rows, c.props[1], Packet(c, 1).iid, c.op, c.value)
            OBVIOUS
        <3>1. ByKey(c) /\ Mapped(c) /\ c.rows \in Seq(Rows)
            BY <1>2 DEF CallFits
        <3>2. Packet(c, 1).iid = InstanceIds(c.table[c.props[1]])
            BY <3>1 DEF ByKey, Packet
        <3>3. c.table[c.props[1]] \in Entries(c.rows, c.props[1]) /\ Allowed(c.op, c.table[c.props[1]], c.value)
            BY <3>1 DEF ByKey, Mapped
        <3>4. QED
            BY <3>1, <3>2, <3>3, EntryMeans
    <2>3. \A rs, k, iid, op, v : Means(rs, k, iid, op, v)' = Means(rs, k, iid, op, v)
        BY <1>1 DEF Means, KeyOf, SiidsWithSpec
    <2>4. c.op # "results"
        BY <1>2 DEF CallFits
    <2>5. KeysReachTheirProperties'
        BY <2>1, <2>2, <2>3, <2>4 DEF KeysReachTheirProperties, Over
    <2>6. QED
        BY <1>1, <1>2, <2>5 DEF KeysInv
<1>6. QED
    BY <1>1, <1>4, <1>5

LEMMA KeysStep == KeysInv /\ [CommandsNext]_commandVars => KeysInv'
<1>1. SUFFICES ASSUME KeysInv, [CommandsNext]_commandVars
               PROVE  KeysInv'
    OBVIOUS
<1>2. ASSUME NEW r \in Rows, CreateOverride(r) PROVE KeysInv'
    BY <1>1, <1>2, CreateKeeps
<1>3. ASSUME NEW i \in 1..MaxRows, DeleteOverride(i) PROVE KeysInv'
    BY <1>1, <1>3, DeleteKeeps
<1>4. CASE MappingThrows
    BY <1>1, <1>4, CallFails DEF MappingThrows
<1>5. ASSUME NEW keys \in BulkReads, GetProperties(keys) PROVE KeysInv'
    BY <1>1, <1>5, GetPropertiesKeeps
<1>6. ASSUME NEW op \in {"get", "set", "action"}, NEW k \in Asked, NEW v \in Written, Execute(op, k, v) PROVE KeysInv'
    BY <1>1, <1>6, ExecuteKeeps
<1>7. ASSUME NEW op \in {"get", "set", "action"}, NEW s, NEW i, ExecuteRaw(op, s, i) PROVE KeysInv'
    BY <1>1, <1>7, ExecuteRawKeeps
<1>8. ASSUME NEW code \in {0, 1, None}, PacketAnswered(code) PROVE KeysInv'
    BY <1>1, <1>8, AnsweredKeeps
<1>9. ASSUME NEW refused \in BOOLEAN, PacketUnanswered(refused) PROVE KeysInv'
    BY <1>1, <1>9, CallFails DEF PacketUnanswered
<1>10. CASE ReadEnds
    BY <1>1, <1>10, ReadEndsKeeps
<1>11. CASE CommandEnds
    BY <1>1, <1>11, CommandEndsKeeps
<1>12. CASE UNCHANGED commandVars
    <2>1. UNCHANGED <<services, overrides, command, sent, answers, ended, reported>>
        BY <1>12 DEF commandVars
    <2>2. CASE command = None
        <3>1. \A rs, k, iid, op, v : Means(rs, k, iid, op, v)' = Means(rs, k, iid, op, v)
            BY <2>1 DEF Means, KeyOf, SiidsWithSpec
        <3>2. ended' = ended /\ services' = services /\ reported' = reported
            BY <2>1
        <3>3. KeysReachTheirProperties'
            BY <1>1, <3>1, <3>2 DEF KeysInv, KeysReachTheirProperties, Over, InstanceIds
        <3>4. QED
            BY <1>1, <2>1, <2>2, <3>3 DEF KeysInv
    <2>3. CASE command # None
        <3>1. Cleared
            BY <2>1, <2>3 DEF Cleared
        <3>2. overrides' \in Seq(Rows)
            BY <1>1, <2>1 DEF KeysInv
        <3>3. QED
            BY <1>1, <2>1, <3>1, <3>2, RowsChange
    <2>4. QED
        BY <2>2, <2>3
<1>13. QED
    BY <1>1, <1>2, <1>3, <1>4, <1>5, <1>6, <1>7, <1>8, <1>9, <1>10, <1>11, <1>12 DEF CommandsNext

\* A key reaches its property, for any specifications, rows, keys and values
\* (DeviceCommandService.ts): a command is carried out where the youngest row for its key
\* says, as that row allows, and the results of a bulk read are those of their keys.
THEOREM KeysReach == CommandsSpec => []KeysReachTheirProperties
<1>1. KeysInv => KeysReachTheirProperties
    BY DEF KeysInv
<1>2. QED
    BY KeysStart, KeysStep, <1>1, PTL DEF CommandsSpec

-----------------------------------------------------------------------------
(* The clients of external APIs. *)
\* The clients that are built, with their one translation each, and the breakers kept.
BreakerSettings == {"closed", "open", "half-open"}
ClientsInv ==
    /\ clients \subseteq Upstreams
    /\ translations \in [Upstreams -> {0, 1}] /\ \A k \in clients : translations[k] = 1
    /\ breakerStates \in [Upstreams -> {None, "client"}]
    /\ breaker \in [Upstreams -> [Roles -> BreakerSettings]]
    /\ \A k \in Upstreams :
          /\ k \in clients /\ Config[k].breaker => breakerStates[k] = "client"
          /\ k \notin clients => breakerStates[k] = None
          /\ breakerStates[k] = None => breaker[k]["client"] = "closed"

\* A request under way: what it may still attempt in this pass, and what it has logged.
RawFailures ==
    [kind : {"status", "network", "timeout", "canceled", "circuit", "credential"}, status : Statuses \cup {None}, origin : {None}]
RequestTypes ==
    [key : clients, at : {"credentials", "adapter", "response"}, left : Nat, hits : Nat,
     retried : BOOLEAN, aborted : BOOLEAN, failure : RawFailures \cup {None}]
Budget ==
    /\ request.at # "response" => request.left > 0 /\ request.hits + request.left = 1 + Config[request.key].retries
    /\ request.at = "response" => request.hits <= 1 + Config[request.key].retries /\ request.failure \in RawFailures
LoggedSoFar ==
    IF request.retried THEN lines = <<lines[1]>> /\ lines[1].status = 401 /\ lines[1].origin = None
    ELSE lines = <<>>

HttpInv ==
    /\ ClientsInv
    /\ request # None => outcome = None /\ request \in RequestTypes /\ Budget /\ LoggedSoFar
    /\ FailureNamesItsCause

-----------------------------------------------------------------------------
LEMMA HttpStart == HttpInit => HttpInv
BY HttpAssumption DEF HttpInit, HttpInv, ClientsInv, BreakerSettings, FailureNamesItsCause, Failed, Roles

LEMMA GetKeeps == ASSUME HttpInv, NEW k \in Upstreams \cup {Unknown}, Get(k) PROVE HttpInv'
<1>1. request = None /\ UNCHANGED <<breaker, request, lines, report>>
    BY DEF Get
<1>2. translations' \in [Upstreams -> {0, 1}] /\ \A u \in Upstreams : translations[u] = 1 \/ u = k => translations'[u] = 1
    <2>1. translations \in [Upstreams -> {0, 1}]
        BY DEF HttpInv, ClientsInv
    <2>2. CASE k \in Upstreams /\ translations[k] = 0
        <3>1. translations' = [translations EXCEPT ![k] = 1]
            BY <2>2 DEF Get
        <3>2. QED
            BY <2>1, <2>2, <3>1
    <2>3. CASE ~ (k \in Upstreams /\ translations[k] = 0)
        <3>1. translations' = translations
            BY <2>3 DEF Get
        <3>2. QED
            BY <2>1, <2>3, <3>1
    <2>4. QED
        BY <2>2, <2>3
<1>3. CASE k \notin Upstreams
    <2>1. outcome' = [key |-> k, error |-> Raw("not configured", None)] /\ UNCHANGED <<clients, breakerStates>>
        BY <1>3 DEF Get
    <2>2. ClientsInv'
        BY <1>1, <1>2, <2>1 DEF HttpInv, ClientsInv
    <2>3. ~ Failed'
        BY <1>3, <2>1 DEF Failed
    <2>4. QED
        BY <1>1, <2>2, <2>3 DEF HttpInv, FailureNamesItsCause
<1>4. CASE k \in Upstreams
    <2>1. /\ clients' = clients \cup {k} /\ outcome' = None
          /\ breakerStates' = IF k \in clients THEN breakerStates ELSE [breakerStates EXCEPT ![k] = Recorded(k)]
        BY <1>4 DEF Get
    <2>2. breakerStates' \in [Upstreams -> {None, "client"}]
        BY <2>1 DEF HttpInv, ClientsInv, Recorded
    <2>3. \A u \in Upstreams :
             /\ u \in clients' /\ Config[u].breaker => breakerStates'[u] = "client"
             /\ u \notin clients' => breakerStates'[u] = None
             /\ breakerStates'[u] = None => breaker[u]["client"] = "closed"
        BY <1>4, <2>1 DEF HttpInv, ClientsInv, Recorded
    <2>4. ClientsInv'
        BY <1>1, <1>2, <1>4, <2>1, <2>2, <2>3 DEF HttpInv, ClientsInv
    <2>5. QED
        BY <1>1, <2>1, <2>4 DEF HttpInv, FailureNamesItsCause, Failed
<1>5. QED
    BY <1>3, <1>4

\* A pass begins with all its attempts.
LEMMA PassFits ==
    ASSUME NEW CONSTANT k \in clients, clients \subseteq Upstreams, NEW CONSTANT pass \in {1, 2}, NEW CONSTANT aborted \in BOOLEAN,
           NEW CONSTANT c, c = Pass(k, pass, aborted)
    PROVE  /\ c \in RequestTypes /\ c.key = k /\ (c.retried <=> pass = 2)
           /\ c.at # "response"
           /\ c.left > 0 /\ c.hits = 0 /\ c.hits + c.left = 1 + Config[k].retries
<1>1. Config[k].retries \in Nat
    BY HttpAssumption
<1>2. Attempts(k, Wrap(pass)) = 1 + Config[k].retries
    BY DEF Attempts, Wrap
<1>3. Attempts(k, Wrap(pass)) \in Nat /\ Attempts(k, Wrap(pass)) > 0
    BY <1>1, <1>2
<1>4. /\ c.key = k /\ c.left = Attempts(k, Wrap(pass)) /\ c.hits = 0
      /\ c.at \in {"credentials", "adapter"}
    BY DEF Pass
<1>5. c.retried <=> pass = 2
    BY DEF Pass
<1>6. c \in RequestTypes
    BY <1>3 DEF Pass, RequestTypes
<1>7. QED
    BY <1>1, <1>2, <1>3, <1>4, <1>5, <1>6

\* What a request under way knows of the clients does not change in the meantime.
LEMMA RequestUnderWay ==
    ASSUME HttpInv, NEW CONSTANT c, c = request', c # None, c \in RequestTypes,
           c.at # "response" => c.left > 0 /\ c.hits + c.left = 1 + Config[c.key].retries,
           c.at = "response" => c.hits <= 1 + Config[c.key].retries /\ c.failure \in RawFailures,
           outcome' = None, LoggedSoFar', UNCHANGED <<clients, translations, breakerStates, breaker, report>>
    PROVE  HttpInv'
<1>1. ClientsInv'
    BY DEF HttpInv, ClientsInv
<1>2. request' \in RequestTypes' /\ Budget'
    BY DEF RequestTypes, Budget
<1>3. c.hits <= 1 + Config[c.key].retries
    <2>1. c.key \in Upstreams /\ c.hits \in Nat /\ c.left \in Nat
        BY DEF HttpInv, ClientsInv, RequestTypes
    <2>2. Config[c.key].retries \in Nat
        BY <2>1, HttpAssumption
    <2>3. QED
        BY <2>1, <2>2
<1>4. FailureNamesItsCause'
    BY <1>3 DEF HttpInv, FailureNamesItsCause, Failed
<1>5. QED
    BY <1>1, <1>2, <1>4 DEF HttpInv

LEMMA RequestKeeps == ASSUME HttpInv, NEW k \in Upstreams \cup {Unknown}, Request(k) PROVE HttpInv'
<1> PICK no \in BOOLEAN : ~ no
    OBVIOUS
<1> PICK c : c = Pass(k, 1, no)
    OBVIOUS
<1>0. Pass(k, 1, no) = Pass(k, 1, FALSE)
    BY DEF Pass, Attempts, Wrap
<1>1. /\ k \in clients /\ request' = c /\ outcome' = None /\ lines' = <<>>
      /\ UNCHANGED <<clients, translations, breakerStates, breaker, report>>
    BY <1>0 DEF Request
<1>2. clients \subseteq Upstreams
    BY DEF HttpInv, ClientsInv
<1>3. /\ c \in RequestTypes /\ c.key = k /\ ~ c.retried /\ c.at # "response"
      /\ c.left > 0 /\ c.hits = 0 /\ c.hits + c.left = 1 + Config[k].retries
    BY <1>1, <1>2, PassFits
<1>4. LoggedSoFar'
    BY <1>1, <1>3 DEF LoggedSoFar
<1>5. CASE c # None
    BY <1>1, <1>3, <1>4, <1>5, RequestUnderWay
<1>6. CASE c = None
    BY <1>1, <1>6 DEF HttpInv, ClientsInv, FailureNamesItsCause, Failed
<1>7. QED
    BY <1>5, <1>6

\* A step of the request within its pass.
LEMMA Within ==
    ASSUME HttpInv, request # None, NEW CONSTANT c, c = request', c \in RequestTypes,
           c.key = request.key, c.retried = request.retried,
           c.at # "response" => c.left > 0 /\ c.hits + c.left = 1 + Config[c.key].retries,
           c.at = "response" => c.hits <= 1 + Config[c.key].retries /\ c.failure \in RawFailures,
           UNCHANGED <<clients, translations, breakerStates, breaker, outcome, lines, report>>
    PROVE  HttpInv'
<1>1. outcome' = None /\ LoggedSoFar'
    BY DEF HttpInv, LoggedSoFar
<1>2. CASE c # None
    BY <1>1, <1>2, RequestUnderWay
<1>3. CASE c = None
    <2>1. request' = None /\ outcome' = None /\ UNCHANGED <<clients, translations, breakerStates, breaker, lines, report>>
        BY <1>1, <1>3
    <2>2. QED
        BY <2>1 DEF HttpInv, ClientsInv, FailureNamesItsCause, Failed
<1>4. QED
    BY <1>2, <1>3

LEMMA DisconnectKeeps == ASSUME HttpInv, Disconnect PROVE HttpInv'
<1> PICK c : c = [request EXCEPT !.aborted = TRUE]
    OBVIOUS
<1>1. request # None /\ request' = c /\ UNCHANGED <<clients, translations, breakerStates, breaker, outcome, lines, report>>
    BY DEF Disconnect
<1>2. request \in RequestTypes /\ Budget
    BY <1>1 DEF HttpInv
<1>3. /\ c \in RequestTypes
      /\ c.key = request.key /\ c.at = request.at /\ c.left = request.left /\ c.hits = request.hits
      /\ c.retried = request.retried /\ c.failure = request.failure
    BY <1>2 DEF RequestTypes
<1>4. QED
    BY <1>1, <1>2, <1>3, Within DEF Budget

\* What Goes leaves alone.
LEMMA GoesOn ==
    ASSUME HttpInv, request # None, NEW CONSTANT at \in {"adapter", "response"}, NEW CONSTANT left \in Nat, NEW CONSTANT hits \in Nat,
           NEW CONSTANT e \in RawFailures \cup {None}, NEW CONSTANT c, c = Goes(at, left, hits, e)
    PROVE  /\ c \in RequestTypes /\ c.key = request.key /\ c.retried = request.retried
           /\ c.at = at /\ c.left = left /\ c.hits = hits /\ c.failure = e
<1>1. request \in RequestTypes
    BY DEF HttpInv
<1>2. /\ c.key = request.key /\ c.retried = request.retried /\ c.aborted = request.aborted
      /\ c.at = at /\ c.left = left /\ c.hits = hits /\ c.failure = e
    BY DEF Goes
<1>3. c \in RequestTypes
    BY <1>1 DEF Goes, RequestTypes
<1>4. QED
    BY <1>2, <1>3

LEMMA RawIsRaw ==
    /\ \A e \in TokenFailures \cup AttemptFailures : e \in RawFailures
    /\ Raw("credential", None) \in RawFailures /\ Raw("circuit", None) \in RawFailures
BY DEF TokenFailures, AttemptFailures, Raw, RawFailures

LEMMA RespondsKeeps ==
    ASSUME HttpInv, request # None, request.at # "response", NEW CONSTANT e \in RawFailures,
           request' = Responds(e),
           UNCHANGED <<clients, translations, breakerStates, breaker, outcome, lines, report>>
    PROVE  HttpInv'
<1> PICK c : c = Responds(e)
    OBVIOUS
<1>1. /\ request.left \in Nat /\ request.hits \in Nat /\ request.left > 0
      /\ request.hits + request.left = 1 + Config[request.key].retries
    BY DEF HttpInv, RequestTypes, Budget
<1>2. /\ c \in RequestTypes /\ c.key = request.key /\ c.retried = request.retried
      /\ c.at = "response" /\ c.hits = request.hits /\ c.failure = e
    BY <1>1, GoesOn DEF Responds
<1>3. c.hits <= 1 + Config[c.key].retries
    BY <1>1, <1>2
<1>4. QED
    BY <1>2, <1>3, Within

LEMMA CredentialsKeeps == ASSUME HttpInv, Credentials PROVE HttpInv'
<1>1. request # None /\ request.at = "credentials" /\ UNCHANGED <<clients, translations, breakerStates, breaker, outcome, lines, report>>
    BY DEF Credentials
<1>2. CASE request' = Goes("adapter", request.left, request.hits, None)
    <2> PICK c : c = Goes("adapter", request.left, request.hits, None)
        OBVIOUS
    <2>1. /\ request.left \in Nat /\ request.hits \in Nat /\ request.left > 0
          /\ request.hits + request.left = 1 + Config[request.key].retries
        BY <1>1 DEF HttpInv, RequestTypes, Budget
    <2>2. /\ c \in RequestTypes /\ c.key = request.key /\ c.retried = request.retried
          /\ c.at = "adapter" /\ c.hits = request.hits /\ c.left = request.left
        BY <1>1, <2>1, GoesOn
    <2>3. QED
        BY <1>1, <1>2, <2>1, <2>2, Within
<1>3. ASSUME NEW e \in RawFailures, request' = Responds(e) PROVE HttpInv'
    BY <1>1, <1>3, RespondsKeeps
<1>4. QED
    BY <1>2, <1>3, RawIsRaw DEF Credentials

LEMMA AttemptFailsKeeps == ASSUME HttpInv, NEW e \in AttemptFailures, AttemptFails(e) PROVE HttpInv'
<1>1. request # None /\ request.at = "adapter" /\ UNCHANGED <<clients, translations, breakerStates, breaker, outcome, lines, report>>
    BY DEF AttemptFails
<1>2. /\ request.left \in Nat /\ request.hits \in Nat /\ request.left > 0
      /\ request.hits + request.left = 1 + Config[request.key].retries
    BY <1>1 DEF HttpInv, RequestTypes, Budget
<1>3. e \in RawFailures
    BY RawIsRaw
<1>4. CASE request.left > 1 /\ request' = Goes("adapter", request.left - 1, request.hits + 1, None)
    <2> PICK c : c = Goes("adapter", request.left - 1, request.hits + 1, None)
        OBVIOUS
    <2>1. request.left - 1 \in Nat /\ request.hits + 1 \in Nat
        BY <1>2
    <2>2. /\ c \in RequestTypes /\ c.key = request.key /\ c.retried = request.retried
          /\ c.at = "adapter" /\ c.hits = request.hits + 1 /\ c.left = request.left - 1
        BY <1>1, <2>1, GoesOn
    <2>3. c.left > 0 /\ c.hits + c.left = 1 + Config[c.key].retries
        BY <1>2, <1>4, <2>2
    <2>4. QED
        BY <1>1, <1>4, <2>2, <2>3, Within
<1>5. ASSUME NEW n \in {0, 1}, request' = Goes("response", request.left, request.hits + n, e)
      PROVE  HttpInv'
    <2> PICK c : c = Goes("response", request.left, request.hits + n, e)
        OBVIOUS
    <2>1. request.hits + n \in Nat
        BY <1>2
    <2>2. /\ c \in RequestTypes /\ c.key = request.key /\ c.retried = request.retried
          /\ c.at = "response" /\ c.hits = request.hits + n /\ c.failure = e
        BY <1>1, <1>2, <1>3, <2>1, GoesOn
    <2>3. c.hits <= 1 + Config[c.key].retries
        BY <1>2, <2>2
    <2>4. QED
        BY <1>1, <1>3, <1>5, <2>2, <2>3, Within
<1>6. QED
    BY <1>4, <1>5 DEF AttemptFails

\* The failure is logged, and replayed or translated.
LEMMA RespondKeeps == ASSUME HttpInv, Respond PROVE HttpInv'
<1> PICK k : k = request.key
    OBVIOUS
<1> PICK e : e = request.failure
    OBVIOUS
<1>1. /\ request # None /\ request.at = "response" /\ lines' = Append(lines, e)
      /\ UNCHANGED <<clients, translations, breakerStates, breaker, report>>
    BY DEF Respond
<1>2. request \in RequestTypes /\ Budget /\ LoggedSoFar /\ ClientsInv /\ outcome = None
    BY <1>1 DEF HttpInv
<1>3. k \in clients /\ e \in RawFailures /\ e.origin = None /\ translations[k] = 1 /\ clients \subseteq Upstreams
    BY <1>1, <1>2 DEF RequestTypes, Budget, ClientsInv, RawFailures
<1>4. IF request.retried
      THEN /\ Len(lines') = 2 /\ DOMAIN lines' = {1, 2} /\ lines'[1] = lines[1] /\ lines'[2] = e
           /\ lines[1].status = 401 /\ lines[1].origin = None
      ELSE lines' = <<e>>
    <2>1. CASE request.retried
        <3> PICK l : l = lines[1]
            OBVIOUS
        <3>1. lines = <<l>> /\ l.status = 401 /\ l.origin = None
            BY <1>2, <2>1 DEF LoggedSoFar
        <3>2. LET both == Append(<<l>>, e) IN Len(both) = 2 /\ DOMAIN both = {1, 2} /\ both[1] = l /\ both[2] = e
            <4> PICK S : S = {l, e}
                OBVIOUS
            <4>1. <<l>> \in Seq(S) /\ Len(<<l>>) = 1 /\ e \in S
                OBVIOUS
            <4>2. /\ Append(<<l>>, e) \in Seq(S) /\ Len(Append(<<l>>, e)) = 2
                  /\ Append(<<l>>, e)[1] = l /\ Append(<<l>>, e)[2] = e
                BY <4>1, AppendProperties
            <4>3. DOMAIN Append(<<l>>, e) = 1..2
                BY <4>2, LenProperties
            <4>4. QED
                BY <4>2, <4>3
        <3>3. QED
            BY <1>1, <2>1, <3>1, <3>2
    <2>2. CASE ~ request.retried
        <3>1. lines = <<>>
            BY <1>2, <2>2 DEF LoggedSoFar
        <3>2. QED
            BY <1>1, <2>2, <3>1
    <2>3. QED
        BY <2>1, <2>2
<1>5. CASE MayReplay
    <2> PICK aborted \in BOOLEAN : aborted = request.aborted
        BY <1>2 DEF RequestTypes
    <2> PICK c : c = Pass(k, 2, aborted)
        OBVIOUS
    <2>1. request' = c /\ outcome' = None
        BY <1>2, <1>5 DEF Respond
    <2>2. lines' = <<e>> /\ e.status = 401
        BY <1>4, <1>5 DEF MayReplay
    <2>3. /\ c \in RequestTypes /\ c.key = k /\ c.retried /\ c.at # "response"
          /\ c.left > 0 /\ c.hits = 0 /\ c.hits + c.left = 1 + Config[k].retries
        BY <1>3, PassFits
    <2>4. LoggedSoFar'
        BY <1>3, <2>1, <2>2, <2>3 DEF LoggedSoFar
    <2>5. CASE c # None
        BY <1>1, <2>1, <2>3, <2>4, <2>5, RequestUnderWay
    <2>6. CASE c = None
        BY <1>1, <1>2, <2>1, <2>6 DEF HttpInv, ClientsInv, FailureNamesItsCause, Failed
    <2>7. QED
        BY <2>5, <2>6
<1>6. CASE ~ MayReplay
    <2>1. /\ outcome' = [key |-> k, error |-> Translated(e, translations[k] * Passes(request))]
          /\ request' = None
        BY <1>6 DEF Respond
    <2>2. outcome'.key = k /\ outcome'.error = Translated(e, Passes(request))
        BY <1>3, <2>1 DEF Passes
    <2>3. ClientsInv'
        BY <1>1, <1>2 DEF ClientsInv
    <2>4. CASE ~ request.retried
        <3>1. lines' = <<e>> /\ Len(lines') = 1 /\ lines'[1] = e /\ DOMAIN lines' = {1}
            BY <1>4, <2>4
        <3>2. outcome'.error = ToHttpException(e)
            BY <2>2, <2>4 DEF Passes, Translated
        <3>3. /\ outcome'.error.kind = "503" <=> e.kind = "circuit"
              /\ outcome'.error.kind = "504" <=> e.kind = "timeout"
              /\ outcome'.error.origin = e
            BY <3>2 DEF ToHttpException
        <3>4. ~ (Config[k].transport /\ e.status = 401)
            BY <1>6, <2>4 DEF MayReplay
        <3>5. LastLine' = e
            BY <3>1 DEF LastLine
        <3>6. FailureNamesItsCause'
            BY <1>1, <1>3, <2>1, <2>2, <3>1, <3>3, <3>4, <3>5 DEF HttpInv, FailureNamesItsCause, Failed
        <3>7. QED
            BY <2>1, <2>3, <3>6 DEF HttpInv
    <2>5. CASE request.retried
        <3>1. Len(lines') = 2 /\ DOMAIN lines' = {1, 2} /\ lines'[1] = lines[1] /\ lines'[2] = e
            BY <1>4, <2>5
        <3>2. lines[1].status = 401 /\ lines[1].origin = None
            BY <1>4, <2>5
        <3>3. outcome'.error = ToHttpException(ToHttpException(e))
            BY <2>2, <2>5 DEF Passes, Translated
        <3>4. ToHttpException(e).kind \in {"502", "503", "504"} /\ ToHttpException(e).origin = e
            BY DEF ToHttpException
        <3>5. outcome'.error.kind = "502" /\ outcome'.error.origin.origin = e
            BY <3>3, <3>4 DEF ToHttpException
        <3>6. LastLine' = e
            BY <3>1 DEF LastLine
        <3>7. FailureNamesItsCause'
            BY <1>1, <1>3, <2>1, <2>2, <3>1, <3>2, <3>5, <3>6 DEF HttpInv, FailureNamesItsCause, Failed
        <3>8. QED
            BY <2>1, <2>3, <3>7 DEF HttpInv
    <2>6. QED
        BY <2>4, <2>5
<1>7. QED
    BY <1>5, <1>6

\* What health says is what the breaker of the client's own traffic says.
LEMMA CheckKeeps == ASSUME HttpInv, Check PROVE HttpInv'
<1>1. UNCHANGED <<clients, translations, breakerStates, breaker, request, outcome, lines>>
    BY DEF Check
<1>2. ASSUME NEW k \in Upstreams
      PROVE  (breakerStates[k] # None /\ BreakerCheck(k) # "pass") <=> breaker[k]["client"] # "closed"
    <2>1. breakerStates[k] \in {None, "client"} /\ (breakerStates[k] = None => breaker[k]["client"] = "closed")
        BY DEF HttpInv, ClientsInv
    <2>2. breaker[k]["client"] \in BreakerSettings /\ "client" # None
        BY HttpAssumption DEF HttpInv, ClientsInv, Roles
    <2>3. QED
        BY <2>1, <2>2 DEF BreakerCheck, BreakerSettings
<1>3. report'.degraded = report'.open
    BY <1>2 DEF Check
<1>4. QED
    BY <1>1, <1>3 DEF HttpInv, ClientsInv, RequestTypes, Budget, LoggedSoFar, FailureNamesItsCause, Failed, LastLine

LEMMA BreakerMovesKeeps ==
    ASSUME HttpInv, NEW k \in Upstreams, NEW r \in Roles, NEW s \in BreakerSettings, BreakerMoves(k, r, s)
    PROVE  HttpInv'
<1>1. /\ Config[k].breaker /\ k \in clients /\ breaker' = [breaker EXCEPT ![k][r] = s]
      /\ UNCHANGED <<clients, translations, breakerStates, request, outcome, lines, report>>
    BY DEF BreakerMoves
<1>2. breakerStates[k] = "client" /\ "client" # None
    BY <1>1, HttpAssumption DEF HttpInv, ClientsInv, Roles
<1>3. breaker' \in [Upstreams -> [Roles -> BreakerSettings]] /\ \A u \in Upstreams \ {k} : breaker'[u] = breaker[u]
    BY <1>1 DEF HttpInv, ClientsInv
<1>4. ClientsInv'
    BY <1>1, <1>2, <1>3 DEF HttpInv, ClientsInv
<1>5. QED
    BY <1>1, <1>4 DEF HttpInv, RequestTypes, Budget, LoggedSoFar, FailureNamesItsCause, Failed, LastLine

LEMMA HttpStep == HttpInv /\ [HttpNext]_httpVars => HttpInv'
<1>1. SUFFICES ASSUME HttpInv, [HttpNext]_httpVars
               PROVE  HttpInv'
    OBVIOUS
<1>2. ASSUME NEW k \in Upstreams \cup {Unknown}, Get(k) \/ Request(k) PROVE HttpInv'
    BY <1>1, <1>2, GetKeeps, RequestKeeps
<1>3. CASE Disconnect
    BY <1>1, <1>3, DisconnectKeeps
<1>4. CASE Credentials
    BY <1>1, <1>4, CredentialsKeeps
<1>5. CASE AttemptRefused
    BY <1>1, <1>5, RespondsKeeps, RawIsRaw DEF AttemptRefused
<1>6. CASE AttemptSucceeds
    <2>1. outcome' = [key |-> request.key, error |-> None] /\ request' = None
          /\ UNCHANGED <<clients, translations, breakerStates, breaker, lines, report>>
        BY <1>6 DEF AttemptSucceeds
    <2>2. QED
        BY <1>1, <2>1 DEF HttpInv, ClientsInv, FailureNamesItsCause, Failed
<1>7. CASE Respond
    BY <1>1, <1>7, RespondKeeps
<1>8. CASE Check
    BY <1>1, <1>8, CheckKeeps
<1>9. ASSUME NEW e \in AttemptFailures, AttemptFails(e) PROVE HttpInv'
    BY <1>1, <1>9, AttemptFailsKeeps
<1>10. ASSUME NEW k \in Upstreams, NEW r \in Roles, NEW s \in {"closed", "open", "half-open"}, BreakerMoves(k, r, s)
       PROVE  HttpInv'
    BY <1>1, <1>10, BreakerMovesKeeps DEF BreakerSettings
<1>11. CASE UNCHANGED httpVars
    BY <1>1, <1>11 DEF httpVars, HttpInv, ClientsInv, RequestTypes, Budget, LoggedSoFar, FailureNamesItsCause, Failed, LastLine
<1>12. QED
    BY <1>1, <1>2, <1>3, <1>4, <1>5, <1>6, <1>7, <1>8, <1>9, <1>10, <1>11 DEF HttpNext

\* Failures are named after their cause - once where nothing was replayed, twice and so as
\* a 502 where the replay failed too -, tried no more often than configured and reported by
\* the breaker they belong to, for any upstreams, retries and statuses
\* (HttpProviderFactory.ts, attachErrorTranslation.ts).
THEOREM FailuresNamed == HttpSpec => []FailureNamesItsCause
<1>1. HttpInv => FailureNamesItsCause
    BY DEF HttpInv
<1>2. QED
    BY HttpStart, HttpStep, <1>1, PTL DEF HttpSpec

-----------------------------------------------------------------------------
(* The telemetry. *)
Names == {"poll", "device", "call", "process", "publish"}
Of == PolledDevices \cup {None}
Works == (Names \cup {"local"}) \X Of \X Settled

\* What a runs inside of: suppressed exactly in a tick that is sampled out, and otherwise in
\* the one trace of its run.
Contexts == [name : Names, of : Of, trace : Activities \cup {None, "sender"}, suppressed : BOOLEAN]
Dark(a) == a = "tick" /\ traceAge > 0
ContextsOf(a) == {c \in Contexts : (c.suppressed <=> Dark(a)) /\ (~ c.suppressed => c.trace = TraceOf(a))}

SdkInv ==
    /\ sdk \in {"none", "running", "flushing", "stopped"} /\ stops \in {0, 1}
    /\ sdk \in {"none", "running"} => stops = 0
CountInv ==
    /\ instruments \in [Providers -> Providers \cup {None}] /\ \A p \in Providers : instruments[p] \in {None, p}
    /\ unseen = {}
StackInv ==
    /\ traceAge \in Nat /\ sender \in {None, "sender"} /\ due \subseteq PolledDevices
    /\ DOMAIN ctx = Activities /\ ctx = [a \in Activities |-> ctx[a]]
    /\ \A a \in Activities : ctx[a] \in Seq(ContextsOf(a))
\* A tick is inside of its job, and only it is at the bottom.
PollLast(s) == \A i \in 1..Len(s) : s[i].name = "poll" <=> i = Len(s)
TickInv ==
    /\ ticking \in BOOLEAN /\ (ticking <=> ctx["tick"] # <<>>)
    /\ PollLast(ctx["tick"])
SpanOf(w, trace) == <<w[1], w[2], w[3], trace>>
SpansOf(a) == IF Dark(a) THEN {} ELSE {SpanOf(w, TraceOf(a)) : w \in ToldOf(a)}
SpanInv ==
    /\ spans = [a \in Activities |-> spans[a]] /\ work \in [Activities -> SUBSET Works]
    /\ sdk = "none" => \A a \in Activities : spans[a] = {}
    /\ sdk = "running" => \A a \in Activities : spans[a] = SpansOf(a)

TelemetryInv == SdkInv /\ CountInv /\ StackInv /\ TickInv /\ SpanInv

-----------------------------------------------------------------------------
\* A span opened below another one is recorded, and traced, as that one is.
LEMMA PlainContext ==
    ASSUME NEW CONSTANT a \in Activities, NEW CONSTANT name \in Names, NEW CONSTANT of \in Of, sender \in {None, "sender"},
           NEW CONSTANT c \in ContextsOf(a), NEW CONSTANT x, x = SpanContext(c, Plain(name, of), a)
    PROVE  x \in ContextsOf(a) /\ x.name = name /\ x.of = of
<1> PICK dark \in BOOLEAN : dark <=> c.suppressed
    OBVIOUS
<1>1. c \in Contexts /\ (dark <=> Dark(a)) /\ (~ dark => c.trace = TraceOf(a))
    BY DEF ContextsOf
<1>2. x.name = name /\ x.of = of /\ (x.suppressed <=> dark)
    BY DEF SpanContext, Plain, Options
<1>3. CASE dark
    <2>1. x = [name |-> name, of |-> of, suppressed |-> TRUE, trace |-> None]
        BY <1>3 DEF SpanContext, Plain, Options
    <2>2. QED
        BY <1>1, <1>3, <2>1 DEF ContextsOf, Contexts
<1>4. CASE ~ dark
    <2>1. TraceOf(a) \in Activities \cup {None, "sender"} /\ (TraceOf(a) = None => a = None)
        BY DEF TraceOf
    <2>2. x = [name |-> name, of |-> of, suppressed |-> FALSE, trace |-> IF c.trace = None THEN a ELSE c.trace]
        BY <1>1, <1>4 DEF SpanContext, Plain, Options
    <2>3. x.trace = TraceOf(a)
        BY <1>1, <1>4, <2>1, <2>2
    <2>4. QED
        BY <1>1, <1>4, <2>1, <2>2, <2>3 DEF ContextsOf, Contexts
<1>5. QED
    BY <1>2, <1>3, <1>4

\* A stack grows at its head, and shrinks there.
LEMMA Grown ==
    ASSUME NEW CONSTANT S, NEW CONSTANT s \in Seq(S), NEW CONSTANT x \in S
    PROVE  /\ <<x>> \o s \in Seq(S) /\ Len(<<x>> \o s) = 1 + Len(s) /\ <<x>> \o s # <<>>
           /\ (<<x>> \o s)[1] = x /\ \A i \in 1..Len(s) : (<<x>> \o s)[i + 1] = s[i]
<1>1. <<x>> \in Seq(S) /\ Len(<<x>>) = 1 /\ <<x>>[1] = x
    OBVIOUS
<1>2. <<x>> \o s \in Seq(S) /\ Len(<<x>> \o s) = 1 + Len(s)
    BY <1>1, ConcatProperties
<1>3. Len(s) \in Nat
    BY LenProperties
<1>4. (<<x>> \o s)[1] = x
    BY <1>1, <1>3, ConcatProperties
<1>5. ASSUME NEW i \in 1..Len(s)
      PROVE  (<<x>> \o s)[i + 1] = s[i]
    <2>1. i + 1 \in 1..(1 + Len(s)) /\ i + 1 > 1 /\ (i + 1) - 1 = i
        BY <1>3
    <2>2. QED
        BY <1>1, <2>1, ConcatProperties
<1>6. <<x>> \o s # <<>>
    BY <1>2, <1>3
<1>7. QED
    BY <1>2, <1>4, <1>5, <1>6

LEMMA Shrunk ==
    ASSUME NEW CONSTANT S, NEW CONSTANT s \in Seq(S), s # <<>>
    PROVE  /\ Head(s) \in S /\ Head(s) = s[1] /\ Len(s) \in Nat \ {0}
           /\ Tail(s) \in Seq(S) /\ Len(Tail(s)) = Len(s) - 1
           /\ \A i \in 1..(Len(s) - 1) : Tail(s)[i] = s[i + 1]
<1>1. Len(s) \in Nat /\ Len(s) # 0
    BY LenProperties, EmptySeq
<1>2. Head(s) \in S /\ Head(s) = s[1] /\ Tail(s) \in Seq(S) /\ Len(Tail(s)) = Len(s) - 1
    BY HeadTailProperties, ElementOfSeq, <1>1
<1>3. \A i \in 1..(Len(s) - 1) : Tail(s)[i] = s[i + 1]
    BY <1>1, HeadTailProperties
<1>4. QED
    BY <1>1, <1>2, <1>3

LEMMA PollStaysLast ==
    ASSUME NEW CONSTANT S, NEW CONSTANT s \in Seq(S), s # <<>>, PollLast(s), NEW CONSTANT x \in S, x.name # "poll"
    PROVE  PollLast(<<x>> \o s)
<1> PICK t : t = <<x>> \o s
    OBVIOUS
<1>1. Len(t) = 1 + Len(s) /\ t[1] = x /\ (\A i \in 1..Len(s) : t[i + 1] = s[i]) /\ Len(s) \in Nat \ {0}
    BY Grown, Shrunk
<1>2. ASSUME NEW i \in 1..Len(t)
      PROVE  t[i].name = "poll" <=> i = Len(t)
    <2>1. CASE i = 1
        BY <1>1, <2>1
    <2>2. CASE i # 1
        <3>1. i - 1 \in 1..Len(s) /\ (i - 1) + 1 = i /\ (i - 1 = Len(s) <=> i = Len(t))
            BY <1>1, <2>2
        <3>2. t[i] = s[i - 1]
            BY <1>1, <3>1
        <3>3. s[i - 1].name = "poll" <=> i - 1 = Len(s)
            BY <3>1 DEF PollLast
        <3>4. QED
            BY <3>1, <3>2, <3>3
    <2>3. QED
        BY <2>1, <2>2
<1>3. QED
    BY <1>2 DEF PollLast

LEMMA PollIsLast ==
    ASSUME NEW CONSTANT S, NEW CONSTANT s \in Seq(S), s # <<>>, PollLast(s)
    PROVE  PollLast(Tail(s)) /\ (Head(s).name = "poll" <=> Tail(s) = <<>>)
<1> PICK t : t = Tail(s)
    OBVIOUS
<1>1. /\ Head(s) = s[1] /\ Len(s) \in Nat \ {0} /\ t \in Seq(S) /\ Len(t) = Len(s) - 1
      /\ \A i \in 1..(Len(s) - 1) : t[i] = s[i + 1]
    BY Shrunk
<1>2. ASSUME NEW i \in 1..Len(t)
      PROVE  t[i].name = "poll" <=> i = Len(t)
    <2>1. i + 1 \in 1..Len(s) /\ (i + 1 = Len(s) <=> i = Len(t)) /\ i \in 1..(Len(s) - 1)
        BY <1>1
    <2>2. s[i + 1].name = "poll" <=> i + 1 = Len(s)
        BY <2>1 DEF PollLast
    <2>3. QED
        BY <1>1, <2>1, <2>2
<1>3. s[1].name = "poll" <=> 1 = Len(s)
    <2>1. 1 \in 1..Len(s)
        BY <1>1
    <2>2. QED
        BY <2>1 DEF PollLast
<1>4. t = <<>> <=> Len(t) = 0
    BY <1>1, EmptySeq
<1>5. PollLast(t)
    BY <1>2 DEF PollLast
<1>6. Head(s).name = "poll" <=> t = <<>>
    <2>1. 1 = Len(s) <=> Len(t) = 0
        BY <1>1
    <2>2. QED
        BY <1>1, <1>3, <1>4, <2>1
<1>7. QED
    BY <1>5, <1>6

-----------------------------------------------------------------------------
\* The work that ended is one more piece to be told.
LEMMA ToldGrows ==
    ASSUME NEW CONSTANT a \in Activities, NEW CONSTANT w \in Works, w[1] # "local", work'[a] = work[a] \cup {w},
           work[a] \subseteq Works
    PROVE  ToldOf(a)' = ToldOf(a) \cup {w}
<1> DEFINE Piece(v) == <<v[1], v[2], v[3]>>
<1>1. \A v \in Works : Piece(v) = v
    BY DEF Works
<1>2. ToldOf(a) = {v \in work[a] : v[1] # "local"}
    BY <1>1 DEF ToldOf
<1>3. ToldOf(a)' = {v \in work'[a] : v[1] # "local"}
    <2>1. ToldOf(a)' = {Piece(v) : v \in {x \in work'[a] : x[1] # "local"}}
        BY DEF ToldOf
    <2>2. work'[a] \subseteq Works
        OBVIOUS
    <2> HIDE DEF Piece
    <2>3. QED
        BY <1>1, <2>1, <2>2
<1>4. QED
    BY <1>2, <1>3

\* The innermost span of a ends: it is exported where its trace is recorded, and then tells
\* what the work did.
LEMMA Settles ==
    ASSUME StackInv, SpanInv, NEW CONSTANT a \in Activities, NEW CONSTANT status \in Settled, ctx[a] # <<>>,
           EndOnSettle(a, status), UNCHANGED <<sdk, sender, traceAge>>, due' \subseteq PolledDevices
    PROVE  StackInv' /\ SpanInv' /\ ctx'[a] = Tail(ctx[a]) /\ \A b \in Activities \ {a} : ctx'[b] = ctx[b]
<1> PICK c : c = Head(ctx[a])
    OBVIOUS
<1> PICK w : w = <<c.name, c.of, status>>
    OBVIOUS
<1>1. c \in ContextsOf(a) /\ Tail(ctx[a]) \in Seq(ContextsOf(a))
    BY Shrunk DEF StackInv
<1>2. /\ ctx' = [ctx EXCEPT ![a] = Tail(@)] /\ work' = [work EXCEPT ![a] = @ \cup {w}]
      /\ spans' = IF ~ Recording(c) THEN spans ELSE [spans EXCEPT ![a] = @ \cup {SpanOf(w, c.trace)}]
    BY DEF EndOnSettle, SpanOf
<1>3. ctx'[a] = Tail(ctx[a]) /\ (\A b \in Activities \ {a} : ctx'[b] = ctx[b]) /\ DOMAIN ctx' = Activities
    BY <1>2 DEF StackInv
<1>4. \A b \in Activities : ContextsOf(b)' = ContextsOf(b) /\ (Dark(b)' <=> Dark(b)) /\ TraceOf(b)' = TraceOf(b)
    BY DEF ContextsOf, Dark, TraceOf
<1>5. StackInv'
    BY <1>1, <1>2, <1>3, <1>4 DEF StackInv
<1>6. c.name \in Names /\ c.of \in Of /\ (c.suppressed <=> Dark(a)) /\ (~ c.suppressed => c.trace = TraceOf(a))
    BY <1>1 DEF ContextsOf, Contexts
<1>7. w \in Works /\ w[1] # "local"
    BY <1>6 DEF Works, Names
<1>8. work' \in [Activities -> SUBSET Works] /\ work'[a] = work[a] \cup {w} /\ \A b \in Activities \ {a} : work'[b] = work[b]
    BY <1>2, <1>7 DEF SpanInv
<1>9. DOMAIN spans = Activities
    BY DEF SpanInv
<1>10. spans' = [b \in Activities |-> spans'[b]] /\ \A b \in Activities \ {a} : spans'[b] = spans[b]
    BY <1>2, <1>9 DEF SpanInv
<1>11. spans'[a] = IF ~ Recording(c) THEN spans[a] ELSE spans[a] \cup {SpanOf(w, c.trace)}
    BY <1>2, <1>9
<1>12. ASSUME sdk = "none" PROVE \A b \in Activities : spans'[b] = {}
    BY <1>2, <1>12 DEF SpanInv, Recording
<1>13. ASSUME sdk = "running", NEW b \in Activities PROVE spans'[b] = SpansOf(b)'
    <2>1. spans[b] = SpansOf(b)
        BY <1>13 DEF SpanInv
    <2>2. CASE b # a
        <3>1. ToldOf(b)' = ToldOf(b)
            BY <1>8, <2>2 DEF ToldOf
        <3>2. SpansOf(b)' = SpansOf(b)
            <4>1. (Dark(b)' <=> Dark(b)) /\ TraceOf(b)' = TraceOf(b)
                BY <1>4
            <4>2. QED
                BY <3>1, <4>1 DEF SpansOf
        <3>3. QED
            BY <1>10, <2>1, <2>2, <3>2
    <2>3. CASE b = a /\ Dark(a)
        BY <1>4, <1>6, <1>11, <2>1, <2>3 DEF SpansOf, Recording
    <2>4. CASE b = a /\ ~ Dark(a)
        <3>1. spans'[a] = spans[a] \cup {SpanOf(w, TraceOf(a))}
            BY <1>6, <1>11, <1>13, <2>4 DEF Recording
        <3>2. {SpanOf(v, TraceOf(a)) : v \in ToldOf(a)'} = {SpanOf(v, TraceOf(a)) : v \in ToldOf(a)} \cup {SpanOf(w, TraceOf(a))}
            <4>1. work[a] \subseteq Works
                BY DEF SpanInv
            <4>2. ToldOf(a)' = ToldOf(a) \cup {w}
                BY <1>7, <1>8, <4>1, ToldGrows
            <4>3. QED
                BY <4>2
        <3>3. SpansOf(a)' = {SpanOf(v, TraceOf(a)) : v \in ToldOf(a)'}
            BY <1>4, <2>4 DEF SpansOf
        <3>4. SpansOf(a) = {SpanOf(v, TraceOf(a)) : v \in ToldOf(a)}
            BY <2>4 DEF SpansOf
        <3>5. QED
            BY <2>1, <2>4, <3>1, <3>2, <3>3, <3>4
    <2>5. QED
        BY <2>2, <2>3, <2>4
<1>14. SpanInv'
    BY <1>8, <1>10, <1>12, <1>13 DEF SpanInv
<1>15. QED
    BY <1>3, <1>5, <1>14

\* A span opens below another: nothing is told yet.
LEMMA SpanOpens ==
    ASSUME StackInv, SpanInv, TickInv, NEW CONSTANT a \in Activities, NEW CONSTANT name \in Names \ {"poll"}, NEW CONSTANT of \in Of,
           ctx[a] # <<>>, WithSpan(a, Plain(name, of)), UNCHANGED <<sdk, spans, work, sender, poller>>
    PROVE  StackInv' /\ SpanInv' /\ TickInv'
<1> PICK c : c = Head(ctx[a])
    OBVIOUS
<1> PICK x : x = SpanContext(c, Plain(name, of), a)
    OBVIOUS
<1>1. ctx[a] \in Seq(ContextsOf(a)) /\ c \in ContextsOf(a) /\ sender \in {None, "sender"}
    BY Shrunk DEF StackInv
<1>2. ctx' = [ctx EXCEPT ![a] = <<x>> \o @]
    BY DEF WithSpan, Inside
<1>3. x \in ContextsOf(a) /\ x.name = name
    BY <1>1, PlainContext
<1>4. /\ ctx'[a] = <<x>> \o ctx[a] /\ (\A b \in Activities \ {a} : ctx'[b] = ctx[b]) /\ DOMAIN ctx' = Activities
      /\ ctx' = [b \in Activities |-> ctx'[b]]
    BY <1>2 DEF StackInv
<1>5. ctx'[a] \in Seq(ContextsOf(a)) /\ ctx'[a] # <<>>
    BY <1>1, <1>3, <1>4, Grown
<1>6. \A b \in Activities : ContextsOf(b)' = ContextsOf(b) /\ (Dark(b)' <=> Dark(b)) /\ TraceOf(b)' = TraceOf(b) /\ ToldOf(b)' = ToldOf(b)
    BY DEF ContextsOf, Dark, TraceOf, ToldOf, poller
<1>7. StackInv'
    BY <1>4, <1>5, <1>6 DEF StackInv, poller
<1>8. SpanInv'
    BY <1>6 DEF SpanInv, SpansOf
<1>9. TickInv'
    <2>1. CASE a = "tick"
        <3>1. PollLast(ctx'["tick"])
            <4> PICK s : s = ctx["tick"]
                OBVIOUS
            <4>1. s \in Seq(ContextsOf("tick")) /\ s # <<>> /\ x \in ContextsOf("tick") /\ x.name # "poll"
                BY <1>1, <1>3, <2>1
            <4>2. PollLast(s)
                BY DEF TickInv
            <4>3. PollLast(<<x>> \o s)
                BY <4>1, <4>2, PollStaysLast
            <4>4. QED
                BY <1>4, <2>1, <4>3
        <3>2. QED
            BY <1>5, <2>1, <3>1 DEF TickInv, PollLast, poller
    <2>2. CASE a # "tick"
        BY <1>4, <2>2 DEF TickInv, PollLast, poller, Activities
    <2>3. QED
        BY <2>1, <2>2
<1>10. QED
    BY <1>7, <1>8, <1>9

\* A span that ends inside of another one leaves the tick as it was.
LEMMA SettlesInside ==
    ASSUME StackInv, SpanInv, TickInv, NEW CONSTANT a \in Activities, NEW CONSTANT status \in Settled, ctx[a] # <<>>,
           Head(ctx[a]).name # "poll", EndOnSettle(a, status), UNCHANGED <<sdk, sender, traceAge, ticking>>, due' \subseteq PolledDevices
    PROVE  StackInv' /\ SpanInv' /\ TickInv'
<1>1. StackInv' /\ SpanInv' /\ ctx'[a] = Tail(ctx[a]) /\ \A b \in Activities \ {a} : ctx'[b] = ctx[b]
    BY Settles
<1>2. TickInv'
    <2>1. CASE a = "tick"
        <3>1. ctx["tick"] \in Seq(ContextsOf("tick")) /\ PollLast(ctx["tick"])
            BY <2>1 DEF StackInv, TickInv
        <3>2. PollLast(Tail(ctx["tick"])) /\ Tail(ctx["tick"]) # <<>>
            BY <2>1, <3>1, PollIsLast
        <3>3. QED
            BY <1>1, <2>1, <3>2 DEF TickInv, PollLast
    <2>2. CASE a # "tick"
        <3>1. ctx'["tick"] = ctx["tick"]
            BY <1>1, <2>2 DEF Activities
        <3>2. QED
            BY <3>1 DEF TickInv, PollLast
    <2>3. QED
        BY <2>1, <2>2
<1>3. QED
    BY <1>1, <1>2

\* What is recorded is counted by the SDK from the moment it runs.
LEMMA Counts ==
    ASSUME CountInv, SdkInv, NEW CONSTANT happened, NEW CONSTANT recorded, happened \subseteq recorded, Counted(happened, recorded)
    PROVE  CountInv'
<1>1. Provider \in Providers /\ Instruments = Provider
    BY DEF Provider, Providers, Instruments, CountInv
<1>2. /\ instruments' \in [Providers -> Providers \cup {None}]
      /\ \A p \in Providers : instruments'[p] \in {None, p}
    BY <1>1 DEF Counted, CountInv
<1>3. unseen' = {}
    <2>1. CASE sdk = "running"
        <3>1. Instruments = "sdk"
            BY <1>1, <2>1 DEF Provider
        <3>2. QED
            BY <2>1, <3>1 DEF Counted, CountInv
    <2>2. CASE sdk # "running"
        BY <2>2 DEF Counted, CountInv
    <2>3. QED
        BY <2>1, <2>2
<1>4. QED
    BY <1>2, <1>3 DEF CountInv

\* A run begins: nothing is told of it yet, and what the other activity told stays.
LEMMA RunBegins ==
    ASSUME SpanInv, NEW CONSTANT a \in Activities,
           spans' = [spans EXCEPT ![a] = {}], work' = [work EXCEPT ![a] = {}], sdk' = sdk,
           \A b \in Activities \ {a} : (Dark(b)' <=> Dark(b)) /\ TraceOf(b)' = TraceOf(b)
    PROVE  SpanInv'
<1>1. /\ work' \in [Activities -> SUBSET Works] /\ work'[a] = {} /\ \A b \in Activities \ {a} : work'[b] = work[b]
    BY DEF SpanInv
<1>2. DOMAIN spans = Activities
    BY DEF SpanInv
<1>3. /\ spans' = [b \in Activities |-> spans'[b]] /\ spans'[a] = {} /\ \A b \in Activities \ {a} : spans'[b] = spans[b]
    BY <1>2 DEF SpanInv
<1>4. SpansOf(a)' = {}
    BY <1>1 DEF SpansOf, ToldOf
<1>5. ASSUME NEW b \in Activities \ {a}
      PROVE  SpansOf(b)' = SpansOf(b)
    <2>1. ToldOf(b)' = ToldOf(b)
        BY <1>1 DEF ToldOf
    <2>2. (Dark(b)' <=> Dark(b)) /\ TraceOf(b)' = TraceOf(b)
        OBVIOUS
    <2>3. QED
        BY <2>1, <2>2 DEF SpansOf
<1>6. QED
    BY <1>1, <1>3, <1>4, <1>5 DEF SpanInv

-----------------------------------------------------------------------------
LEMMA TelemetryStart == TelemetryInit => TelemetryInv
<1> SUFFICES ASSUME TelemetryInit PROVE TelemetryInv
    OBVIOUS
<1>1. SdkInv /\ CountInv
    BY DEF TelemetryInit, SdkInv, CountInv
<1>2. StackInv
    BY TelemetryAssumption, EmptySeq DEF TelemetryInit, StackInv
<1>3. TickInv
    <2>1. ctx["tick"] = <<>> /\ ~ ticking /\ ticking \in BOOLEAN
        BY DEF TelemetryInit, Activities
    <2>2. PollLast(<<>>)
        BY DEF PollLast
    <2>3. QED
        BY <2>1, <2>2 DEF TickInv
<1>4. SpanInv
    BY DEF TelemetryInit, SpanInv
<1>5. QED
    BY <1>1, <1>2, <1>3, <1>4 DEF TelemetryInv

LEMMA InitSdkKeeps == ASSUME TelemetryInv, InitSdk PROVE TelemetryInv'
<1>1. /\ sdk = "none" /\ sdk' = "running" /\ work' = [a \in Activities |-> {}]
      /\ UNCHANGED <<stops, instruments, ctx, spans, sender, unseen, ticking, due, errorCounts, skipCycles, traceAge>>
    BY DEF InitSdk, poller
<1>2. SdkInv' /\ CountInv'
    BY <1>1 DEF TelemetryInv, SdkInv, CountInv
<1>3. StackInv' /\ TickInv'
    <2>1. \A a \in Activities : ContextsOf(a)' = ContextsOf(a)
        BY <1>1 DEF ContextsOf, Dark, TraceOf
    <2>2. StackInv'
        BY <1>1, <2>1 DEF TelemetryInv, StackInv
    <2>3. TickInv'
        BY <1>1 DEF TelemetryInv, TickInv, PollLast
    <2>4. QED
        BY <2>2, <2>3
<1>4. \A a \in Activities : SpansOf(a)' = {}
    BY <1>1 DEF SpansOf, ToldOf
<1>5. SpanInv'
    BY <1>1, <1>4 DEF TelemetryInv, SpanInv
<1>6. QED
    BY <1>2, <1>3, <1>5 DEF TelemetryInv

\* The end of the SDK: nothing is claimed of what is told after it.
LEMMA SdkEndKeeps ==
    ASSUME TelemetryInv, SdkInv', sdk' \notin {"none", "running"},
           UNCHANGED <<instruments, ctx, spans, work, sender, poller, unseen>>
    PROVE  TelemetryInv'
<1>1. CountInv'
    BY DEF TelemetryInv, CountInv
<1>2. StackInv' /\ TickInv'
    <2>1. \A a \in Activities : ContextsOf(a)' = ContextsOf(a)
        BY DEF ContextsOf, Dark, TraceOf, poller
    <2>2. StackInv'
        BY <2>1 DEF TelemetryInv, StackInv, poller
    <2>3. TickInv'
        BY DEF TelemetryInv, TickInv, PollLast, poller
    <2>4. QED
        BY <2>2, <2>3
<1>3. SpanInv'
    BY DEF TelemetryInv, SpanInv
<1>4. QED
    BY <1>1, <1>2, <1>3 DEF TelemetryInv

LEMMA ShutdownSdkKeeps == ASSUME TelemetryInv, ShutdownSdk PROVE TelemetryInv'
<1>1. SdkInv' /\ sdk' = "flushing"
    BY DEF TelemetryInv, SdkInv, ShutdownSdk
<1>2. QED
    BY <1>1, SdkEndKeeps DEF ShutdownSdk

LEMMA FlushKeeps == ASSUME TelemetryInv, FlushOrTimeBox PROVE TelemetryInv'
<1>1. SdkInv' /\ sdk' = "stopped"
    BY DEF TelemetryInv, SdkInv, FlushOrTimeBox
<1>2. QED
    BY <1>1, SdkEndKeeps DEF FlushOrTimeBox

LEMMA StutterKeeps == ASSUME TelemetryInv, UNCHANGED telemetryVars PROVE TelemetryInv'
<1>1. SdkInv' /\ CountInv'
    BY DEF TelemetryInv, SdkInv, CountInv, telemetryVars
<1>2. StackInv' /\ TickInv'
    <2>1. \A a \in Activities : ContextsOf(a)' = ContextsOf(a)
        BY DEF ContextsOf, Dark, TraceOf, poller, telemetryVars
    <2>2. StackInv'
        BY <2>1 DEF TelemetryInv, StackInv, poller, telemetryVars
    <2>3. TickInv'
        BY DEF TelemetryInv, TickInv, PollLast, poller, telemetryVars
    <2>4. QED
        BY <2>2, <2>3
<1>3. SpanInv'
    BY DEF TelemetryInv, SpanInv, SpansOf, ToldOf, Dark, TraceOf, poller, telemetryVars
<1>4. QED
    BY <1>1, <1>2, <1>3 DEF TelemetryInv

-----------------------------------------------------------------------------
LEMMA IdleTickKeeps == ASSUME TelemetryInv, IdleTick PROVE TelemetryInv'
<1>1. /\ ~ ticking /\ traceAge' = Aged /\ Counted({<<"run", "skipped">>}, RecordJobSkip)
      /\ spans' = [spans EXCEPT !["tick"] = {}] /\ work' = [work EXCEPT !["tick"] = {}]
      /\ UNCHANGED <<sdk, stops, ctx, sender, ticking, due>>
    BY DEF IdleTick
<1>2. ctx["tick"] = <<>> /\ traceAge' \in Nat
    BY <1>1 DEF TelemetryInv, TickInv, StackInv, Aged
<1>3. CountInv'
    BY <1>1, Counts DEF TelemetryInv, RecordJobSkip
<1>4. ContextsOf("message")' = ContextsOf("message")
    BY <1>1 DEF ContextsOf, Dark, TraceOf
<1>5. \A b \in Activities \ {"tick"} : (Dark(b)' <=> Dark(b)) /\ TraceOf(b)' = TraceOf(b)
    BY <1>1 DEF Dark, TraceOf
<1>6. SpanInv'
    BY <1>1, <1>5, RunBegins DEF TelemetryInv, Activities
<1>7. ctx'["tick"] \in Seq(ContextsOf("tick")') /\ ctx'["message"] \in Seq(ContextsOf("message")')
    BY <1>1, <1>2, <1>4, EmptySeq DEF TelemetryInv, StackInv, Activities
<1>8. StackInv'
    BY <1>1, <1>2, <1>7 DEF TelemetryInv, StackInv, Activities
<1>9. SdkInv' /\ TickInv'
    BY <1>1 DEF TelemetryInv, SdkInv, TickInv, PollLast
<1>10. QED
    BY <1>3, <1>6, <1>8, <1>9 DEF TelemetryInv

\* The context of a tick: suppressed as a whole, or in a trace of its own.
TickContext(dark) == [name |-> "poll", of |-> None, suppressed |-> dark, trace |-> IF dark THEN None ELSE "tick"]
LEMMA TickOpens ==
    ASSUME ctx["tick"] = <<>>, DOMAIN ctx = Activities, WithSpan("tick", EntryPoint("poll", ~ ShouldTrace, None)),
           NEW CONSTANT dark \in BOOLEAN, dark <=> ~ ShouldTrace
    PROVE  \E x : x = TickContext(dark) /\ ctx' = [ctx EXCEPT !["tick"] = <<x>>]
<1>1. Inside("tick") = Outside
    BY DEF Inside
<1>2. CASE dark
    <2>1. SpanContext(Outside, EntryPoint("poll", ~ ShouldTrace, None), "tick") = TickContext(dark)
        BY <1>2 DEF SpanContext, Outside, EntryPoint, Options, TickContext
    <2>2. PICK x : x = TickContext(dark)
        OBVIOUS
    <2>3. ctx' = [ctx EXCEPT !["tick"] = <<x>> \o @]
        BY <1>1, <2>1, <2>2 DEF WithSpan
    <2>4. <<x>> \o ctx["tick"] = <<x>>
        OBVIOUS
    <2>5. QED
        BY <2>2, <2>3, <2>4
<1>3. CASE ~ dark
    <2>1. SpanContext(Outside, EntryPoint("poll", ~ ShouldTrace, None), "tick") = TickContext(dark)
        BY <1>3 DEF SpanContext, Outside, EntryPoint, Options, TickContext
    <2>2. PICK x : x = TickContext(dark)
        OBVIOUS
    <2>3. ctx' = [ctx EXCEPT !["tick"] = <<x>> \o @]
        BY <1>1, <2>1, <2>2 DEF WithSpan
    <2>4. <<x>> \o ctx["tick"] = <<x>>
        OBVIOUS
    <2>5. QED
        BY <2>2, <2>3, <2>4
<1>4. QED
    BY <1>2, <1>3

LEMMA StartTickKeeps == ASSUME TelemetryInv, StartTick PROVE TelemetryInv'
<1> PICK dark \in BOOLEAN : dark <=> ~ ShouldTrace
    OBVIOUS
<1>1. /\ ~ ticking /\ ticking' = TRUE /\ due' = Due /\ traceAge' = (IF dark THEN Aged ELSE 0)
      /\ spans' = [spans EXCEPT !["tick"] = {}] /\ work' = [work EXCEPT !["tick"] = {}]
      /\ UNCHANGED <<sdk, stops, instruments, sender, unseen>>
    BY DEF StartTick, RunJob
<1>2. ctx["tick"] = <<>> /\ DOMAIN ctx = Activities
    BY <1>1 DEF TelemetryInv, TickInv, StackInv
<1>3. PICK x : x = TickContext(dark) /\ ctx' = [ctx EXCEPT !["tick"] = <<x>>]
    BY <1>2, TickOpens DEF StartTick, RunJob
<1>4. traceAge' \in Nat /\ (traceAge' > 0 <=> dark)
    <2>1. traceAge \in Nat
        BY DEF TelemetryInv, StackInv
    <2>2. ~ dark \/ (traceAge < TraceInterval /\ Aged = traceAge + 1)
        BY <2>1, TelemetryAssumption DEF ShouldTrace, Aged
    <2>3. QED
        BY <1>1, <2>1, <2>2
<1>5. x \in ContextsOf("tick")' /\ x.name = "poll"
    <2>1. TraceOf("tick")' = "tick" /\ (Dark("tick")' <=> dark)
        BY <1>4 DEF TraceOf, Dark
    <2>2. x.name = "poll" /\ (x.suppressed <=> dark) /\ (~ dark => x.trace = "tick")
        BY <1>3 DEF TickContext
    <2>3. x \in Contexts
        BY <1>3 DEF TickContext, Contexts, Names, Of, Activities
    <2>4. QED
        BY <2>1, <2>2, <2>3 DEF ContextsOf, Contexts
<1>6. /\ ctx'["tick"] = <<x>> /\ ctx'["message"] = ctx["message"]
      /\ DOMAIN ctx' = Activities /\ ctx' = [a \in Activities |-> ctx'[a]]
    BY <1>2, <1>3 DEF Activities
<1>7. ContextsOf("message")' = ContextsOf("message")
    BY <1>1 DEF ContextsOf, Dark, TraceOf
<1>8. ctx'["tick"] \in Seq(ContextsOf("tick")') /\ ctx'["message"] \in Seq(ContextsOf("message")')
    BY <1>5, <1>6, <1>7 DEF TelemetryInv, StackInv, Activities
<1>9. StackInv'
    BY <1>1, <1>4, <1>6, <1>8 DEF TelemetryInv, StackInv, Activities, Due
<1>10. TickInv'
    BY <1>1, <1>5, <1>6 DEF TickInv, PollLast
<1>11. \A b \in Activities \ {"tick"} : (Dark(b)' <=> Dark(b)) /\ TraceOf(b)' = TraceOf(b)
    BY <1>1 DEF Dark, TraceOf
<1>12. SpanInv'
    BY <1>1, <1>11, RunBegins DEF TelemetryInv, Activities
<1>13. SdkInv' /\ CountInv'
    BY <1>1 DEF TelemetryInv, SdkInv, CountInv
<1>14. QED
    BY <1>9, <1>10, <1>12, <1>13 DEF TelemetryInv

-----------------------------------------------------------------------------
LEMMA InsideOne ==
    ASSUME NEW CONSTANT a \in Activities, Inside(a).name # "none"
    PROVE  ctx[a] # <<>> /\ Inside(a) = Head(ctx[a])
BY DEF Inside, Outside

LEMMA InsideOf ==
    ASSUME TelemetryInv, NEW CONSTANT a \in Activities, ctx[a] # <<>>
    PROVE  Head(ctx[a]).name \in Names /\ Head(ctx[a]).of \in Of
<1>1. ctx[a] \in Seq(ContextsOf(a))
    BY DEF TelemetryInv, StackInv
<1>2. Head(ctx[a]) \in ContextsOf(a)
    BY <1>1, Shrunk
<1>3. QED
    BY <1>2 DEF ContextsOf, Contexts

LEMMA OpeningKeeps ==
    ASSUME TelemetryInv, NEW CONSTANT a \in Activities, NEW CONSTANT name \in Names \ {"poll"}, NEW CONSTANT of \in Of,
           Inside(a).name # "none", WithSpan(a, Plain(name, of)),
           UNCHANGED <<sdk, stops, instruments, spans, work, sender, poller, unseen>>
    PROVE  TelemetryInv'
<1>1. StackInv' /\ SpanInv' /\ TickInv'
    BY InsideOne, SpanOpens DEF TelemetryInv
<1>2. SdkInv' /\ CountInv'
    BY DEF TelemetryInv, SdkInv, CountInv
<1>3. QED
    BY <1>1, <1>2 DEF TelemetryInv

LEMMA PollDeviceKeeps == ASSUME TelemetryInv, NEW d \in PolledDevices, PollDevice(d) PROVE TelemetryInv'
<1>1. "tick" \in Activities /\ "device" \in Names \ {"poll"} /\ d \in Of
    BY DEF Activities, Names, Of
<1>2. Inside("tick").name # "none"
    BY DEF PollDevice
<1>3. QED
    BY <1>1, <1>2, OpeningKeeps DEF PollDevice

LEMMA MiotCallKeeps == ASSUME TelemetryInv, NEW a \in Activities, MiotCall(a) PROVE TelemetryInv'
<1> PICK of : of = Inside(a).of
    OBVIOUS
<1>1. Inside(a).name # "none"
    BY DEF MiotCall
<1>2. of \in Of
    BY <1>1, InsideOne, InsideOf
<1>3. "call" \in Names \ {"poll"}
    BY DEF Names
<1>4. QED
    BY <1>1, <1>2, <1>3, OpeningKeeps DEF MiotCall

LEMMA PublishKeeps == ASSUME TelemetryInv, Publish PROVE TelemetryInv'
<1>1. "message" \in Activities /\ "publish" \in Names \ {"poll"} /\ None \in Of
    BY DEF Activities, Names, Of
<1>2. Inside("message").name # "none"
    BY DEF Publish
<1>3. QED
    BY <1>1, <1>2, OpeningKeeps DEF Publish

\* A span that ends inside of another one, with what is counted then.
LEMMA EndingKeeps ==
    ASSUME TelemetryInv, NEW CONSTANT a \in Activities, NEW CONSTANT status \in Settled,
           Inside(a).name \notin {"none", "poll"}, EndOnSettle(a, status),
           UNCHANGED <<sdk, stops, sender, traceAge, ticking>>, due' \subseteq PolledDevices, CountInv'
    PROVE  TelemetryInv'
<1>1. ctx[a] # <<>> /\ Head(ctx[a]).name # "poll"
    BY InsideOne
<1>2. StackInv' /\ SpanInv' /\ TickInv'
    BY <1>1, SettlesInside DEF TelemetryInv
<1>3. SdkInv'
    BY DEF TelemetryInv, SdkInv
<1>4. QED
    BY <1>2, <1>3 DEF TelemetryInv

LEMMA MiotCallEndsKeeps == ASSUME TelemetryInv, NEW a \in Activities, NEW e \in CallEnds, MiotCallEnds(a, e) PROVE TelemetryInv'
<1> PICK status : status = IF e \in {"device_error", "timeout"} THEN "error" ELSE "ok"
    OBVIOUS
<1>1. status \in Settled
    BY DEF Settled
<1>2. /\ Inside(a).name = "call" /\ EndOnSettle(a, status)
      /\ UNCHANGED <<sdk, stops, sender, poller>>
    BY DEF MiotCallEnds
<1>3. PICK happened, recorded : happened \subseteq recorded /\ Counted(happened, recorded)
    <2> PICK happened : happened = {<<"call", status>>} \cup (IF e = "entries_refused" \/ (e = "device_error" /\ a = "message") THEN {<<"property", "refused">>} ELSE {})
        OBVIOUS
    <2> PICK recorded : recorded = RecordCall(status) \cup RecordPropertyRejection(a, e)
        OBVIOUS
    <2>1. Counted(happened, recorded)
        BY DEF MiotCallEnds
    <2>2. happened \subseteq recorded
        BY DEF RecordCall, RecordPropertyRejection
    <2>3. QED
        BY <2>1, <2>2
<1>4. CountInv'
    BY <1>3, Counts DEF TelemetryInv
<1>5. due' \subseteq PolledDevices
    BY <1>2 DEF TelemetryInv, StackInv, poller
<1>6. QED
    BY <1>1, <1>2, <1>4, <1>5, EndingKeeps DEF poller

LEMMA DeviceReadKeeps ==
    ASSUME TelemetryInv, NEW d \in PolledDevices, NEW how \in {"read", "call_failed", "nothing_resolves", "no_record"}, DeviceRead(d, how)
    PROVE  TelemetryInv'
<1> PICK status : status = IF how \in {"call_failed", "no_record"} THEN "error" ELSE "ok"
    OBVIOUS
<1> PICK result : result = IF how \in {"call_failed", "no_record"} THEN "failure" ELSE "success"
    OBVIOUS
<1>1. status \in Settled
    BY DEF Settled
<1>2. /\ Inside("tick").name = "device" /\ EndOnSettle("tick", status) /\ due' = due \ {d}
      /\ UNCHANGED <<sdk, stops, sender, ticking, traceAge>>
    BY DEF DeviceRead
<1>3. PICK happened, recorded : happened \subseteq recorded /\ Counted(happened, recorded)
    <2> PICK happened : happened = {<<"item", result>>} \cup (IF how = "nothing_resolves" THEN {<<"property", "unresolved">>} ELSE {})
        OBVIOUS
    <2> PICK recorded : recorded = RecordItem(result) \cup RecordPropertyUnresolved(how)
        OBVIOUS
    <2>1. Counted(happened, recorded)
        BY DEF DeviceRead
    <2>2. happened \subseteq recorded
        BY DEF RecordItem, RecordPropertyUnresolved
    <2>3. QED
        BY <2>1, <2>2
<1>4. CountInv'
    BY <1>3, Counts DEF TelemetryInv
<1>5. due' \subseteq PolledDevices /\ "tick" \in Activities
    BY <1>2 DEF TelemetryInv, StackInv, Activities
<1>6. QED
    BY <1>1, <1>2, <1>4, <1>5, EndingKeeps

\* The job itself ends: the tick is over, and outside of everything.
LEMMA EndTickKeeps == ASSUME TelemetryInv, EndTick PROVE TelemetryInv'
<1>1. /\ Inside("tick").name = "poll" /\ EndOnSettle("tick", "ok") /\ ticking' = FALSE
      /\ Counted({<<"run", "success">>}, RecordRun("success"))
      /\ UNCHANGED <<sdk, stops, sender, due, traceAge>>
    BY DEF EndTick
<1>2. "tick" \in Activities /\ "ok" \in Settled /\ due' \subseteq PolledDevices
    BY <1>1 DEF Activities, Settled, TelemetryInv, StackInv
<1>3. ctx["tick"] # <<>> /\ Head(ctx["tick"]).name = "poll"
    BY <1>1, <1>2, InsideOne
<1>4. StackInv' /\ SpanInv' /\ ctx'["tick"] = Tail(ctx["tick"])
    BY <1>1, <1>2, <1>3, Settles DEF TelemetryInv
<1>5. PollLast(Tail(ctx["tick"])) /\ Tail(ctx["tick"]) = <<>>
    <2>1. ctx["tick"] \in Seq(ContextsOf("tick")) /\ PollLast(ctx["tick"])
        BY <1>2 DEF TelemetryInv, StackInv, TickInv
    <2>2. QED
        BY <1>3, <2>1, PollIsLast
<1>6. TickInv'
    BY <1>1, <1>4, <1>5 DEF TickInv, PollLast
<1>7. CountInv'
    BY <1>1, Counts DEF TelemetryInv, RecordRun
<1>8. SdkInv'
    BY <1>1 DEF TelemetryInv, SdkInv
<1>9. QED
    BY <1>4, <1>6, <1>7, <1>8 DEF TelemetryInv

-----------------------------------------------------------------------------
\* The context of a message: never suppressed, and in the trace of its sender, if it has one.
MessageContext(carrier) ==
    [name |-> "process", of |-> None, suppressed |-> FALSE, trace |-> IF carrier = None THEN "message" ELSE carrier]
LEMMA MessageOpens ==
    ASSUME ctx["message"] = <<>>, DOMAIN ctx = Activities, NEW CONSTANT carrier,
           WithSpan("message", Options("process", None, FALSE, FALSE, carrier))
    PROVE  \E x : x = MessageContext(carrier) /\ ctx' = [ctx EXCEPT !["message"] = <<x>>]
<1>1. Inside("message") = Outside
    BY DEF Inside
<1>2. SpanContext(Outside, Options("process", None, FALSE, FALSE, carrier), "message") = MessageContext(carrier)
    BY DEF SpanContext, Outside, Options, MessageContext
<1>3. PICK x : x = MessageContext(carrier)
    OBVIOUS
<1>4. ctx' = [ctx EXCEPT !["message"] = <<x>> \o @]
    BY <1>1, <1>2, <1>3 DEF WithSpan
<1>5. <<x>> \o ctx["message"] = <<x>>
    OBVIOUS
<1>6. QED
    BY <1>3, <1>4, <1>5

LEMMA ConsumeKeeps == ASSUME TelemetryInv, NEW carrier \in {None, "sender"}, Consume(carrier) PROVE TelemetryInv'
<1>1. /\ ctx["message"] = <<>> /\ sender' = carrier
      /\ spans' = [spans EXCEPT !["message"] = {}] /\ work' = [work EXCEPT !["message"] = {}]
      /\ UNCHANGED <<sdk, stops, instruments, unseen, ticking, due, traceAge>>
    BY DEF Consume, poller
<1>2. DOMAIN ctx = Activities
    BY DEF TelemetryInv, StackInv
<1>3. PICK x : x = MessageContext(carrier) /\ ctx' = [ctx EXCEPT !["message"] = <<x>>]
    BY <1>1, <1>2, MessageOpens DEF Consume
<1>4. /\ ctx'["message"] = <<x>> /\ ctx'["tick"] = ctx["tick"]
      /\ DOMAIN ctx' = Activities /\ ctx' = [a \in Activities |-> ctx'[a]]
    BY <1>1, <1>2, <1>3 DEF Activities
<1>5. x = [name |-> "process", of |-> None, suppressed |-> FALSE, trace |-> IF carrier = None THEN "message" ELSE carrier]
    BY <1>3 DEF MessageContext
<1>6. x \in ContextsOf("message")'
    <2>1. TraceOf("message")' = x.trace /\ ~ Dark("message")' /\ ~ x.suppressed
        BY <1>1, <1>5 DEF TraceOf, Dark
    <2>2. x \in Contexts
        BY <1>5 DEF Contexts, Names, Of, Activities
    <2>3. QED
        BY <2>1, <2>2 DEF ContextsOf, Contexts
<1>7. ContextsOf("tick")' = ContextsOf("tick")
    BY <1>1 DEF ContextsOf, Dark, TraceOf
<1>8. ctx'["tick"] \in Seq(ContextsOf("tick")') /\ ctx'["message"] \in Seq(ContextsOf("message")')
    BY <1>4, <1>6, <1>7 DEF TelemetryInv, StackInv, Activities
<1>9. StackInv'
    BY <1>1, <1>4, <1>8 DEF TelemetryInv, StackInv, Activities
<1>10. TickInv'
    BY <1>1, <1>4 DEF TelemetryInv, TickInv, PollLast
<1>11. \A b \in Activities \ {"message"} : (Dark(b)' <=> Dark(b)) /\ TraceOf(b)' = TraceOf(b)
    BY <1>1 DEF Dark, TraceOf
<1>12. SpanInv'
    BY <1>1, <1>11, RunBegins DEF TelemetryInv, Activities
<1>13. SdkInv' /\ CountInv'
    BY <1>1 DEF TelemetryInv, SdkInv, CountInv
<1>14. QED
    BY <1>9, <1>10, <1>12, <1>13 DEF TelemetryInv

\* A message refused by our own validation is counted, and no trace tells of a call.
LEMMA RejectLocallyKeeps == ASSUME TelemetryInv, RejectLocally PROVE TelemetryInv'
<1>1. /\ work["message"] = {} /\ work' = [work EXCEPT !["message"] = {<<"local", None, "error">>}]
      /\ Counted({<<"call", "rejected_locally">>}, {<<"call", "rejected_locally">>})
      /\ UNCHANGED <<sdk, stops, ctx, spans, sender, ticking, due, traceAge>>
    BY DEF RejectLocally, poller
<1>2. <<"local", None, "error">> \in Works
    BY DEF Works, Of, Settled
<1>3. /\ work' \in [Activities -> SUBSET Works] /\ work'["message"] = {<<"local", None, "error">>}
      /\ work'["tick"] = work["tick"]
    BY <1>1, <1>2 DEF TelemetryInv, SpanInv, Activities
<1>4. ToldOf("tick")' = ToldOf("tick") /\ ToldOf("message")' = {} /\ ToldOf("message") = {}
    BY <1>1, <1>3 DEF ToldOf
<1>5. \A a \in Activities : SpansOf(a)' = SpansOf(a)
    BY <1>1, <1>4 DEF SpansOf, Dark, TraceOf, Activities
<1>6. SpanInv'
    BY <1>1, <1>3, <1>5 DEF TelemetryInv, SpanInv
<1>7. CountInv'
    BY <1>1, Counts DEF TelemetryInv
<1>8. SdkInv' /\ StackInv' /\ TickInv'
    BY <1>1 DEF TelemetryInv, SdkInv, StackInv, TickInv, PollLast, ContextsOf, Dark, TraceOf
<1>9. QED
    BY <1>6, <1>7, <1>8 DEF TelemetryInv

LEMMA PublishedKeeps == ASSUME TelemetryInv, NEW s \in Settled, Published(s) PROVE TelemetryInv'
<1>1. /\ Inside("message").name = "publish" /\ EndOnSettle("message", s)
      /\ UNCHANGED <<sdk, stops, instruments, sender, poller, unseen>>
    BY DEF Published
<1>2. CountInv' /\ due' \subseteq PolledDevices /\ "message" \in Activities
    BY <1>1 DEF TelemetryInv, CountInv, StackInv, Activities, poller
<1>3. QED
    BY <1>1, <1>2, EndingKeeps DEF poller

LEMMA HandledKeeps == ASSUME TelemetryInv, Handled PROVE TelemetryInv'
<1> PICK s : s = IF \E w \in work["message"] : w[1] # "publish" /\ w[3] = "error" THEN "error" ELSE "ok"
    OBVIOUS
<1>1. s \in Settled
    BY DEF Settled
<1>2. /\ Inside("message").name = "process" /\ EndOnSettle("message", s)
      /\ UNCHANGED <<sdk, stops, instruments, sender, poller, unseen>>
    BY DEF Handled
<1>3. CountInv' /\ due' \subseteq PolledDevices /\ "message" \in Activities
    BY <1>2 DEF TelemetryInv, CountInv, StackInv, Activities, poller
<1>4. QED
    BY <1>1, <1>2, <1>3, EndingKeeps DEF poller

LEMMA TelemetryStep == TelemetryInv /\ [TelemetryNext]_telemetryVars => TelemetryInv'
<1>1. SUFFICES ASSUME TelemetryInv, [TelemetryNext]_telemetryVars
               PROVE  TelemetryInv'
    OBVIOUS
<1>2. CASE UNCHANGED telemetryVars
    BY <1>1, <1>2, StutterKeeps
<1>3. CASE InitSdk \/ ShutdownSdk \/ ShutdownAgain \/ FlushOrTimeBox
    BY <1>1, <1>3, InitSdkKeeps, ShutdownSdkKeeps, FlushKeeps, StutterKeeps DEF ShutdownAgain
<1>4. CASE IdleTick \/ StartTick \/ EndTick
    BY <1>1, <1>4, IdleTickKeeps, StartTickKeeps, EndTickKeeps
<1>5. ASSUME NEW d \in PolledDevices, PollDevice(d)
      PROVE  TelemetryInv'
    BY <1>1, <1>5, PollDeviceKeeps
<1>6. ASSUME NEW d \in PolledDevices, NEW how \in {"read", "call_failed", "nothing_resolves", "no_record"}, DeviceRead(d, how)
      PROVE  TelemetryInv'
    BY <1>1, <1>6, DeviceReadKeeps
<1>7. ASSUME NEW a \in Activities, MiotCall(a)
      PROVE  TelemetryInv'
    BY <1>1, <1>7, MiotCallKeeps
<1>8. ASSUME NEW a \in Activities, NEW e \in CallEnds, MiotCallEnds(a, e)
      PROVE  TelemetryInv'
    BY <1>1, <1>8, MiotCallEndsKeeps
<1>9. ASSUME NEW c \in {None, "sender"}, Consume(c)
      PROVE  TelemetryInv'
    BY <1>1, <1>9, ConsumeKeeps
<1>10. CASE RejectLocally \/ Publish \/ Handled
    BY <1>1, <1>10, RejectLocallyKeeps, PublishKeeps, HandledKeeps
<1>11. ASSUME NEW s \in Settled, Published(s)
       PROVE  TelemetryInv'
    BY <1>1, <1>11, PublishedKeeps
<1>12. QED
    BY <1>1, <1>2, <1>3, <1>4, <1>5, <1>6, <1>7, <1>8, <1>9, <1>10, <1>11 DEF TelemetryNext

\* Sampling decides about traces and nothing else: whatever happens from the start of the SDK
\* on is counted, a run that is over has told of each piece of its work, in one trace, and a
\* tick that is sampled out of none (jobTelemetry.ts, miotTracing.ts).
THEOREM SamplingIsSound == TelemetrySpec => []TelemetrySound
<1>1. TelemetryInv => TelemetrySound
    <2> SUFFICES ASSUME TelemetryInv PROVE TelemetrySound
        OBVIOUS
    <2>1. EverythingCounted
        BY DEF TelemetryInv, CountInv, SdkInv, EverythingCounted
    <2>2. ASSUME NEW a \in Activities, sdk = "running", ctx[a] = <<>>
          PROVE  /\ spans[a] = IF a = "tick" /\ traceAge > 0 THEN {}
                               ELSE {<<w[1], w[2], w[3], TraceOf(a)>> : w \in ToldOf(a)}
                 /\ a = "tick" => ~ ticking
        BY <2>2 DEF TelemetryInv, SpanInv, TickInv, SpansOf, SpanOf, Dark
    <2>3. QED
        BY <2>1, <2>2 DEF TelemetrySound, SpansTellTheWork
<1>2. QED
    BY <1>1, TelemetryStart, TelemetryStep, PTL DEF TelemetrySpec
=============================================================================
