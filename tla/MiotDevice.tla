----------------------------- MODULE MiotDevice -----------------------------
(***************************************************************************)
(* The stamp lifecycle of packages/miot-device: MiotDevice (one object per *)
(* physical device and per node), shared by concurrent callers, over the   *)
(* one-socket-per-exchange MiotTransport.  Every await of runWithStamp,    *)
(* runWithFreshStamp and discover is a point where other calls may run.    *)
(*                                                                         *)
(* A call sends one packet per property (getProperties) or one packet      *)
(* (getProperty, setProperty, callAction).  Payloads and results are left  *)
(* out; a reply is what the transport makes of it: "ok", or "error".  An   *)
(* error of the whole answer is raised whatever was asked; the code of the *)
(* item in it is raised by getProperty and setProperty only, getProperties *)
(* passes it on as a result and callAction does not look at it.            *)
(***************************************************************************)
EXTENDS Naturals

CONSTANTS
    Nodes,       \* processes that hold a MiotDevice for the same device
    Calls,       \* the invocations, each made once
    Ops,         \* operations on offer: "property" (getProperty, setProperty),
                 \*   "lenient" (getProperties, callAction), "discover"
    MaxProps,    \* most properties one getProperties asks for
    StampLimit,  \* largest stamp a packet can carry (2^32 - 1 in the code)
    Modes,       \* the deployments and environments considered
    NoStamp      \* "undefined" / null

Stamps == 0 .. StampLimit

\* serial: each caller awaits its call before the next begins, and nobody else calls
\* store:  options.stampStore is given;   storeFails: its calls may reject
\* strays: a datagram may outlive the 10 s timer of its exchange
\* clock:  the device also moves its counter by itself, or reboots and loses it
\* strict: the device never obeys, nor judges, a packet whose stamp is not ahead of its counter
Mode == [serial : BOOLEAN, store : BOOLEAN, storeFails : BOOLEAN, strays : BOOLEAN,
         clock : BOOLEAN, strict : BOOLEAN]

ASSUME MiotDeviceAssumption ==
    /\ MaxProps \in Nat \ {0}
    /\ StampLimit \in Nat
    /\ Ops \subseteq {"property", "lenient", "discover"}
    /\ Modes \subseteq Mode
    /\ NoStamp \notin Nat

VARIABLES
    mode,        \* the member of Modes this behaviour lives in
    plan,        \* plan[c]: the node, operation and number of packets of call c
    deviceKnown, \* deviceKnown[n]: _deviceId is set
    stampState,  \* stampState[n]: _stampState.stamp of node n, or NoStamp
    store,       \* what the external stamp store holds
    pc,          \* pc[c]: the await call c is at, or its outcome
    got,         \* got[c]: the value the last await of c brought (hello, getStamp)
    stamp,       \* stamp[c]: the stamp of the packet of c in progress
    cur,         \* cur[c]: the index of that packet
    reply,       \* reply[c]: the answer on its way to the open socket of c
    net,         \* packets on their way to the device
    devStamp,    \* the device's own counter
    executed,    \* executed[c]: the <<attempt, packet>> pairs the device carried out
    refused,     \* refused[c]: the pairs it refused with a code the transport does not raise
    lastSent     \* lastSent[n]: history, the last command stamp node n sent

clientVars == <<deviceKnown, stampState, store>>
deviceVars == <<net, devStamp, executed, refused>>
vars == <<mode, plan, deviceKnown, stampState, store, pc, got, stamp, cur, reply,
          net, devStamp, executed, refused, lastSent>>

\* Only getProperties sends more than one packet.
Plan == {p \in [node : Nodes, op : Ops, size : 1 .. MaxProps] : p.op # "lenient" => p.size = 1}
Packet == [call : Calls, try : {1, 2}, idx : 1 .. MaxProps, stamp : Stamps]
Settled == {"ok", "failed"}
PC == {"new", "loading", "loaded", "cached", "savingCached", "handshake", "greeted",
       "fresh", "savingFresh", "discovering", "discovered", "savingDiscover"} \cup Settled

TypeOK ==
    /\ mode \in Modes
    /\ plan \in [Calls -> Plan]
    /\ deviceKnown \in [Nodes -> BOOLEAN]
    /\ stampState \in [Nodes -> Stamps \cup {NoStamp}]
    /\ store \in Stamps \cup {NoStamp}
    /\ pc \in [Calls -> PC]
    /\ got \in [Calls -> Stamps \cup {NoStamp}]
    /\ stamp \in [Calls -> 0 .. StampLimit + 1]
    /\ cur \in [Calls -> 1 .. MaxProps]
    /\ reply \in [Calls -> {"none", "ok", "error"}]
    /\ net \subseteq Packet
    /\ devStamp \in Stamps
    /\ executed \in [Calls -> SUBSET ({1, 2} \X (1 .. MaxProps))]
    /\ refused \in [Calls -> SUBSET ({1, 2} \X (1 .. MaxProps))]
    /\ lastSent \in [Nodes -> Stamps \cup {NoStamp}]

\* A node starts from a stamp kept in its database (setStampState) or from nothing; that one,
\* the one in the external store and the counter of the device may be anything to each other.
Init ==
    /\ mode \in Modes
    /\ plan \in [Calls -> Plan]
    /\ deviceKnown \in [Nodes -> BOOLEAN]
    /\ stampState \in [Nodes -> Stamps \cup {NoStamp}]
    /\ store \in Stamps \cup {NoStamp}
    /\ pc = [c \in Calls |-> "new"]
    /\ got = [c \in Calls |-> NoStamp]
    /\ stamp = [c \in Calls |-> 0]
    /\ cur = [c \in Calls |-> 1]
    /\ reply = [c \in Calls |-> "none"]
    /\ net = {}
    /\ devStamp \in Stamps
    /\ executed = [c \in Calls |-> {}]
    /\ refused = [c \in Calls |-> {}]
    /\ lastSent = [n \in Nodes |-> NoStamp]

-----------------------------------------------------------------------------
Node(c) == plan[c].node
Try(c) == IF pc[c] \in {"cached", "savingCached"} THEN 1 ELSE 2
Awaiting(c) == pc[c] \in {"cached", "fresh"}
IsCommand(c) == plan[c].op # "discover"
Goto(c, label) == pc' = [pc EXCEPT ![c] = label]
SetStampState(c, s) == stampState' = [stampState EXCEPT ![Node(c)] = s]
Quiet == \A c \in Calls : pc[c] \in Settled \cup {"new"}

\* sendCommand for packet i of attempt t.  A stamp past 32 bits makes the encoder throw:
\* nothing leaves, and the exchange can only fail.
Transmit(c, t, i, s) ==
    /\ stamp' = [stamp EXCEPT ![c] = s]
    /\ cur' = [cur EXCEPT ![c] = i]
    /\ reply' = [reply EXCEPT ![c] = "none"]
    /\ IF s <= StampLimit
       THEN /\ net' = net \cup {[call |-> c, try |-> t, idx |-> i, stamp |-> s]}
            /\ lastSent' = [lastSent EXCEPT ![Node(c)] = s]
       ELSE UNCHANGED <<net, lastSent>>

\* Closing the socket: later answers go nowhere, and a packet still on the wire is lost
\* unless datagrams may stray.
CloseSocket(c) ==
    /\ reply' = [reply EXCEPT ![c] = "none"]
    /\ net' = IF mode.strays THEN net ELSE {p \in net : p.call # c}

\* The part of runWithStamp after the optional load: try the stamp s, or handshake.
TryStamp(c, s) ==
    IF s # NoStamp
    THEN Goto(c, "cached") /\ Transmit(c, 1, 1, s + 1)
    ELSE Goto(c, "handshake") /\ UNCHANGED <<stamp, cur, reply, net, lastSent>>

Begin(c) ==
    /\ pc[c] = "new"
    /\ mode.serial => Quiet
    /\ UNCHANGED <<mode, plan, clientVars, got, devStamp, executed, refused>>

\* discover(): the hello goes out.
StartDiscover(c) ==
    /\ Begin(c)
    /\ plan[c].op = "discover"
    /\ Goto(c, "discovering")
    /\ UNCHANGED <<stamp, cur, reply, net, lastSent>>

\* runWithStamp without a device id: requireDeviceId throws.
StartUnknown(c) ==
    /\ Begin(c)
    /\ IsCommand(c)
    /\ ~deviceKnown[Node(c)]
    /\ Goto(c, "failed")
    /\ UNCHANGED <<stamp, cur, reply, net, lastSent>>

\* runWithStamp up to its first await.
StartCommand(c) ==
    /\ Begin(c)
    /\ IsCommand(c)
    /\ deviceKnown[Node(c)]
    /\ IF mode.store /\ stampState[Node(c)] = NoStamp
       THEN Goto(c, "loading") /\ UNCHANGED <<stamp, cur, reply, net, lastSent>>
       ELSE TryStamp(c, stampState[Node(c)])

\* The store answers getStamp.
StoreReads(c) ==
    /\ pc[c] = "loading"
    /\ got' = [got EXCEPT ![c] = store]
    /\ Goto(c, "loaded")
    /\ UNCHANGED <<mode, plan, clientVars, stamp, cur, reply, deviceVars, lastSent>>

\* getStamp rejects: the command fails before anything was sent.
StoreReadFails(c) ==
    /\ pc[c] = "loading"
    /\ mode.storeFails
    /\ Goto(c, "failed")
    /\ UNCHANGED <<mode, plan, clientVars, got, stamp, cur, reply, deviceVars, lastSent>>

\* getStamp returns: a stored stamp replaces whatever _stampState holds by now.
Loaded(c) ==
    /\ pc[c] = "loaded"
    /\ IF got[c] # NoStamp
       THEN SetStampState(c, got[c]) /\ TryStamp(c, got[c])
       ELSE UNCHANGED stampState /\ TryStamp(c, stampState[Node(c)])
    /\ UNCHANGED <<mode, plan, deviceKnown, store, got, devStamp, executed, refused>>

\* The device answers a hello with its counter.
DeviceHello(c) ==
    /\ pc[c] \in {"handshake", "discovering"}
    /\ got' = [got EXCEPT ![c] = devStamp]
    /\ Goto(c, IF pc[c] = "handshake" THEN "greeted" ELSE "discovered")
    /\ UNCHANGED <<mode, plan, clientVars, stamp, cur, reply, deviceVars, lastSent>>

\* No hello within the timer, or an unreadable one: runWithFreshStamp and discover throw.
HandshakeFails(c) ==
    /\ pc[c] \in {"handshake", "greeted", "discovering", "discovered"}
    /\ Goto(c, "failed")
    /\ UNCHANGED <<mode, plan, clientVars, got, stamp, cur, reply, deviceVars, lastSent>>

\* Mutant of SendFresh: the stamp of the handshake is used without the increment.
SendFreshUnincremented(c) ==
    /\ pc[c] = "greeted"
    /\ Goto(c, "fresh")
    /\ Transmit(c, 2, 1, got[c])
    /\ UNCHANGED <<mode, plan, clientVars, got, devStamp, executed, refused>>

\* runWithFreshStamp: the first packet after the handshake.
SendFresh(c) ==
    /\ pc[c] = "greeted"
    /\ Goto(c, "fresh")
    /\ Transmit(c, 2, 1, got[c] + 1)
    /\ UNCHANGED <<mode, plan, clientVars, got, devStamp, executed, refused>>

\* discover() returns or goes on to persist the stamp.
Discovered(c) ==
    /\ pc[c] = "discovered"
    /\ deviceKnown' = [deviceKnown EXCEPT ![Node(c)] = TRUE]
    /\ SetStampState(c, got[c])
    /\ Goto(c, IF mode.store THEN "savingDiscover" ELSE "ok")
    /\ UNCHANGED <<mode, plan, store, got, stamp, cur, reply, deviceVars, lastSent>>

\* The packet of call c was answered and getProperties has more to ask.
SendNext(c) ==
    /\ Awaiting(c)
    /\ reply[c] = "ok"
    /\ cur[c] < plan[c].size
    /\ Transmit(c, Try(c), cur[c] + 1, stamp[c] + 1)
    /\ UNCHANGED <<mode, plan, clientVars, pc, got, devStamp, executed, refused>>

\* The last packet was answered: updateStamp with the last stamp used.
Finish(c) ==
    /\ Awaiting(c)
    /\ reply[c] = "ok"
    /\ cur[c] = plan[c].size
    /\ SetStampState(c, stamp[c])
    /\ Goto(c, IF ~mode.store THEN "ok"
               ELSE IF pc[c] = "cached" THEN "savingCached" ELSE "savingFresh")
    /\ CloseSocket(c)
    /\ UNCHANGED <<mode, plan, deviceKnown, store, got, stamp, cur, devStamp, executed,
                   refused, lastSent>>

\* Mutant of ExchangeFails: no timer, only an error answer ends the exchange.
ExchangeFailsOnError(c) ==
    /\ Awaiting(c)
    /\ reply[c] = "error"
    /\ CloseSocket(c)
    /\ IF pc[c] = "cached"
       THEN SetStampState(c, NoStamp) /\ Goto(c, "handshake")
       ELSE UNCHANGED stampState /\ Goto(c, "failed")
    /\ UNCHANGED <<mode, plan, deviceKnown, store, got, stamp, cur, devStamp, executed,
                   refused, lastSent>>

\* Timeout, transport error, or an answer that refuses.  On the cached stamp the state is
\* cleared and a handshake follows; on a fresh stamp the call throws.
ExchangeFails(c) ==
    /\ Awaiting(c)
    /\ CloseSocket(c)
    /\ IF pc[c] = "cached"
       THEN SetStampState(c, NoStamp) /\ Goto(c, "handshake")
       ELSE UNCHANGED stampState /\ Goto(c, "failed")
    /\ UNCHANGED <<mode, plan, deviceKnown, store, got, stamp, cur, devStamp, executed,
                   refused, lastSent>>

Saving(c) == pc[c] \in {"savingCached", "savingFresh", "savingDiscover"}
Saved(c) == IF pc[c] = "savingDiscover" THEN got[c] ELSE stamp[c]

\* setStamp succeeds.
StoreWrites(c) ==
    /\ Saving(c)
    /\ store' = Saved(c)
    /\ Goto(c, "ok")
    /\ UNCHANGED <<mode, plan, deviceKnown, stampState, got, stamp, cur, reply,
                   deviceVars, lastSent>>

\* Mutant of StoreWriteFails: the failure goes to the caller.
StoreWriteFailsToCaller(c) ==
    /\ Saving(c)
    /\ mode.storeFails
    /\ store' \in {store, Saved(c)}
    /\ Goto(c, "failed")
    /\ UNCHANGED <<mode, plan, deviceKnown, stampState, got, stamp, cur, reply, deviceVars,
                   lastSent>>

\* setStamp rejects, having written or not.  In runWithStamp this is inside the try block:
\* the finished command is taken for a failed one.
StoreWriteFails(c) ==
    /\ Saving(c)
    /\ mode.storeFails
    /\ store' \in {store, Saved(c)}
    /\ IF pc[c] = "savingCached"
       THEN SetStampState(c, NoStamp) /\ Goto(c, "handshake")
       ELSE UNCHANGED stampState /\ Goto(c, "failed")
    /\ UNCHANGED <<mode, plan, deviceKnown, got, stamp, cur, reply, deviceVars, lastSent>>

-----------------------------------------------------------------------------
(* The device.  It counts calls; a packet whose stamp is not ahead of the  *)
(* counter may be ignored, any packet may be refused, and an answer        *)
(* reaches only the socket that is still waiting for that very packet.     *)

Counted(p) == IF p.stamp > devStamp THEN p.stamp ELSE devStamp

\* Mutant of Expected: one socket for all packets of a call, answers not told apart.
ExpectedAny(p) ==
    Awaiting(p.call)

Expected(p) ==
    Awaiting(p.call) /\ p.try = Try(p.call) /\ p.idx = cur[p.call]

\* Mutant of Raised: setProperty, too, leaves the code of the item alone.
RaisedNever(c) == FALSE

\* The transport turns the code of a refused item into an error.
Raised(c) == plan[c].op = "property"

Answer(p, a) == reply' = IF Expected(p) THEN [reply EXCEPT ![p.call] = a] ELSE reply

DeviceObeys(p) ==
    /\ mode.strict => p.stamp > devStamp
    /\ devStamp' = Counted(p)
    /\ executed' = [executed EXCEPT ![p.call] = @ \cup {<<p.try, p.idx>>}]
    /\ Answer(p, "ok")
    /\ UNCHANGED refused

\* The item asked for is refused with a code of its own.
DeviceRefuses(p) ==
    /\ mode.strict => p.stamp > devStamp
    /\ devStamp' = Counted(p)
    /\ IF Raised(p.call)
       THEN Answer(p, "error") /\ UNCHANGED refused
       ELSE /\ Answer(p, "ok")
            /\ refused' = [refused EXCEPT ![p.call] = @ \cup {<<p.try, p.idx>>}]
    /\ UNCHANGED executed

\* The answer is an error as a whole, or one the transport cannot read.
DeviceErrors(p) ==
    /\ devStamp' = Counted(p)
    /\ Answer(p, "error")
    /\ UNCHANGED <<executed, refused>>

DeviceIgnores(p) ==
    /\ p.stamp <= devStamp
    /\ UNCHANGED <<devStamp, executed, refused, reply>>

DeviceReceives(p) ==
    /\ p \in net
    /\ net' = net \ {p}
    /\ DeviceObeys(p) \/ DeviceRefuses(p) \/ DeviceErrors(p) \/ DeviceIgnores(p)
    /\ UNCHANGED <<mode, plan, clientVars, pc, got, stamp, cur, lastSent>>

DeviceClock ==
    /\ mode.clock
    /\ devStamp' \in {0, devStamp + 1} \cap Stamps
    /\ UNCHANGED <<mode, plan, clientVars, pc, got, stamp, cur, reply, net, executed,
                   refused, lastSent>>

-----------------------------------------------------------------------------
ClientStep(c) ==
    \/ Loaded(c) \/ SendFresh(c) \/ Discovered(c) \/ SendNext(c) \/ Finish(c)
    \/ ExchangeFails(c) \/ HandshakeFails(c)

StoreStep(c) ==
    StoreReads(c) \/ StoreReadFails(c) \/ StoreWrites(c) \/ StoreWriteFails(c)

Start(c) == StartDiscover(c) \/ StartUnknown(c) \/ StartCommand(c)

Next ==
    \/ \E c \in Calls : Start(c) \/ ClientStep(c) \/ StoreStep(c) \/ DeviceHello(c)
    \/ \E p \in net : DeviceReceives(p)
    \/ DeviceClock

Spec == Init /\ [][Next]_vars

\* Node.js runs a due timer or a settled promise sooner or later, and the stamp store
\* answers or rejects; nothing is assumed of the device or the network.
Fairness == \A c \in Calls : WF_vars(ClientStep(c)) /\ WF_vars(StoreStep(c))

FairSpec == Spec /\ Fairness

-----------------------------------------------------------------------------
(* Properties. *)

\* What the device has given an answer for, and what of it the transport lets pass.
Judged(c) == executed[c] \cup refused[c]
Accepted(c) == IF plan[c].op = "lenient" THEN Judged(c) ELSE executed[c]

\* A command reported as done was judged by the device, packet by packet and in one of its two
\* attempts, whatever was lost, late or answered for another packet: a property read or written
\* alone was carried out; of a bulk read and an action it may have refused any part with a code.
DoneMeansJudged ==
    \A c \in Calls : pc[c] = "ok" /\ IsCommand(c) =>
        \E t \in {1, 2} : \A i \in 1 .. plan[c].size : <<t, i>> \in Accepted(c)

\* No packet of an attempt goes out twice, and none after the device judged it: a device
\* obeys one property write at most once per attempt, twice in all.
NoPacketResent ==
    [][\A p \in net' \ net :
          /\ <<p.try, p.idx>> \notin Judged(p.call)
          /\ \A q \in net : q.call = p.call => <<q.try, q.idx>> # <<p.try, p.idx>>]_vars

\* One process whose calls follow one another, a device that counts only calls and obeys
\* no stale one, and no datagram that outlives its exchange.
OneUser ==
    /\ mode.serial /\ ~mode.strays /\ ~mode.clock /\ mode.strict
    /\ \A c, d \in Calls : Node(c) = Node(d)

\* Used by one caller at a time, a retry after a handshake is never stale to the device:
\* if it fails, the device refused it or the exchange was lost.
RetryNeverStale ==
    OneUser => \A p \in net : p.try = 2 => p.stamp > devStamp

\* Used by one caller at a time, the stamp kept after a command was done is not behind the
\* device's counter: the next command needs no handshake, whatever an earlier life of the
\* process left in the stamp store.  (With overlapping callers an older call that ends later
\* puts the stamp back; and a device that obeys a stale packet leaves a stale stamp behind.)
KeptStampNotBehind ==
    OneUser /\ Quiet => \A c \in Calls :
        pc[c] = "ok" /\ IsCommand(c) /\ stampState[Node(c)] # NoStamp =>
            stampState[Node(c)] >= devStamp

\* One caller at a time never meets a stale stamp of its own making: neither on a retry nor
\* on the next command.
StampsSound == RetryNeverStale /\ KeptStampNotBehind

\* A failure on a cached stamp, a failing stamp store included, never reaches the caller:
\* the call always goes on to a handshake of its own.
CachedFailureRetried ==
    [][\A c \in Calls : pc[c] \in {"cached", "savingCached"} => pc'[c] # "failed"]_vars

\* A retry comes when it should and repeats nothing that was carried out in its attempt.
RetriesSound == NoPacketResent /\ CachedFailureRetried

\* Every call ends, even when the device is dead and every datagram is lost.
CallSettles == \A c \in Calls : pc[c] # "new" ~> pc[c] \in Settled

\* MiotDevice implements the abstract command: judged at most once in each of two attempts, and
\* before it is reported.
StatusOf(c) ==
    IF ~IsCommand(c) \/ pc[c] = "new" THEN "new"
    ELSE IF pc[c] \in Settled THEN pc[c] ELSE "pending"

FullOf(c, pairs) == {t \in {1, 2} : \A i \in 1 .. plan[c].size : <<t, i>> \in pairs}
RunsOf(c) == FullOf(c, executed[c])
DeclinedOf(c) == FullOf(c, Accepted(c)) \ RunsOf(c)

Abstract == INSTANCE RemoteCommand WITH
    lenient <- [c \in Calls |-> plan[c].op = "lenient"],
    status <- [c \in Calls |-> StatusOf(c)],
    runs <- [c \in Calls |-> RunsOf(c)],
    declined <- [c \in Calls |-> DeclinedOf(c)]

ImplementsRemoteCommand == Abstract!Spec
=============================================================================
