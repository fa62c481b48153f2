----------------------------- MODULE MqttBridge -----------------------------
(***************************************************************************)
(* The bridge's MQTT side: the client that connects at startup and          *)
(* reconnects for ever (providers/MqttClientProvider.ts), the listener that *)
(* turns command messages into device commands and publishes the answers    *)
(* (services/MqttListenerService.ts), the dispatcher that tells HTTP and    *)
(* MQTT consumers about observed values (NotificationDispatchService.ts),   *)
(* and the topics (MqttTopicService.ts).                                    *)
(*                                                                          *)
(* mqtt.js and the broker are external: clean sessions, publishes of QoS 1  *)
(* kept in order and sent again after a reconnect until acknowledged.       *)
(* Whether a device command succeeds is left open; its value is its name.   *)
(***************************************************************************)
EXTENDS Integers, Sequences

CONSTANTS
    Commands,          \* command messages
    Payload,           \* what it carries: "get", "set", "action", or nonsense
    Address,           \* the topic it is sent to: [prefix, device, leaf]
    Polls,             \* values observed by the poller, none of them a command
    Devices,           \* the topic levels that are numbers
    MAX_STARTUP_ERRORS,
    MaxDrops           \* bound: how often the link is lost

ASSUME BridgeAssumption == MAX_STARTUP_ERRORS \in Nat \ {0} /\ MaxDrops \in Nat

VARIABLES
    config,      \* mqtt.enabled, mqtt.topicPrefix, and the two notifications switches
    boot,        \* the provider's promise: "starting", "ready" or "failed"
    errors,      \* startupErrorCount
    connected, drops,
    destroyed,   \* $onDestroy has ended the client
    listening,   \* the listener has registered its handlers
    asked,       \* a SUBSCRIBE is on its way
    subscribed,  \* the broker has the subscription of this connection
    deniedIn,    \* history: the last connection (drops) whose SUBSCRIBE failed, or -1
    at,          \* where a command is
    outbox,      \* publishes not acknowledged yet, in order
    sent,        \* how many of them went out over this connection
    seen,        \* what the broker received
    posts,       \* HTTP notifications under way
    observed     \* the values dispatched, in order

link == <<boot, errors, connected, drops, destroyed, listening, asked, subscribed, deniedIn>>
out == <<outbox, sent, seen>>
bridgeVars == <<config, link, at, out, posts, observed>>

-----------------------------------------------------------------------------
\* Topics.

\* Trailing slashes of the configured prefix are dropped.
GetPrefix == IF config.topicPrefix = "home/" THEN "home" ELSE config.topicPrefix

Build(device, leaf) == [prefix |-> GetPrefix, device |-> device, leaf |-> leaf]

\* A device the topic's number names, or nobody.
ExtractDeviceId(topic) ==
    IF topic = Build(topic.device, "command") /\ topic.device \in Devices
    THEN {topic.device} ELSE {}

-----------------------------------------------------------------------------
BridgeInit ==
    /\ config \in [enabled : BOOLEAN, topicPrefix : {"", "home", "home/"},
                   http : BOOLEAN, mqtt : BOOLEAN]
    /\ boot = IF config.enabled THEN "starting" ELSE "ready"
    /\ errors = 0 /\ connected = FALSE /\ drops = 0 /\ destroyed = FALSE
    /\ listening = FALSE /\ asked = FALSE /\ subscribed = FALSE /\ deniedIn = -1
    /\ at = [c \in Commands |-> "unsent"]
    /\ outbox = <<>> /\ sent = 0 /\ seen = <<>>
    /\ posts = {} /\ observed = <<>>

\* The readiness check: a feature switched off is not a failure.
MqttHealthy == ~ config.enabled \/ connected

-----------------------------------------------------------------------------
\* The link.

\* Mutant: only the start of the listener asks for the subscription.
ConnectUnsubscribed ==
    /\ config.enabled /\ ~ connected /\ boot # "failed" /\ ~ destroyed
    /\ connected' = TRUE /\ boot' = "ready"
    /\ UNCHANGED <<config, errors, drops, destroyed, listening, asked, subscribed, deniedIn,
                   at, out, posts, observed>>

\* The first connect resolves the promise; once the listener is there, every
\* connect asks for the subscription again.
Connect ==
    /\ config.enabled /\ ~ connected /\ boot # "failed" /\ ~ destroyed
    /\ connected' = TRUE /\ boot' = "ready"
    /\ asked' = listening
    /\ UNCHANGED <<config, errors, drops, destroyed, listening, subscribed, deniedIn,
                   at, out, posts, observed>>

\* Only before the promise has settled do errors count.
ConnectError ==
    /\ config.enabled /\ ~ connected /\ boot = "starting" /\ ~ destroyed
    /\ errors' = errors + 1
    /\ boot' = IF errors' >= MAX_STARTUP_ERRORS THEN "failed" ELSE boot
    /\ UNCHANGED <<config, connected, drops, destroyed, listening, asked, subscribed, deniedIn,
                   at, out, posts, observed>>

\* The connection is lost, with the session the broker kept for it and the
\* command messages on their way.
Drop ==
    /\ connected /\ drops < MaxDrops
    /\ drops' = drops + 1
    /\ connected' = FALSE /\ asked' = FALSE /\ subscribed' = FALSE /\ sent' = 0
    /\ at' = [c \in Commands |-> IF at[c] = "flying" THEN "lost" ELSE at[c]]
    /\ UNCHANGED <<config, boot, errors, destroyed, listening, deniedIn, outbox, seen,
                   posts, observed>>

\* $onInit of the listener, after the provider has resolved.
Start ==
    /\ config.enabled /\ boot = "ready" /\ ~ listening /\ ~ destroyed
    /\ listening' = TRUE /\ asked' = connected
    /\ UNCHANGED <<config, boot, errors, connected, drops, destroyed, subscribed, deniedIn,
                   at, out, posts, observed>>

\* The broker accepts the subscription.
Subscribed ==
    /\ connected /\ asked
    /\ asked' = FALSE /\ subscribed' = TRUE
    /\ UNCHANGED <<config, boot, errors, connected, drops, destroyed, listening, deniedIn,
                   at, out, posts, observed>>

\* It does not: the client logs that, and stays connected without a subscription.
SubscribeFails ==
    /\ connected /\ asked
    /\ asked' = FALSE /\ deniedIn' = drops
    /\ UNCHANGED <<config, boot, errors, connected, drops, destroyed, listening, subscribed,
                   at, out, posts, observed>>

Destroy ==
    /\ boot = "ready" /\ ~ destroyed
    /\ destroyed' = TRUE /\ connected' = FALSE /\ asked' = FALSE /\ subscribed' = FALSE /\ sent' = 0
    /\ at' = [c \in Commands |-> IF at[c] = "flying" THEN "lost" ELSE at[c]]
    /\ UNCHANGED <<config, boot, errors, drops, listening, deniedIn, outbox, seen,
                   posts, observed>>

-----------------------------------------------------------------------------
\* Publishing.

\* Mutant: what is published while the link is down is given up.
PublishAsyncOnline(packets) == outbox' = IF connected THEN outbox \o packets ELSE outbox

\* publishAsync: kept until acknowledged, unless the client has been ended.
PublishAsync(packets) == outbox' = IF destroyed \/ ~ config.enabled THEN outbox ELSE outbox \o packets

Notification(value) == [kind |-> "notification", of |-> value]
Answer(c, text) == [kind |-> "answer", of |-> c, text |-> text]

\* NotificationDispatchService.receive: both sinks are told without waiting.
Receive(value) ==
    /\ observed' = Append(observed, value)
    /\ posts' = IF config.http THEN posts \cup {value} ELSE posts
    /\ PublishAsync(IF config.mqtt THEN <<Notification(value)>> ELSE <<>>)

PollObserves(p) ==
    /\ p \notin {observed[i] : i \in DOMAIN observed} /\ ~ destroyed /\ boot = "ready"
    /\ Receive(p)
    /\ UNCHANGED <<config, link, at, sent, seen>>

\* An HTTP notification arrives or fails; either way that is all.
PostEnds(value) ==
    /\ value \in posts
    /\ posts' = posts \ {value}
    /\ UNCHANGED <<config, link, at, out, observed>>

\* A packet goes out; the acknowledgement may be lost with the link.
Transmit ==
    /\ connected /\ sent < Len(outbox)
    /\ sent' = sent + 1
    /\ seen' = Append(seen, outbox[sent + 1])
    /\ UNCHANGED <<config, link, at, outbox, posts, observed>>

Acknowledged ==
    /\ connected /\ sent > 0
    /\ outbox' = Tail(outbox) /\ sent' = sent - 1
    /\ UNCHANGED <<config, link, at, seen, posts, observed>>

-----------------------------------------------------------------------------
\* Commands.

\* A caller publishes a command; what no subscription matches the broker drops.
Send(c) ==
    /\ at[c] = "unsent"
    /\ at' = [at EXCEPT ![c] =
           IF subscribed /\ Address[c] = Build(Address[c].device, "command") THEN "flying" ELSE "lost"]
    /\ UNCHANGED <<config, link, out, posts, observed>>

\* Mutant: an action is not answered, since it has no value.
MessageWithoutValue(c) ==
    /\ at[c] = "flying"
    /\ at' = [at EXCEPT ![c] =
           IF ExtractDeviceId(Address[c]) = {} \/ Payload[c] \in {"empty", "action"} THEN "ignored"
           ELSE IF Payload[c] \in {"notJson", "badShape"} THEN "refused" ELSE "running"]
    /\ UNCHANGED <<config, link, out, posts, observed>>

\* The 'message' handler, up to the execution of the command: a topic of no
\* device and an empty payload are ignored, nonsense is refused.
Message(c) ==
    /\ at[c] = "flying"
    /\ at' = [at EXCEPT ![c] =
           IF ExtractDeviceId(Address[c]) = {} \/ Payload[c] = "empty" THEN "ignored"
           ELSE IF Payload[c] \in {"notJson", "badShape"} THEN "refused" ELSE "running"]
    /\ UNCHANGED <<config, link, out, posts, observed>>

\* Mutant: the value of a command is not dispatched.
ExecutesQuietly(c) ==
    /\ at[c] = "running"
    /\ at' = [at EXCEPT ![c] = "done"]
    /\ UNCHANGED <<config, link, out, posts, observed>>

\* The command has been carried out; a value that was read or written is
\* dispatched before execute returns.
Executes(c) ==
    /\ at[c] = "running"
    /\ at' = [at EXCEPT ![c] = "done"]
    /\ IF Payload[c] = "action" THEN UNCHANGED <<out, posts, observed>>
       ELSE Receive(c) /\ UNCHANGED <<sent, seen>>
    /\ UNCHANGED <<config, link>>

ExecuteFails(c) ==
    /\ at[c] = "running"
    /\ at' = [at EXCEPT ![c] = "refused"]
    /\ UNCHANGED <<config, link, out, posts, observed>>

\* What handleMessage returns: the value of a get only.
Response(c) ==
    IF at[c] = "refused" THEN "error" ELSE IF Payload[c] = "get" THEN "value" ELSE ""

\* publishResponse; one that cannot be published is logged and given up.
Respond(c) ==
    /\ at[c] \in {"done", "refused"}
    /\ at' = [at EXCEPT ![c] = "answered"]
    /\ PublishAsync(<<Answer(c, Response(c))>>)
    /\ UNCHANGED <<config, link, sent, seen, posts, observed>>

-----------------------------------------------------------------------------
BridgeNext ==
    \/ Connect \/ ConnectError \/ Drop \/ Start \/ Subscribed \/ SubscribeFails \/ Destroy
    \/ Transmit \/ Acknowledged
    \/ \E p \in Polls : PollObserves(p)
    \/ \E v \in Polls \cup Commands : PostEnds(v)
    \/ \E c \in Commands : Send(c) \/ Message(c) \/ Executes(c) \/ ExecuteFails(c) \/ Respond(c)

\* The client reconnects by itself, and the broker answers a SUBSCRIBE one way or
\* the other and acknowledges what is published; a device command ends, as
\* MiotDevice shows.
BridgeFairness ==
    /\ WF_bridgeVars(Connect) /\ WF_bridgeVars(Start) /\ WF_bridgeVars(Subscribed \/ SubscribeFails)
    /\ WF_bridgeVars(Transmit) /\ WF_bridgeVars(Acknowledged)
    /\ \A c \in Commands :
           WF_bridgeVars(Message(c)) /\ WF_bridgeVars(Executes(c) \/ ExecuteFails(c)) /\ WF_bridgeVars(Respond(c))

BridgeSpec == BridgeInit /\ [][BridgeNext]_bridgeVars
BridgeFairSpec == BridgeSpec /\ BridgeFairness
-----------------------------------------------------------------------------
Values == Polls \cup Commands
Packet ==
    [kind : {"notification"}, of : Values] \cup
    [kind : {"answer"}, of : Commands, text : {"", "value", "error"}]

BridgeTypeOK ==
    /\ config \in [enabled : BOOLEAN, topicPrefix : {"", "home", "home/"}, http : BOOLEAN, mqtt : BOOLEAN]
    /\ boot \in {"starting", "ready", "failed"} /\ errors \in 0..MAX_STARTUP_ERRORS
    /\ connected \in BOOLEAN /\ destroyed \in BOOLEAN /\ listening \in BOOLEAN
    /\ asked \in BOOLEAN /\ subscribed \in BOOLEAN /\ drops \in 0..MaxDrops
    /\ deniedIn \in -1..MaxDrops
    /\ at \in [Commands -> {"unsent", "flying", "lost", "ignored", "running", "done",
                             "refused", "answered"}]
    /\ outbox \in Seq(Packet) /\ sent \in 0..Len(outbox) /\ seen \in Seq(Packet)
    /\ posts \subseteq Values /\ observed \in Seq(Values)

AnsweredIn(c) == {i \in DOMAIN seen : seen[i].kind = "answer" /\ seen[i].of = c}

\* Whoever reads the answer to a get or a set finds that the consumers of the
\* notifications have the value already, however often the link was lost in
\* between (DeviceCommandService.execute, publishResponse).
NotifiedBeforeAnswered ==
    config.mqtt => \A c \in Commands : \A i \in AnsweredIn(c) :
        seen[i].text # "error" /\ Payload[c] # "action" => \E j \in 1..i : seen[j] = Notification(c)

\* The bridge is deaf for good only where the broker would not have it: after every
\* loss it is connected, healthy and, by a SUBSCRIBE of its own, heard again, unless
\* that very SUBSCRIBE was refused.  An earlier refusal does not count, and nothing but
\* the end of the process gives up a client that once was connected ("simply stops
\* receiving commands", MqttListenerService.ts:65; MqttClientProvider.ts:56).
Denied == connected /\ deniedIn = drops
Hears == MqttHealthy /\ (config.enabled => subscribed)
NeverDeaf == []<>(Hears \/ Denied \/ destroyed \/ (boot = "failed" /\ ~ listening))

\* Every command of a device that reaches the bridge and says something is
\* answered, whatever it says and however it ends, also through lost links.
Deserves(c) == at[c] = "flying" /\ Payload[c] # "empty" /\ ExtractDeviceId(Address[c]) # {}
EveryCommandAnswered ==
    \A c \in Commands : Deserves(c) ~> (AnsweredIn(c) # {} \/ at[c] = "lost" \/ destroyed)

\* An MQTT consumer ends up with the value observed last, although packets are
\* repeated and values come from polls and commands at once.
Told == {i \in DOMAIN seen : seen[i].kind = "notification"}
ConsumerCurrent ==
    \/ destroyed \/ ~ config.mqtt \/ ~ config.enabled \/ observed = <<>> \/ boot = "failed"
    \/ /\ Told # {}
       /\ seen[CHOOSE i \in Told : \A j \in Told : j <= i].of = observed[Len(observed)]
MqttConsumerCurrent == <>[]ConsumerCurrent
=============================================================================
