---------------------------- MODULE MCBridgeParts ----------------------------
(***************************************************************************)
(* Parts of the bridge that share no state, for TLC: its registered devices *)
(* and their pool, its telemetry, commands and bulk reads by key, the       *)
(* exchange of datagrams below them, and the clients of external APIs.  A   *)
(* behaviour is of one part; the others rest.                               *)
(***************************************************************************)
EXTENDS DeviceStore, Exchange, DeviceCommands, HttpProvider, Telemetry, TLC

CONSTANTS p1, p2, p3, x1, x2, c1, c2, d1, d2, a1, a2

VARIABLE part

allVars == <<part, vars, telemetryVars, commandVars, exchangeVars, httpVars>>

-----------------------------------------------------------------------------
\* One device registered at two addresses, another one at the first of them; two commands by
\* deviceId.
MCdevice == p1 :> d1 @@ p2 :> d1 @@ p3 :> d2
MCaddress == p1 :> a1 @@ p2 :> a2 @@ p3 :> a1
MCtarget == x1 :> p1 @@ x2 :> p3
MCselects == c1 :> {p1, p2} @@ c2 :> {p1, p2}

\* Two services that share the name "a" in some specifications, an action whose input is
\* not always published, and rows that replace a property, add one, or fit no service.
RW == {"READ", "WRITE"}
On == [piid |-> 1, key |-> "on", access |-> RW, values |-> {}]
Mode == [piid |-> 2, key |-> "mode", access |-> RW, values |-> {0, 1}]
Beep == [aiid |-> 1, key |-> "beep", in |-> {2}]
Service(n, ps, as) == [name |-> n, properties |-> ps, actions |-> as]
MCSpecifications == {<<Service("a", ps, {Beep}), Service(n, {On}, {})>> : ps \in {{On}, {On, Mode}}, n \in {"a", "b"}}

Row(s, p, k, acc, vs) == [siid |-> s, piid |-> p, key |-> k, access |-> acc, values |-> vs]
MCRows == {Row(1, 3, "mode", {"WRITE"}, {1}), Row(1, 3, "on", RW, {0}), Row(2, 2, "on", RW, {1}), Row(3, 1, "on", RW, {0})}
MCReads == {<<<<"a", "on">>, <<"a", "mode">>, <<"b", "on">>>>}
MCAsked == {<<"a", "on">>, <<"a", "mode">>, <<"a", "beep">>}

\* An API behind a token exchange with everything configured, and a plain one.
MCConfig == [guarded |-> [transport |-> TRUE, exchange |-> TRUE, breaker |-> TRUE, timeout |-> TRUE, retries |-> 1],
             plain |-> [transport |-> FALSE, exchange |-> FALSE, breaker |-> FALSE, timeout |-> FALSE, retries |-> 0]]

-----------------------------------------------------------------------------
CommandsRest == CommandsInit /\ services = CHOOSE s \in Specifications : TRUE
ExchangeRests == ExchangeInit /\ token = DeviceToken
StoreRests == Init /\ backend = "mongo"

MCInit ==
    /\ part \in {"store", "pool", "telemetry", "commands", "exchange", "http"}
    /\ TelemetryInit /\ HttpInit
    /\ IF part \in {"store", "pool"} THEN Init ELSE StoreRests
    /\ IF part = "commands" THEN CommandsInit ELSE CommandsRest
    /\ IF part = "exchange" THEN ExchangeInit ELSE ExchangeRests

\* Overlapping changes without commands, and commands beside the changes of one device.
Waits(requests) == \A r \in requests : pc'[r] = "new"
StoreNext ==
    /\ part \in {"store", "pool"} /\ Next
    /\ Waits(IF part = "store" THEN Commands ELSE {p3, x2})
    /\ UNCHANGED <<part, telemetryVars, commandVars, exchangeVars, httpVars>>
TracingNext == part = "telemetry" /\ TelemetryNext /\ UNCHANGED <<part, vars, commandVars, exchangeVars, httpVars>>
KeysNext == part = "commands" /\ CommandsNext /\ UNCHANGED <<part, vars, telemetryVars, exchangeVars, httpVars>>
DatagramsNext == part = "exchange" /\ ExchangeNext /\ UNCHANGED <<part, vars, telemetryVars, commandVars, httpVars>>
ClientsNext == part = "http" /\ HttpNext /\ UNCHANGED <<part, vars, telemetryVars, commandVars, exchangeVars>>

MCNext == StoreNext \/ TracingNext \/ KeysNext \/ DatagramsNext \/ ClientsNext

MCSpec == MCInit /\ [][MCNext]_allVars

-----------------------------------------------------------------------------
\* The properties of the parts are stated and explained in their modules: what overlapping
\* changes leave of the device storage (LoneChangesHold, StaleOnlyByDeletion), what happens is
\* counted, and traced as it happened (TelemetrySound), a key reaches its property
\* (KeysReachTheirProperties), the verdict on a call to a device is what the device answered
\* (VerdictIsTrue), and the failure of a request to an external API is named after its cause
\* (FailureNamesItsCause).
=============================================================================
