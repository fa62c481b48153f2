---------------------------- MODULE MCEntrances ----------------------------
(***************************************************************************)
(* The two ways into an API, for TLC: requests to guarded routes, and       *)
(* commands over MQTT.  A behaviour is of one; the other rests.             *)
(*                                                                         *)
(* Requests: two methods, people with tokens of an identity provider and    *)
(* machines with an inline key; two requests that need the provider's keys, *)
(* or any beside one that does not.  At first the provider publishes the    *)
(* first key; the second may follow, and either may be retired.             *)
(*                                                                         *)
(* Messages: two commands and one poll over a link that may be lost once,  *)
(* under three configurations: MQTT notifications with a prefix that ends   *)
(* in a slash, HTTP notifications with a prefix the callers do not use, and *)
(* MQTT off.                                                                *)
(***************************************************************************)
EXTENDS ApiAuth, MqttBridge, TLC

CONSTANTS c1, c2, p1, d1

VARIABLE part

MCPayload == [c \in {c1, c2} |-> IF c = c1 THEN "set" ELSE "action"]
MCAddress == [c \in {c1, c2} |-> [prefix |-> "home", device |-> d1, leaf |-> "command"]]
Configured(enabled, prefix, http) ==
    [enabled |-> enabled, topicPrefix |-> prefix, http |-> http, mqtt |-> ~ http]
MqttOff == Configured(FALSE, "home", TRUE)
MCConfigs == {Configured(TRUE, "home/", FALSE), Configured(TRUE, "", TRUE), MqttOff}

CONSTANTS r1, r2, k1, k2, secret, stranger

Row(iss, source, algorithm, key, claim) ==
    [issuer |-> iss, audience |-> "us", source |-> source, algorithms |-> {algorithm},
     key |-> key, rolesClaim |-> claim]

\* The older row of the machines' issuer is superseded by the newer.
MCVerifiers ==
    ("IDP" :> <<Row("idp", "jwks", "RS256", "none", "roles")>>) @@
    ("MACHINE" :> <<Row("local", "value", "HS256", stranger, "scope"),
                    Row("local", "value", "HS256", secret, "scope")>>)

Authenticated(methods) == [by |-> "Authenticate", methods |-> methods]
Roles(roles) == [by |-> "RequireRoles", roles |-> roles]
Staffed == <<Roles({"admin", "staff"}), Idp>>

\* Stacks with the nearest decorator first, at the method and at the class.
Open == DevicesRoutes["getAll"]
Commanding == CommandRoutes["commandPost"]
Strict == <<<<Roles({"write"}), Authenticated(<<"MACHINE", "IDP">>)>>, Staffed>>
MachinesOnly == <<<<Authenticated(<<"MACHINE">>)>>, <<Idp>>>>
MCRoutes ==
    ServedRoutes \cup
    { Strict, MachinesOnly, <<<<[by |-> "Anonymous"]>>, Staffed>>, <<<<>>, <<Authenticated(<<"">>)>>>>,
      <<<<Authenticated(<<"OTHER">>)>>, <<Idp>>>>, <<<<Roles({}), Roles({"write"})>>, <<Idp>>>> }

Token(kid, signer, roles) ==
    [scheme |-> "bearer", parses |-> TRUE, iss |-> "idp", alg |-> "RS256", kid |-> kid,
     signer |-> signer, aud |-> "us", sub |-> TRUE, until |-> Never, roles |-> roles]
Staff == "roles" :> {"staff", "write"}
Machine == [Token(NoKid, secret, "scope" :> {"admin"}) EXCEPT !.iss = "local", !.alg = "HS256"]

IdpOffers == { Token(k1, k1, Staff), Token(k2, k2, Staff), Token(NoKid, k1, Staff) }
OneRole == { Token(k1, k1, "roles" :> {r}) : r \in {"admin", "write"} }
MCOffers ==
    IdpOffers \cup OneRole \cup
    { Machine, [Machine EXCEPT !.roles = "scope" :> {"admin", "write"}, !.until = 2],
      [Machine EXCEPT !.aud = "them"],
      [Token(k1, k1, Staff) EXCEPT !.scheme = "none"], [Token(k1, k1, Staff) EXCEPT !.parses = FALSE],
      [Machine EXCEPT !.iss = "stranger"],
      [Machine EXCEPT !.signer = stranger, !.roles = Machine.roles @@ Staff],
      [Token(k1, k1, Staff) EXCEPT !.alg = "HS256"] }

\* Where nobody needs the second key, both are published from the start.
RequestsInit ==
    LET rt(s) == Decorated(s[1], s[2])
    IN  /\ Init
        /\ publishedAt[k1] = 0 /\ route[r1] = rt(Strict)
        /\ \/ /\ publishedAt[k2] = Never /\ offer[r1] = Token(k2, k2, Staff)
              /\ \/ route[r2] = rt(Open) /\ offer[r2] = Token(NoKid, k1, Staff)
                 \/ route[r2] = rt(MachinesOnly) /\ offer[r2] = Token(k1, k1, Staff)
           \/ /\ publishedAt[k2] = 0 /\ offer[r1] = Machine
              /\ \/ route[r2] = rt(Commanding) /\ offer[r2] \in OneRole
                 \/ route[r2] = rt(Strict) /\ offer[r2] \in MCOffers \ (IdpOffers \cup OneRole)
                 \/ offer[r2] = Machine

\* Requests that rest have been answered; messages rest with MQTT switched off.
RequestsRest ==
    /\ now = MaxTime
    /\ publishedAt = [k \in Kids |-> 0] /\ retiredAt = [k \in Kids |-> 0]
    /\ keySet = [v \in Resolvers |-> {}] /\ fetchedAt = [v \in Resolvers |-> -1]
    /\ fetchSince = [v \in Resolvers |-> -1] /\ reply = [v \in Resolvers |-> <<>>]
    /\ pc = [r \in Requests |-> "answered"]
    /\ route = [r \in Requests |-> Decorated(Open[1], Open[2])] /\ offer = [r \in Requests |-> Machine]
    /\ step = [r \in Requests |-> 1] /\ failures = [r \in Requests |-> <<>>]
    /\ status = [r \in Requests |-> 500] /\ answeredAt = [r \in Requests |-> 0]
MqttRests == BridgeInit /\ config = MqttOff

MCInit ==
    \/ part = "requests" /\ RequestsInit /\ MqttRests
    \/ part = "messages" /\ RequestsRest /\ BridgeInit /\ config \in MCConfigs

RequestsNext == part = "requests" /\ Next /\ UNCHANGED <<part, bridgeVars>>
MessagesNext == part = "messages" /\ BridgeNext /\ UNCHANGED <<part, vars>>
MCNext == RequestsNext \/ MessagesNext

\* Who rests has nothing fairness could ask for.
MCSpec == MCInit /\ [][MCNext]_<<part, vars, bridgeVars>> /\ Fairness /\ BridgeFairness

=============================================================================
