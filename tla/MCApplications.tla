--------------------------- MODULE MCApplications ---------------------------
(***************************************************************************)
(* The QR manager, the dashboard and the map feeder for TLC, in five parts  *)
(* that share no state: the login of a tab, the status of its backend, the  *)
(* codes with the pages that manage them, the dashboard over that status,   *)
(* and the map feeder.  A behaviour is of one part; the others rest.        *)
(***************************************************************************)
EXTENDS UiSession, Dashboard, QrCodes, RadarMap

VARIABLE part

vars == <<part, svars, avars, dashVars, qvars, mapVars>>

-----------------------------------------------------------------------------
\* Two servers, the second with two addresses and the first sharing one of them;
\* aliases in either case; records off, hidden, of another type, without server.
Record(t, k, v) == [type |-> t, key |-> k, value |-> v, enabled |-> "yes"]
Disabled(r) == [r EXCEPT !.enabled = "no"]

MCLower == [h \in {"server1", "SERVER1", "server2", "web", "WEB", "nas", "admin"} |->
               CASE h = "SERVER1" -> "server1" [] h = "WEB" -> "web" [] OTHER -> h]
MCIndex == [h \in DOMAIN MCLower |-> CASE h \in {"server1", "SERVER1"} -> "1" [] h = "server2" -> "2" [] OTHER -> None]
MCSubnet == [v \in {"10.0.0.1", "10.0.0.2", "10.0.1.1"} |-> IF v = "10.0.1.1" THEN "10.0.1" ELSE "10.0.0"]
MCLabel == [h \in {"server1", "server2", "web", "nas", "admin"} |-> h]
MCPaths == [h \in {"nas"} |-> "/ui"]

Anchors == {<<>>,
            <<Record("A", "SERVER1", "10.0.0.1")>>,
            <<Record("A", "server1", "10.0.0.1"), Record("A", "server2", "10.0.0.1")>>,
            <<Record("A", "server2", "10.0.0.2"), Disabled(Record("A", "server1", "10.0.0.1")), Record("A", "server2", "10.0.1.1")>>}
Hosted == {<<Record("A", "nas", "10.0.0.1"), Record("CNAME", "WEB", "SERVER1"), Record("A", "admin", "10.0.0.1")>>,
             <<Record("A", "web", "10.0.0.2"), Record("A", "web", "10.0.0.2"), Record("CNAME", "nas", "server2")>>,
             <<Disabled(Record("A", "nas", "10.0.1.1")), Record("CNAME", "web", "server1"), Record("TXT", "nas", "10.0.0.1"), Record("A", "admin", "10.0.1.1")>>}
Reversed(s) == [k \in DOMAIN s |-> s[Len(s) + 1 - k]]
MCDnsRecords == {a \o s : a \in Anchors, s \in Hosted} \cup {Reversed(a \o s) : a \in {b \in Anchors : Len(b) = 3}, s \in Hosted}

\* Composites with two bright pixels, at an edge or in a corner, and one that
\* has no alpha channel; surfaces whose dots are a pixel, or three wide.
Bright(w, h, lit, n) == [p \in (0..w - 1) \X (0..h - 1) |-> [k \in 1..n |-> IF p \in lit THEN 255 - k ELSE k]]
MCGrids == {Bright(3, 2, {<<1, 0>>, <<2, 1>>}, 4), Bright(4, 3, {<<3, 1>>, <<1, 2>>}, 4), Bright(2, 2, {<<0, 0>>}, 3)}
MCSizes == {<<5, 4>>, <<620, 600>>}
MCRadii == {None, 0, 1500, 0 - 1500}

-----------------------------------------------------------------------------
SessionRests ==
    /\ blocked = FALSE /\ skewed = FALSE /\ idpSession = FALSE
    /\ page = "app" /\ asked = "nothing" /\ auth = "anonymous" /\ token = "none"
    /\ failed = FALSE /\ timer = FALSE /\ ssoAttempted = FALSE /\ futileRenewals = 0
    /\ hops = 0 /\ loggedOut = FALSE /\ place = Home /\ returnTo = Home /\ goal = Home

StatusRests == StatusInit /\ up /\ ~ hidden

DashRests == records = <<>> /\ loads = {} /\ starts = 2 /\ bar = "loading" /\ clusters = <<>>

MCInit ==
    /\ CodesInit /\ MapInit
    /\ \/ part = "session" /\ SessionInit /\ StatusRests /\ DashRests
       \/ part = "status" /\ SessionRests /\ StatusInit /\ DashRests
       \/ part = "dashboard" /\ SessionRests /\ DashInit
       \/ part \in {"codes", "map"} /\ SessionRests /\ StatusRests /\ DashRests

MCNext ==
    \/ part = "session" /\ SessionNext /\ UNCHANGED <<part, avars, dashVars, qvars, mapVars>>
    \/ part = "status" /\ StatusNext /\ UNCHANGED <<part, svars, dashVars, qvars, mapVars>>
    \/ part = "dashboard" /\ DashNext /\ UNCHANGED <<part, svars, qvars, mapVars>>
    \/ part = "codes" /\ CodesNext /\ UNCHANGED <<part, svars, avars, dashVars, mapVars>>
    \/ part = "map" /\ MapNext /\ UNCHANGED <<part, svars, avars, dashVars, qvars>>

MCSpec ==
    /\ MCInit /\ [][MCNext]_vars
    /\ SessionFairness /\ StatusFairness /\ CodesFairness
    /\ DashFairness

-----------------------------------------------------------------------------
\* The properties of the parts, each stated and explained in its module: no
\* redirect loop, signed out stays signed out and the place is kept
\* (SessionSound), no endless loading (NoLimbo), the status recovers (Recovers),
\* a label leads to its record and a code is active as it was last asked to be
\* (CodesSound), creating one comes to an end (CreateSettles), every tile leads to
\* its service, on the server it belongs to (TilesLeadHome), and an LED tells the
\* weather of its city, a picture marks every city (MapTellsTheRadar).

\* The dashboard comes back with its controller, where there is a dashboard.
DashboardComesBack == part = "dashboard" => ComesBack
=============================================================================
