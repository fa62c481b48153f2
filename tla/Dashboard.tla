----------------------------- MODULE Dashboard -----------------------------
(***************************************************************************)
(* The homelab dashboard (ui/homelab-dashboard-ui): it asks the controller   *)
(* for its DNS records once, sorts them into clusters of tiles by server,   *)
(* and shows a banner by the status of the controller, which ApiStatus      *)
(* rates and probes.                                                        *)
(*                                                                          *)
(* A host or an address is a model value; letter case, the configured       *)
(* pattern, labels and subnets are functions on them.  The order of tiles   *)
(* and clusters, colours and the search box are layout and left out.        *)
(***************************************************************************)
EXTENDS ApiStatus, Absence, Sequences, FiniteSets, FiniteSetsExt

CONSTANTS
    DnsRecords,   \* sequences of records the controller may hold
    Lower,        \* host |-> the same in lower case
    Index,        \* host |-> the server index serverPattern captures, or None
    Subnet,       \* address |-> its first three parts
    Label,        \* host |-> its first label
    exclude,      \* hosts to hide, in lower case
    paths         \* host or label |-> the path of its tile

\* A host has its forms, and an address of a record its subnet.
ASSUME DashAssumption ==
    /\ None \notin {Subnet[v] : v \in DOMAIN Subnet}
    /\ \A rs \in DnsRecords :
          /\ Len(rs) \in Nat /\ DOMAIN rs = 1..Len(rs)
          /\ \A k \in DOMAIN rs : /\ rs[k].key \in DOMAIN Index
                                  /\ rs[k].type = "A" => rs[k].value \in DOMAIN Subnet

VARIABLES
    records,    \* what the controller holds
    loads,      \* the loads under way: cancelled by the cleanup of the effect, or not
    starts,     \* runs of the effect: StrictMode runs it twice
    bar,        \* "loading", "ok", "rejected" or "error"
    clusters    \* index |-> the tiles shown under it, by the place of their record in the list

dashVars == <<records, loads, starts, bar, clusters>>

-----------------------------------------------------------------------------
Off(r) == r.enabled = "no"

\* findAnchors: where the list has records that name a server.
FindAnchors(rs) == {k \in DOMAIN rs : ~ Off(rs[k]) /\ rs[k].type = "A" /\ Index[rs[k].key] # None}

\* A Map built of some anchors that share a key: a later one replaces an earlier one.
LastIndex(rs, hits) == IF hits = {} THEN None ELSE Index[rs[Max(hits)].key]

\* resolvePath: by the whole host before its label.
ResolvePath(host) ==
    IF host \in DOMAIN paths THEN paths[host]
    ELSE IF Label[host] \in DOMAIN paths THEN paths[Label[host]] ELSE ""

Tile(r) == [hostname |-> Lower[r.key], path |-> ResolvePath(Lower[r.key])]

\* Mutant: the target of an alias is compared as it is written.
TargetAsWritten(rs, r) ==
    CASE r.type = "A" -> LastIndex(rs, {k \in FindAnchors(rs) : rs[k].value = r.value})
      [] r.type = "CNAME" -> LastIndex(rs, {k \in FindAnchors(rs) : Lower[rs[k].key] = r.value})
      [] OTHER -> None

\* The server a record leads to: by address, or an alias by the anchor's name.
Target(rs, r) ==
    CASE r.type = "A" -> LastIndex(rs, {k \in FindAnchors(rs) : rs[k].value = r.value})
      [] r.type = "CNAME" -> LastIndex(rs, {k \in FindAnchors(rs) : Lower[rs[k].key] = Lower[r.value]})
      [] OTHER -> None

Tiles(rs, services) == [k \in services |-> Tile(rs[k])]

\* assignServices: the records that lead to a server, without those that name one.
Services(rs, index) ==
    {k \in DOMAIN rs : /\ ~ Off(rs[k]) /\ Index[rs[k].key] = None
                       /\ Target(rs, rs[k]) = index
                       /\ Lower[rs[k].key] \notin exclude}

\* parseDnsRecords: the clusters that are left empty are dropped.
AssignServices(rs) ==
    LET indices == {Index[rs[k].key] : k \in FindAnchors(rs)}
    IN  [index \in {i \in indices : Services(rs, i) # {}} |-> Tiles(rs, Services(rs, index))]

\* fallbackBySubnet: a cluster per subnet, in which all may be hidden.
FallbackBySubnet(rs) ==
    LET grouped == {k \in DOMAIN rs : rs[k].type = "A" /\ ~ Off(rs[k])}
    IN  [subnet \in {Subnet[rs[k].value] : k \in grouped} |->
            Tiles(rs, {k \in grouped : Subnet[rs[k].value] = subnet /\ Lower[rs[k].key] \notin exclude})]

ParseDnsRecords(rs) == IF FindAnchors(rs) = {} THEN FallbackBySubnet(rs) ELSE AssignServices(rs)

-----------------------------------------------------------------------------
DashInit ==
    /\ StatusInit /\ records \in DnsRecords
    /\ loads = {} /\ starts = 0 /\ bar = "loading" /\ clusters = <<>>

\* The effect of App: a second run cancels the load of the first.
Load ==
    /\ starts < 2 /\ (starts = 1 => loads # {})
    /\ starts' = starts + 1
    /\ loads' = {[n |-> l.n, cancelled |-> TRUE] : l \in loads} \cup {[n |-> starts + 1, cancelled |-> FALSE]}
    /\ bar' = "loading"
    /\ UNCHANGED <<avars, records, clusters>>

\* What the controller or its proxy answers, and what fetchDnsRecords makes of it:
\* the list, or an error, and a rejected key is one of its own.
Replies == IF up THEN {"2xx"} ELSE {"none", "5xx", "401", "4xx", "2xx"}
FetchDnsRecords(code) ==
    CASE code = "401" -> "rejected" [] code = "2xx" /\ up -> "list" [] OTHER -> "error"

\* The outcome is reported, also of a load cancelled since; the rest of that is dropped.
LoadEnds ==
    /\ \E l \in loads, code \in Replies :
          /\ loads' = loads \ {l}
          /\ SetStatus(StatusForOutcome(ClassifyResponse(code)))
          /\ bar' = IF l.cancelled THEN bar ELSE IF FetchDnsRecords(code) = "list" THEN "ok" ELSE FetchDnsRecords(code)
          /\ clusters' = IF ~ l.cancelled /\ FetchDnsRecords(code) = "list" THEN ParseDnsRecords(records) ELSE clusters
    /\ UNCHANGED <<rendered, loop, delay, late, hidden, up, records, starts>>

\* The status and its probe, which asks for the records and drops them.
StatusMoves ==
    /\ \/ Connectivity \/ Render \/ Attempt \/ Answered \/ AnsweredLate
       \/ BackendChanges \/ VisibilityChanges
    /\ UNCHANGED dashVars

DashNext == Load \/ LoadEnds \/ StatusMoves

\* The app starts, and its requests end.
DashFairness == WF_<<avars, dashVars>>(starts = 0 /\ Load) /\ WF_<<avars, dashVars>>(LoadEnds)

DashSpec == DashInit /\ [][DashNext]_<<avars, dashVars>> /\ StatusFairness /\ DashFairness

-----------------------------------------------------------------------------
\* The servers a record belongs to, by its own definition.
LeadsTo(r, index) ==
    \E k \in DOMAIN records :
        LET a == records[k]
        IN  /\ ~ Off(a) /\ a.type = "A" /\ Index[a.key] = index
            /\ \/ r.type = "A" /\ r.value = a.value
               \/ r.type = "CNAME" /\ Lower[r.value] = Lower[a.key]

Anchored == \E k \in DOMAIN records : ~ Off(records[k]) /\ records[k].type = "A" /\ Index[records[k].key] # None

Wanted(r) == ~ Off(r) /\ Lower[r.key] \notin exclude /\ (Anchored => Index[r.key] = None)

Belongs(r, c) == IF Anchored THEN LeadsTo(r, c) ELSE r.type = "A" /\ Subnet[r.value] = c

Headings == ({Index[h] : h \in DOMAIN Index} \ {None}) \cup {Subnet[v] : v \in DOMAIN Subnet}
Leading == {k \in DOMAIN records : Wanted(records[k]) /\ \E c \in Headings : Belongs(records[k], c)}

\* What is on the screen is the controller's list: every tile stands for a
\* record that is on, not hidden and leads to the server it is listed under, and
\* every such record has its one tile, whatever the case of names, records held
\* twice or servers that share an address (parseDns.ts, parseDnsRecords).
TilesLeadHome ==
    bar = "ok" =>
        /\ \A c \in DOMAIN clusters : \A k \in DOMAIN clusters[c] :
              k \in Leading /\ Belongs(records[k], c) /\ clusters[c][k] = Tile(records[k])
        /\ \A k \in Leading : \E c \in DOMAIN clusters :
              \A d \in DOMAIN clusters : k \in DOMAIN clusters[d] <=> d = c

\* "This dashboard lives on an unattended screen, so it polls to notice the
\* controller coming back rather than waiting for someone to press reload"
\* (App.tsx): one that was missed and stays up is on the screen in the end.
ComesBack == Unattended /\ <>(rendered # "ok") => <>(bar = "ok")
=============================================================================
