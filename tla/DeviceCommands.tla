--------------------------- MODULE DeviceCommands ---------------------------
(***************************************************************************)
(* Commands and bulk reads of the miot bridge, by key.                      *)
(* SimplifiedMiotSpecV2Mapper merges a device's published specification     *)
(* with the override rows of its model into a table of keys;                *)
(* DeviceCommandService resolves what is asked against that table, sends    *)
(* packets that only know instance ids, and maps the answers back to keys.  *)
(* Rows come and go (the override handlers) while a call is on its way.     *)
(*                                                                          *)
(* A service is its name and what it publishes; a key is the name of the    *)
(* service and of the property.  The mapper awaits between two insertions,  *)
(* so of published properties with one key any may be the last.  The value  *)
(* a device answers is named by the instance id it was read at.  Stamps and *)
(* retries are MiotDevice's, descriptions and log lines are left out.       *)
(***************************************************************************)
EXTENDS Absence, Naturals, Sequences

CONSTANTS
    Specifications,   \* the specifications considered: what each service id publishes
    Rows,        \* the override rows considered
    BulkReads,   \* the bulk reads considered: sequences of keys
    Asked, Written,  \* the keys commands are for, and the values written
    MaxRows      \* bound: rows stored at a time

VARIABLES
    services,    \* the device's rawSpec
    overrides,   \* the stored rows of its model, oldest first
    command,     \* the call under way, with the table it resolved against; or None
    sent,        \* the packets of that call, oldest first
    answers,     \* what was answered: the items of the results
    ended,       \* how the call that just ended did
    reported     \* what it reported: unresolved keys, refusals and local rejections

commandVars == <<services, overrides, command, sent, answers, ended, reported>>

KeyOf(s, p) == <<services[s].name, p.key>>
SiidsWithSpec == DOMAIN services

-----------------------------------------------------------------------------
\* An action that names an input its service does not publish fails the whole mapping.
MapFails ==
    \E s \in SiidsWithSpec : \E a \in services[s].actions : \E i \in a.in :
        ~ \E p \in services[s].properties : p.piid = i

\* What may stand under each key: a published property, replaced by the youngest row
\* for that key whose service the device has.
PublishedEntries(k) ==
    UNION {{[source |-> "spec", siid |-> s, piid |-> p.piid, access |-> p.access, values |-> p.values] :
            p \in {q \in services[s].properties : KeyOf(s, q) = k}} : s \in SiidsWithSpec}
OverrideRows(rows, k) ==
    {i \in DOMAIN rows : rows[i].siid \in SiidsWithSpec /\ KeyOf(rows[i].siid, rows[i]) = k}
Entry(o) == [source |-> "override", siid |-> o.siid, piid |-> o.piid, access |-> o.access, values |-> o.values]
\* Mutant: the published property stays, the row only fills a gap.
EntriesPublishedFirst(rows, k) ==
    IF PublishedEntries(k) # {} THEN PublishedEntries(k)
    ELSE {Entry(rows[i]) : i \in OverrideRows(rows, k)}
Entries(rows, k) ==
    IF OverrideRows(rows, k) = {} THEN PublishedEntries(k)
    ELSE {Entry(rows[i]) : i \in {j \in OverrideRows(rows, k) : \A h \in OverrideRows(rows, k) : h <= j}}

Keys == UNION {{KeyOf(s, p) : p \in services[s].properties} : s \in SiidsWithSpec}
        \cup {KeyOf(overrides[i].siid, overrides[i]) : i \in {j \in DOMAIN overrides : overrides[j].siid \in SiidsWithSpec}}
\* The tables one mapping may yield.
Tables == {t \in [Keys -> UNION {Entries(overrides, k) : k \in Keys}] : \A k \in Keys : t[k] \in Entries(overrides, k)}
ActionsOf == UNION {{[key |-> KeyOf(s, a), siid |-> s, aiid |-> a.aiid] : a \in services[s].actions} : s \in SiidsWithSpec}

-----------------------------------------------------------------------------
CommandsInit ==
    /\ services \in Specifications /\ overrides = <<>>
    /\ command = None /\ sent = <<>> /\ answers = <<>> /\ ended = None /\ reported = {}

\* What the last call left behind is read as it ends, and cleared by the next step.
Cleared == IF command # None THEN UNCHANGED <<sent, answers, ended, reported>>
           ELSE sent' = <<>> /\ answers' = <<>> /\ ended' = None /\ reported' = {}

\* The override handlers: a row is added as it is, or deleted by its id.
CreateOverride(r) ==
    /\ Len(overrides) < MaxRows
    /\ overrides' = Append(overrides, r)
    /\ Cleared /\ UNCHANGED <<services, command>>

DeleteOverride(i) ==
    /\ i \in DOMAIN overrides
    /\ overrides' = SubSeq(overrides, 1, i - 1) \o SubSeq(overrides, i + 1, Len(overrides))
    /\ Cleared /\ UNCHANGED <<services, command>>

\* A call: what it does, the table it resolved against and the rows that made it, its keys,
\* the value it writes, and the instance ids it is for where they are known beforehand.
Call(op, t, keys, v, iid) == [op |-> op, table |-> t, rows |-> overrides, props |-> keys, value |-> v, iid |-> iid]
Begins(c) == command' = c /\ sent' = <<>> /\ answers' = <<>> /\ ended' = None
FailsAs(why) == command' = None /\ sent' = <<>> /\ answers' = <<>> /\ ended' = [kind |-> why]

\* A call whose specification does not map sends nothing.
MappingThrows ==
    /\ command = None /\ MapFails
    /\ FailsAs("error") /\ reported' = {}
    /\ UNCHANGED <<services, overrides>>

\* getProperties: what resolves is read, one packet each; what does not is reported.
Resolvable(t, keys) == SelectSeq(keys, LAMBDA k : k \in DOMAIN t)
GetProperties(keys) ==
    /\ command = None /\ ~ MapFails
    /\ \E t \in Tables :
          /\ reported' = {<<"unresolved", k>> : k \in {keys[i] : i \in DOMAIN keys} \ DOMAIN t}
          /\ IF Resolvable(t, keys) = <<>> THEN FailsAs("nothing_read")
             ELSE Begins(Call("read", t, Resolvable(t, keys), None, None))
    /\ UNCHANGED <<services, overrides>>

\* resolveCommand: by the access and the values the table allows.
Listed(e, v) == v \in e.values
Allowed(op, e, v) ==
    \/ op = "get" /\ e.access \cap {"READ", "NOTIFY"} # {}
    \/ op = "set" /\ "WRITE" \in e.access /\ Listed(e, v)
MiotMethodOf(op) ==
    CASE op = "set" -> "set_properties" [] op = "action" -> "action" [] op \in {"get", "read"} -> "get_properties"

Execute(op, k, v) ==
    /\ command = None /\ ~ MapFails
    /\ \E t \in Tables :
          LET acts == {a \in ActionsOf : a.key = k}
              ok == IF op = "action" THEN acts # {} ELSE k \in DOMAIN t /\ Allowed(op, t[k], v)
          IN
          \/ ok /\ op # "action" /\ Begins(Call(op, t, <<k>>, IF op = "set" THEN v ELSE None, None)) /\ reported' = {}
          \/ ok /\ op = "action" /\ reported' = {}
                /\ \E a \in acts : Begins(Call(op, t, <<k>>, None, <<a.siid, a.aiid>>))
          \/ ~ ok /\ FailsAs("bad_request") /\ reported' = {<<"rejected_locally", MiotMethodOf(op)>>}
    /\ UNCHANGED <<services, overrides>>

\* executeRaw: the instance ids are the request's, and only their presence is checked.
ExecuteRaw(op, s, i) ==
    /\ command = None
    /\ IF i = None THEN FailsAs("bad_request")
       ELSE Begins(Call(op, [k \in {} |-> None], <<None>>, None, <<s, i>>))
    /\ reported' = {}
    /\ UNCHANGED <<services, overrides>>

-----------------------------------------------------------------------------
\* The packet for the next property: its instance ids, and the value of a write.
InstanceIds(e) == <<e.siid, e.piid>>
Packet(c, n) == [method |-> MiotMethodOf(c.op), value |-> c.value,
                 iid |-> IF c.iid = None THEN InstanceIds(c.table[c.props[n]]) ELSE c.iid]

\* It is answered with an item, a refused item (codes 1, 2), or none.
Answer(p, code) == [iid |-> p.iid, code |-> code, value |-> IF code = 0 THEN p.iid ELSE None]
PacketAnswered(code) ==
    LET p == Packet(command, Len(sent) + 1) IN
    /\ command # None /\ Len(sent) < Len(command.props)
    /\ sent' = Append(sent, p)
    /\ answers' = IF code = None THEN answers
                  ELSE Append(answers, Answer(p, code))
    /\ UNCHANGED <<services, overrides, command, ended, reported>>

\* Nothing comes, or the device refuses the call: that of one property refuses it, too.
Provenance(c) == IF c.op \in {"get", "set"} /\ c.iid = None
                 THEN {<<"refused", c.props[1], c.table[c.props[1]].source>>} ELSE {}
PacketUnanswered(deviceError) ==
    /\ command # None /\ Len(sent) < Len(command.props)
    /\ FailsAs("error")
    /\ reported' = reported \cup (IF deviceError THEN Provenance(command) ELSE {})
    /\ UNCHANGED <<services, overrides>>

\* The answer to one property is the item with its instance ids, if there is one.
MISSING == 9   \* MIOT_PROPERTY_CODE_MISSING
Missing == [code |-> MISSING, value |-> None]
Result(c, n) ==
    LET found == {i \in DOMAIN answers : answers[i].iid = Packet(c, n).iid}
        first == CHOOSE i \in found : \A j \in found : i <= j
    IN IF found = {} THEN Missing ELSE [code |-> answers[first].code, value |-> answers[first].value]

\* The read is over: a result for each key, and each refusal with its provenance.
ReadEnds ==
    /\ command # None /\ command.op = "read" /\ Len(sent) = Len(command.props)
    /\ ended' = [kind |-> "results", table |-> command.table,
                   of |-> {[key |-> command.props[n], result |-> Result(command, n)] : n \in DOMAIN command.props}]
    /\ reported' = reported \cup
          {<<"refused", command.props[n], command.table[command.props[n]].source>> :
              n \in {m \in DOMAIN command.props : Result(command, m).code # 0}}
    /\ command' = None /\ UNCHANGED <<services, overrides, sent, answers>>

\* A command for one property fails unless its item says 0; an action is done once it
\* is answered.
CommandEnds ==
    LET done == command.op = "action" \/ Result(command, 1).code = 0 IN
    /\ command # None /\ command.op # "read" /\ Len(sent) = 1
    /\ ended' = IF done THEN [kind |-> command.op, rows |-> command.rows, key |-> command.props[1],
                             iid |-> sent[1].iid, written |-> sent[1].value]
                  ELSE [kind |-> "error"]
    /\ reported' = reported \cup (IF done THEN {} ELSE Provenance(command))
    /\ command' = None /\ UNCHANGED <<services, overrides, sent, answers>>

CommandsNext ==
    \/ \E r \in Rows : CreateOverride(r)
    \/ \E i \in 1..MaxRows : DeleteOverride(i)
    \/ MappingThrows
    \/ \E keys \in BulkReads : GetProperties(keys)
    \/ \E op \in {"get", "set", "action"}, k \in Asked, v \in Written : Execute(op, k, v)
    \/ \E op \in {"get", "set", "action"}, s \in SiidsWithSpec, i \in {None, 1} : ExecuteRaw(op, s, i)
    \/ \E code \in {0, 1, None} : PacketAnswered(code)
    \/ \E refused \in BOOLEAN : PacketUnanswered(refused)
    \/ ReadEnds \/ CommandEnds

CommandsSpec == CommandsInit /\ [][CommandsNext]_commandVars

-----------------------------------------------------------------------------
\* What a key stands for, said once more and without the order of the mapper: the
\* youngest row for it, else a property published under it.
Means(rows, k, iid, op, v) ==
    LET forK == {i \in DOMAIN rows : rows[i].siid \in SiidsWithSpec /\ KeyOf(rows[i].siid, rows[i]) = k}
        permits(e) == op = "set" => "WRITE" \in e.access /\ v \in e.values
    IN IF forK # {}
       THEN LET o == rows[CHOOSE i \in forK : \A j \in forK : j <= i] IN iid = <<o.siid, o.piid>> /\ permits(o)
       ELSE \E s \in SiidsWithSpec : \E p \in services[s].properties :
               KeyOf(s, p) = k /\ iid = <<s, p.piid>> /\ permits(p)

Over(kinds) == ended # None /\ ended.kind \in kinds

\* A key reaches its property (SimplifiedMiotSpecV2Mapper.ts:14, DeviceCommandService.ts:93):
\* a command on a key was carried out at the property the youngest row names, with a value
\* and an access that row allows - never those of the published property it replaced - and
\* each result of a bulk read is what the device answered for the property of that very
\* key, whatever it refused, left out or answers elsewhere, while rows come and go; and
\* whatever was refused is reported with where its entry came from.
KeysReachTheirProperties ==
    /\ Over({"get", "set"}) =>
          ended.key = None \/ Means(ended.rows, ended.key, ended.iid, ended.kind, ended.written)
    /\ Over({"results"}) => \A r \in ended.of :
          /\ r.result.code = 0 => r.result.value = InstanceIds(ended.table[r.key])
          /\ r.result.code # 0 <=> <<"refused", r.key, ended.table[r.key].source>> \in reported
=============================================================================
