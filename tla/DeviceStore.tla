----------------------------- MODULE DeviceStore -----------------------------
(***************************************************************************)
(* The registered devices of the miot-bridge-api: DevicePostHandler,       *)
(* DeviceDeleteHandler and the commands of DeviceCommandService over the   *)
(* two backends of DeviceStorageService, and the pool of MiotDevice        *)
(* instances in MiotDeviceRegistry.                                        *)
(*                                                                         *)
(* The file backend reads the whole file, changes the list and overwrites  *)
(* the file in place, with awaits in between and nothing that keeps two    *)
(* requests apart; a file that is being written does not parse, and two    *)
(* writes at once may leave a mixture.  MongoDB, the devices and the       *)
(* mappers are external.                                                   *)
(***************************************************************************)
EXTENDS Naturals

CONSTANTS
    Posts,      \* POST requests, each made at most once; also the record each would store
    Deletes,    \* DELETE requests, each made at most once
    Commands,   \* commands and bulk reads, each made at most once
    Devices,
    Addresses,
    device,     \* device[p]: the device that answers the discovery of p
    address,    \* address[p]: request.address
    target,     \* target[x]: the record x deletes
    selects,    \* selects[c]: the records c asks for, by deviceId or by id
    Backends    \* the backends considered

Requests == Posts \cup Deletes \cup Commands

ASSUME StoreAssumption ==
    /\ device \in [Posts -> Devices] /\ address \in [Posts -> Addresses]
    /\ target \in [Deletes -> Posts] /\ selects \in [Commands -> SUBSET Posts]
    /\ Backends \subseteq {"file", "mongo"}
    /\ Posts \cap Deletes = {} /\ Posts \cap Commands = {} /\ Deletes \cap Commands = {}
    /\ "none" \notin Posts \cup Addresses

VARIABLES
    backend,    \* the active backend
    rows,       \* the stored records, for a file what it held when last written in full
    file,       \* the file is "whole", "empty" (truncated), or "garbled"
    stored,     \* history: the records that ever were stored
    gone,       \* history: the records deletions took out
    met,        \* history: the pairs of changes that were under way at once
    broken,     \* history: a write of the file was cut short
    instance,   \* instance[d]: the address of d's MiotDevice in the registry
    pc,         \* pc[r]: the await r is at, or its outcome
    snapshot,   \* snapshot[r]: the list a change of the file read
    record,     \* record[c]: the record a command found
    sentTo      \* sentTo[c]: the address of the instance it used

storeVars == <<rows, file, stored, gone, met, broken>>
vars == <<backend, storeVars, instance, pc, snapshot, record, sentTo>>

Changes == Posts \cup Deletes
Outcomes == {"done", "refused", "failed"}
UnderWay(r) == pc[r] \notin Outcomes \cup {"new"}

TypeOK ==
    /\ backend \in Backends
    /\ rows \subseteq Posts /\ stored \subseteq Posts /\ gone \subseteq Posts
    /\ file \in {"whole", "empty", "garbled"} /\ (backend = "mongo" => file = "whole")
    /\ met \subseteq SUBSET Changes /\ broken \in BOOLEAN
    /\ instance \in [Devices -> Addresses \cup {"none"}]
    /\ pc \in [Requests -> Outcomes \cup {"new", "check", "notifications", "store", "write",
                                          "writing", "send"}]
    /\ snapshot \in [Requests -> SUBSET Posts]
    /\ record \in [Commands -> Posts \cup {"none"}]
    /\ \A c \in Commands :
          /\ pc[c] \in Outcomes \cup {"new", "send"}
          /\ pc[c] \in {"send", "done"} => record[c] \in Posts
    /\ sentTo \in [Commands -> Addresses \cup {"none"}]

Init ==
    /\ backend \in Backends
    /\ rows = {} /\ file = "whole" /\ stored = {} /\ gone = {} /\ met = {} /\ broken = FALSE
    /\ instance = [d \in Devices |-> "none"]
    /\ pc = [r \in Requests |-> "new"]
    /\ snapshot = [r \in Requests |-> {}]
    /\ record = [c \in Commands |-> "none"]
    /\ sentTo = [c \in Commands |-> "none"]

At(r, stage) == pc' = [pc EXCEPT ![r] = stage]

\* The change r meets those under way.
Meets(r) == met' = met \cup {{r, q} : q \in {q \in Changes : UnderWay(q)}}

-----------------------------------------------------------------------------
(* DevicePostHandler.execute and DeviceDeleteHandler.execute               *)

\* discover: the device answers and its spec is fetched; the storage is asked from now on.
PostDiscovers(p) ==
    /\ pc[p] = "new"
    /\ Meets(p)
    /\ At(p, "check")
    /\ UNCHANGED <<backend, rows, file, stored, gone, broken, instance, snapshot, record, sentTo>>

\* Mutant of PostChecks: nobody asks whether the device is registered.
PostTrusts(p) ==
    /\ pc[p] = "check" /\ file = "whole"
    /\ At(p, "store")
    /\ UNCHANGED <<backend, storeVars, instance, snapshot, record, sentTo>>

\* getByDeviceId: a device that is registered is a conflict.
PostChecks(p) ==
    /\ pc[p] = "check" /\ file = "whole"
    /\ At(p, IF \E q \in rows : device[q] = device[p] THEN "refused" ELSE "store")
    /\ UNCHANGED <<backend, storeVars, instance, snapshot, record, sentTo>>

\* getById.
DeleteFinds(x) ==
    /\ pc[x] = "new" /\ file = "whole"
    /\ IF target[x] \in rows
       THEN At(x, "notifications") /\ Meets(x)
       ELSE At(x, "refused") /\ UNCHANGED met
    /\ UNCHANGED <<backend, rows, file, stored, gone, broken, instance, snapshot, record, sentTo>>

\* The subscriptions are deleted first.
NotificationsDeleted(x) ==
    /\ pc[x] = "notifications"
    /\ At(x, "store")
    /\ UNCHANGED <<backend, storeVars, instance, snapshot, record, sentTo>>

-----------------------------------------------------------------------------
(* create and delete of the backends                                       *)

Changed(r, list) == IF r \in Posts THEN list \cup {r} ELSE list \ {target[r]}

\* The change r, made to the list, is what is stored now.
Stores(r, list) ==
    /\ rows' = Changed(r, list)
    /\ stored' = stored \cup (Posts \cap {r})
    /\ gone' = gone \cup (IF r \in Deletes THEN {target[r]} ELSE {})

\* MongoDB: at once, but the answer may not arrive.
MongoChanges(r) ==
    /\ backend = "mongo" /\ pc[r] = "store"
    /\ Stores(r, rows)
    /\ At(r, "done") \/ At(r, "failed")
    /\ UNCHANGED <<backend, file, met, broken, instance, snapshot, record, sentTo>>

FileReads(r) ==
    /\ backend = "file" /\ pc[r] = "store" /\ file = "whole"
    /\ snapshot' = [snapshot EXCEPT ![r] = rows]
    /\ At(r, "write")
    /\ UNCHANGED <<backend, storeVars, instance, record, sentTo>>

\* writeFile truncates the file, also under somebody else's hands.
WriteBegins(r) ==
    /\ pc[r] = "write"
    /\ file' = "empty"
    /\ At(r, "writing")
    /\ UNCHANGED <<backend, rows, stored, gone, met, broken, instance, snapshot, record, sentTo>>

\* The list is written from the start of the file.
WriteEnds(r) ==
    /\ pc[r] = "writing"
    /\ file' = "whole"
    /\ Stores(r, snapshot[r])
    /\ At(r, "done")
    /\ UNCHANGED <<backend, met, broken, instance, snapshot, record, sentTo>>

\* The same over something longer that somebody wrote since: the end of that is left behind.
WriteEndsShort(r) ==
    /\ pc[r] = "writing"
    /\ file = "garbled" \/ (file = "whole" /\ ~ rows \subseteq Changed(r, snapshot[r]))
    /\ file' = "garbled"
    /\ At(r, "done")
    /\ UNCHANGED <<backend, rows, stored, gone, met, broken, instance, snapshot, record, sentTo>>

-----------------------------------------------------------------------------
(* DeviceCommandService and MiotDeviceRegistry                             *)

\* getByDeviceId or getById.
CommandFinds(c) ==
    /\ pc[c] = "new" /\ file = "whole"
    /\ IF selects[c] \cap rows = {}
       THEN At(c, "refused") /\ UNCHANGED record
       ELSE \E p \in selects[c] \cap rows :
               At(c, "send") /\ record' = [record EXCEPT ![c] = p]
    /\ UNCHANGED <<backend, storeVars, instance, snapshot, sentTo>>

\* getOrCreate, after the spec was mapped: the pooled instance of the device, or a new one
\* with the address of the record.  Done: it was sent, whatever came of it.
Pooled(p) == IF instance[device[p]] = "none" THEN address[p] ELSE instance[device[p]]

CommandSends(c) ==
    /\ pc[c] = "send"
    /\ instance' = [instance EXCEPT ![device[record[c]]] = Pooled(record[c])]
    /\ sentTo' = [sentTo EXCEPT ![c] = Pooled(record[c])]
    /\ At(c, "done")
    /\ UNCHANGED <<backend, storeVars, snapshot, record>>

-----------------------------------------------------------------------------
(* Failures                                                                *)

\* What a writer that stops half-way leaves of the file.
CutShort(writers) ==
    /\ broken' = (broken \/ \E r \in writers : pc[r] = "writing")
    /\ file' \in IF \E r \in writers : pc[r] = "writing" THEN {file, "garbled"} ELSE {file}

\* An awaited call rejects: the discovery, the backend, the disk, or the parser on a file
\* that is not whole.
Fails(r) ==
    /\ UnderWay(r) \/ (r \notin Posts /\ pc[r] = "new" /\ file # "whole")
    /\ CutShort({r})
    /\ At(r, "failed")
    /\ UNCHANGED <<backend, rows, stored, gone, met, instance, snapshot, record, sentTo>>

\* The process dies and starts again: the pool is empty, the storage as it was.
Restart ==
    /\ CutShort(Changes)
    /\ instance' = [d \in Devices |-> "none"]
    /\ pc' = [r \in Requests |-> IF UnderWay(r) THEN "failed" ELSE pc[r]]
    /\ UNCHANGED <<backend, rows, stored, gone, met, snapshot, record, sentTo>>

-----------------------------------------------------------------------------
Next ==
    \/ \E p \in Posts : PostDiscovers(p) \/ PostChecks(p)
    \/ \E x \in Deletes : DeleteFinds(x) \/ NotificationsDeleted(x)
    \/ \E r \in Changes : \/ MongoChanges(r) \/ FileReads(r)
                          \/ WriteBegins(r) \/ WriteEnds(r) \/ WriteEndsShort(r)
    \/ \E c \in Commands : CommandFinds(c) \/ CommandSends(c)
    \/ \E r \in Requests : Fails(r)
    \/ Restart

Spec == Init /\ [][Next]_vars

-----------------------------------------------------------------------------
(* Properties                                                              *)

\* r never was under way beside another change.
Alone(r) == \A pair \in met : r \notin pair

\* A device is registered twice only by registrations that overlapped: in MongoDB with each
\* other, in the file one of them with some change.
Once ==
    \A p, q \in rows : p # q /\ device[p] = device[q] =>
        /\ ~ Alone(p) \/ ~ Alone(q)
        /\ backend = "mongo" => {p, q} \in met

\* A record that was stored alone stays until it is deleted, whatever other changes do to each
\* other and to the file before and after it; and nothing brings back one that was deleted alone.
NothingLost == \A p \in stored : Alone(p) /\ p \notin gone => p \in rows
NothingRevived == \A x \in Deletes : pc[x] = "done" /\ Alone(x) => target[x] \notin rows

\* The file is unreadable for good only after a failure or a crash in the middle of a write, or
\* after overlapping changes.
Unreadable == file # "whole" /\ \A r \in Changes : pc[r] # "writing"
FileLives == Unreadable => broken \/ met # {}

\* Only changes that overlap damage the book of devices: a change that ran alone did what it
\* answered, and what it did holds from then on, although others overlap, fail and crash.
LoneChangesHold == Once /\ NothingLost /\ NothingRevived /\ FileLives

\* A command is sent to the address of the record it found, or to that of another record the
\* same device had, and then one of the two was deleted or did not run alone: the pool and the
\* records disagree only by a deletion or by overlapping changes.
StaleOnlyByDeletion ==
    \A c \in Commands : pc[c] = "done" =>
        \/ sentTo[c] = address[record[c]]
        \/ \E p \in stored :
              /\ device[p] = device[record[c]] /\ sentTo[c] = address[p]
              /\ {p, record[c]} \cap gone # {} \/ ~ Alone(p) \/ ~ Alone(record[c])

\* The registry forgets deleted devices: a command for a device that is registered is sent to
\* the address it is registered with.
SentToRecord ==
    \A c \in Commands : pc[c] = "done" /\ record[c] \in rows => sentTo[c] = address[record[c]]
=============================================================================
