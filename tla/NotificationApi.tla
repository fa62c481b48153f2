--------------------------- MODULE NotificationApi --------------------------
(***************************************************************************)
(* The REST handlers that change notification subscriptions, over the      *)
(* storage they write first and the poller whose cache they change next:   *)
(* NotificationPostHandler, NotificationDeleteHandler,                     *)
(* NotificationDeleteAllHandler and DeviceDeleteHandler.  Each await of a  *)
(* handler lets other requests, and the poller's tick, run.                *)
(*                                                                         *)
(* Storage is the MongoDB backend: one document per subscription, created  *)
(* or deleted atomically, no unique index on (device, property).  A        *)
(* device's storage id is never used again, so a device is deleted once.   *)
(* The process may crash and restart: memory is lost, storage stays.       *)
(***************************************************************************)
EXTENDS PropertyPoller

CONSTANTS
    Requests,     \* the slots for requests being served at one time
    MaxArrivals,  \* bound: requests in one behaviour
    MaxRows,      \* bound: documents created in one behaviour
    MaxRestarts,  \* bound: crashes in one behaviour
    Servings      \* the ways of use and storage behaviours considered

\* exclusive:  requests that touch one subscription do not overlap
\* duplicates: a property may be subscribed again while it is
\* fails:      storage never rejects ("no"), rejects what it did not do ("clean"), or also
\*             what it did ("unknown")
Serving == [exclusive : BOOLEAN, duplicates : BOOLEAN, fails : {"no", "clean", "unknown"}]

ASSUME ApiAssumption ==
    /\ MaxArrivals \in Nat /\ MaxRows \in Nat /\ MaxRestarts \in Nat
    /\ Servings \subseteq Serving

VARIABLES
    serving,     \* the member of Servings this behaviour lives in
    rows,        \* the stored subscriptions
    created,     \* documents created so far: the next document's id
    registered,  \* registered[d]: the device's record is stored
    request,     \* request[r]: operation and arguments of the request in slot r
    rpc,         \* rpc[r]: the await it is at, or "idle"
    todo,        \* todo[r]: the properties a POST has to store or a DELETE found
    arrivals,    \* counter for MaxArrivals
    restarts     \* counter for MaxRestarts

storage == <<rows, created, registered>>
apiVars == <<serving, storage, request, rpc, todo, arrivals, restarts>>
pollerRest == <<mode, backoffVars, timerVars, tickVars, worldVars, told>>

Row == [id : 1 .. MaxRows, device : Devices, prop : Props]
Request ==
    [op : {"post"}, device : Devices, props : SUBSET Props, row : {0}] \cup
    [op : {"delete"}, device : Devices, props : {{}}, row : 1 .. MaxRows] \cup
    [op : {"deleteAll", "deleteDevice"}, device : Devices, props : {{}}, row : {0}]

ApiTypeOK ==
    /\ TypeOK
    /\ serving \in Servings
    /\ rows \in SUBSET Row
    /\ created \in 0 .. MaxRows
    /\ registered \in [Devices -> BOOLEAN]
    /\ \A r \in Requests : rpc[r] # "idle" => request[r] \in Request
    /\ rpc \in [Requests -> {"idle", "finding", "creating", "deleting", "deleted", "clearing",
                             "cleared", "removing"}]
    /\ todo \in [Requests -> SUBSET Props]
    /\ arrivals \in 0 .. MaxArrivals
    /\ restarts \in 0 .. MaxRestarts
    /\ \A a, b \in rows : a.id = b.id => a = b

ApiInit ==
    /\ Init
    /\ serving \in Servings
    /\ rows = {} /\ created = 0
    /\ registered = [d \in Devices |-> TRUE]
    /\ request = [r \in Requests |-> NoValue]
    /\ rpc = [r \in Requests |-> "idle"]
    /\ todo = [r \in Requests |-> {}]
    /\ arrivals = 0
    /\ restarts = 0

-----------------------------------------------------------------------------
Stored(d) == {row.prop : row \in {x \in rows : x.device = d}}
Active(r) == rpc[r] # "idle"
Quiet(d) == \A r \in Requests : Active(r) => request[r].device # d
Op(r) == request[r].op
Dev(r) == request[r].device

\* The properties a request names; a DELETE knows its property from the document.
Named(q, found) ==
    q.props \cup found \cup {row.prop : row \in {x \in rows : x.id = q.row}}

OfWholeDevice(q) == q.op \in {"deleteAll", "deleteDevice"}

\* (A POST that names nothing still leaves an empty entry in the poller's cache.)
Overlaps(q) ==
    \E r \in Requests :
        /\ Active(r) /\ Dev(r) = q.device
        /\ \/ OfWholeDevice(q) \/ OfWholeDevice(request[r])
           \/ Named(q, {}) \cap Named(request[r], todo[r]) # {}

\* A request arrives; its handler runs up to its first await.
Arrive(r, q) ==
    /\ rpc[r] = "idle"
    /\ phase # "loading"
    /\ arrivals < MaxArrivals /\ arrivals' = arrivals + 1
    /\ q.op = "delete" => q.row <= created
    /\ serving.exclusive => ~Overlaps(q)
    /\ q.op = "post" /\ ~serving.duplicates => q.props \cap Stored(q.device) = {}
    /\ request' = [request EXCEPT ![r] = q]
    /\ rpc' = [rpc EXCEPT ![r] = IF q.op = "deleteAll" THEN "clearing" ELSE "finding"]
    /\ todo' = [todo EXCEPT ![r] = IF q.op = "post" THEN q.props ELSE {}]
    /\ UNCHANGED <<serving, storage, restarts, pollerRest, cacheVars>>

Kept == UNCHANGED <<serving, arrivals, restarts>>

\* Request r goes on to its next await.
Goto(r, label) ==
    /\ rpc' = [rpc EXCEPT ![r] = label]
    /\ UNCHANGED request
    /\ Kept

\* Request r is answered, well or with an error.
Answered(r) ==
    /\ rpc' = [rpc EXCEPT ![r] = "idle"]
    /\ request' = [request EXCEPT ![r] = NoValue]
    /\ todo' = [todo EXCEPT ![r] = {}]
    /\ Kept

\* POST: the device is there and its spec has every property ...
PostAccepted(r) ==
    /\ rpc[r] = "finding" /\ Op(r) = "post"
    /\ registered[Dev(r)]
    /\ Goto(r, "creating")
    /\ UNCHANGED <<storage, todo, cacheVars, pollerRest>>

\* Any handler: what it was asked about is not there, or not as it must be.
Rejected(r) ==
    /\ rpc[r] = "finding"
    /\ \/ Op(r) = "post"
       \/ Op(r) = "deleteDevice" /\ ~registered[Dev(r)]
       \/ /\ Op(r) = "delete"
          /\ ~\E row \in rows : row.id = request[r].row /\ row.device = Dev(r)
    /\ Answered(r)
    /\ UNCHANGED <<storage, cacheVars, pollerRest>>

\* POST: one document per property, one after the other.
PostCreates(r) ==
    /\ rpc[r] = "creating"
    /\ created < MaxRows
    /\ \E p \in todo[r] :
          /\ rows' = rows \cup {[id |-> created + 1, device |-> Dev(r), prop |-> p]}
          /\ todo' = [todo EXCEPT ![r] = @ \ {p}]
    /\ created' = created + 1
    /\ Goto(r, "creating")
    /\ UNCHANGED <<registered, cacheVars, pollerRest>>

\* Mutant of PostSubscribes: the cache is told before everything is stored.
PostSubscribesEarly(r) ==
    /\ rpc[r] = "creating"
    /\ AddSubscriptions(Dev(r), request[r].props)
    /\ Answered(r)
    /\ UNCHANGED <<storage, pollerRest>>

\* POST: all are stored; the cache follows.
PostSubscribes(r) ==
    /\ rpc[r] = "creating"
    /\ todo[r] = {}
    /\ AddSubscriptions(Dev(r), request[r].props)
    /\ Answered(r)
    /\ UNCHANGED <<storage, pollerRest>>

DeleteFinds(r) ==
    /\ rpc[r] = "finding" /\ Op(r) = "delete"
    /\ \E row \in rows :
          /\ row.id = request[r].row /\ row.device = Dev(r)
          /\ todo' = [todo EXCEPT ![r] = {row.prop}]
    /\ Goto(r, "deleting")
    /\ UNCHANGED <<storage, cacheVars, pollerRest>>

\* DELETE: deleteById applies, also when the document is gone by now.
DeleteApplies(r) ==
    /\ rpc[r] = "deleting"
    /\ rows' = {row \in rows : row.id # request[r].row}
    /\ Goto(r, "deleted")
    /\ UNCHANGED <<created, registered, todo, cacheVars, pollerRest>>

DeleteUnsubscribes(r) ==
    /\ rpc[r] = "deleted"
    /\ \E p \in todo[r] : RemoveSubscription(Dev(r), p)
    /\ Answered(r)
    /\ UNCHANGED <<storage, pollerRest>>

\* DeviceDeleteHandler: the device is there; go on with NotificationDeleteAllHandler.
DeviceFound(r) ==
    /\ rpc[r] = "finding" /\ Op(r) = "deleteDevice"
    /\ registered[Dev(r)]
    /\ Goto(r, "clearing")
    /\ UNCHANGED <<storage, todo, cacheVars, pollerRest>>

DeleteAllApplies(r) ==
    /\ rpc[r] = "clearing"
    /\ rows' = {row \in rows : row.device # Dev(r)}
    /\ Goto(r, "cleared")
    /\ UNCHANGED <<created, registered, todo, cacheVars, pollerRest>>

\* Mutant of DeleteAllUnsubscribes: the cache is left alone.
DeleteAllForgetsCache(r) ==
    /\ rpc[r] = "cleared"
    /\ IF Op(r) = "deleteDevice" THEN Goto(r, "removing") /\ UNCHANGED todo ELSE Answered(r)
    /\ UNCHANGED <<storage, cacheVars, pollerRest>>

DeleteAllUnsubscribes(r) ==
    /\ rpc[r] = "cleared"
    /\ RemoveAllSubscriptions(Dev(r))
    /\ IF Op(r) = "deleteDevice" THEN Goto(r, "removing") /\ UNCHANGED todo ELSE Answered(r)
    /\ UNCHANGED <<storage, pollerRest>>

\* DeviceDeleteHandler: the record is deleted last; from now on it cannot be read.
DeviceRemoved(r) ==
    /\ rpc[r] = "removing"
    /\ registered' = [registered EXCEPT ![Dev(r)] = FALSE]
    /\ up' = [up EXCEPT ![Dev(r)] = FALSE]
    /\ Answered(r)
    /\ UNCHANGED <<rows, created, mode, cacheVars, backoffVars, timerVars, tickVars, actual,
                   command, changes, told>>

\* Storage rejects a call it did not carry out, or one it did; the handler throws.
StorageFails(r) ==
    /\ \/ /\ serving.fails # "no"
          /\ \/ rpc[r] \in {"deleting", "clearing", "removing"}
             \/ rpc[r] = "creating" /\ todo[r] # {}
       \/ /\ serving.fails = "unknown"
          /\ \/ rpc[r] \in {"deleted", "cleared"}
             \/ rpc[r] = "creating" /\ todo[r] # request[r].props
    /\ Answered(r)
    /\ UNCHANGED <<storage, cacheVars, pollerRest>>

\* The process dies at any moment and comes up again.
Restart ==
    /\ restarts < MaxRestarts
    /\ restarts' = restarts + 1
    /\ request' = [r \in Requests |-> NoValue]
    /\ rpc' = [r \in Requests |-> "idle"]
    /\ todo' = [r \in Requests |-> {}]
    /\ cached' = {}
    /\ subs' = [d \in Devices |-> {}]
    /\ lastValues' = [d \in Devices |-> Nothing]
    /\ errorCounts' = [d \in Devices |-> 0]
    /\ skipCycles' = [d \in Devices |-> 0]
    /\ phase' = "loading" /\ timerSet' = FALSE /\ timers' = 0
    /\ step' = "idle" /\ due' = {}
    /\ UNCHANGED <<serving, storage, arrivals, mode, target, answer, worldVars, told>>

-----------------------------------------------------------------------------
RequestStep(r) ==
    \/ PostAccepted(r) \/ Rejected(r) \/ PostCreates(r) \/ PostSubscribes(r)
    \/ DeleteFinds(r) \/ DeleteApplies(r) \/ DeleteUnsubscribes(r)
    \/ DeviceFound(r) \/ DeleteAllApplies(r) \/ DeleteAllUnsubscribes(r) \/ DeviceRemoved(r)
    \/ StorageFails(r)

ApiNext ==
    \/ \E r \in Requests : (\E q \in Request : Arrive(r, q)) \/ RequestStep(r)
    \/ Restart
    \/ Start([d \in Devices |-> Stored(d)]) /\ UNCHANGED apiVars
    \/ PollerStep /\ UNCHANGED apiVars

ApiSpec == ApiInit /\ [][ApiNext]_<<vars, apiVars>>

\* The poller's own fairness; storage answers or rejects every call.
ApiFairness ==
    /\ WF_<<vars, apiVars>>(PollerStep /\ UNCHANGED apiVars)
    /\ WF_<<vars, apiVars>>(Start([d \in Devices |-> Stored(d)]) /\ UNCHANGED apiVars)
    /\ \A r \in Requests : WF_<<vars, apiVars>>(RequestStep(r))

ApiFairSpec == ApiSpec /\ ApiFairness

-----------------------------------------------------------------------------
(* Properties. *)

\* As long as requests that touch one subscription do not overlap and storage does what it
\* says, no subscription is polled that is not stored, after rejected calls and crashes too;
\* when nothing is rejected or subscribed twice, cache and storage agree.
CacheFollowsStorage ==
    \A d \in Devices : phase = "started" /\ serving.exclusive /\ Quiet(d) =>
        /\ serving.fails # "unknown" => subs[d] \subseteq Stored(d)
        /\ serving.fails = "no" /\ ~serving.duplicates => subs[d] = Stored(d)

\* A deleted device leaves nothing behind, in storage or in the poller, whatever failed
\* before it was deleted at last.
DeletedDeviceForgotten ==
    \A d \in Devices : serving.exclusive /\ Quiet(d) /\ ~registered[d]
        => Stored(d) = {} /\ subs[d] = {}

\* Storage leads and the cache follows, to the end of a device.
StorageLeads == CacheFollowsStorage /\ DeletedDeviceForgotten

\* The poller lets go of a deleted device, whatever tick was running at the time.
DeletedDeviceLeftAlone ==
    serving.exclusive => \A d \in Devices :
        (<>[](~registered[d] /\ Quiet(d)))
            => <>[](step \in {"asked", "answered", "failed"} => target.device # d)
=============================================================================
