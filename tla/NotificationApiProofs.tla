------------------------ MODULE NotificationApiProofs -----------------------
(***************************************************************************)
(* Proofs about NotificationApi: storage leads and the poller's cache      *)
(* follows, for any number of devices, properties, requests and crashes,   *)
(* as long as requests that touch one subscription do not overlap.         *)
(***************************************************************************)
EXTENDS NotificationApi, TLAPS

Has(d, p) == \E x \in rows : x.device = d /\ x.prop = p

Typed ==
    /\ serving \in Serving
    /\ rows \subseteq [id : Nat, device : Devices, prop : Props]
    /\ created \in Nat
    /\ registered \in [Devices -> BOOLEAN]
    /\ request \in [Requests -> Request \cup {NoValue}]
    /\ rpc \in [Requests -> {"idle", "finding", "creating", "deleting", "deleted", "clearing",
                             "cleared", "removing"}]
    /\ todo \in [Requests -> SUBSET Props]
    /\ subs \in [Devices -> SUBSET Props]

\* Ids are those of documents that were created, and no two documents share one.
IdInv ==
    /\ \A x \in rows : x.id <= created
    /\ \A x, y \in rows : x.id = y.id => x = y

\* A request is at a stage of its own operation, and its stage tells what it has done.
StageOK(r) ==
    Active(r) =>
        /\ request[r] \in Request
        /\ Op(r) = "delete" => request[r].row <= created
        /\ rpc[r] = "creating" =>
              /\ Op(r) = "post" /\ registered[Dev(r)]
              /\ todo[r] \subseteq request[r].props
              /\ \A p \in request[r].props \ todo[r] : Has(Dev(r), p)
        /\ Op(r) = "post" => rpc[r] \in {"finding", "creating"}
        /\ Op(r) = "post" /\ rpc[r] = "finding" => todo[r] = request[r].props
        /\ rpc[r] \in {"deleting", "deleted"} => Op(r) = "delete" /\ \E p \in Props : todo[r] = {p}
        /\ rpc[r] = "deleting" =>
              \A x \in rows : x.id = request[r].row => x.device = Dev(r) /\ x.prop \in todo[r]
        /\ rpc[r] \in {"clearing", "cleared"} => OfWholeDevice(request[r])
        /\ rpc[r] = "removing" => Op(r) = "deleteDevice" /\ subs[Dev(r)] = {}
        /\ rpc[r] \in {"cleared", "removing"} => \A p \in Props : ~Has(Dev(r), p)

\* Requests that touch one subscription do not overlap.
Apart(r, s) ==
    Active(r) /\ Active(s) /\ Dev(r) = Dev(s) =>
        /\ ~OfWholeDevice(request[r]) /\ ~OfWholeDevice(request[s])
        /\ Named(request[r], todo[r]) \cap Named(request[s], todo[s]) = {}

\* Without duplicates a subscription is one document, which whoever stores it has not found
\* and whoever deleted it has deleted.
NoDuplicates ==
    ~serving.duplicates =>
        /\ \A x, y \in rows : x.device = y.device /\ x.prop = y.prop => x = y
        /\ \A r \in Requests : Active(r) /\ (Op(r) = "post" \/ rpc[r] = "deleted") =>
              \A p \in todo[r] : ~Has(Dev(r), p)
        /\ \A r \in Requests : rpc[r] = "deleting" =>
              \A x \in rows : x.device = Dev(r) /\ x.prop \in todo[r] => x.id = request[r].row

\* A subscription is in the cache and not in storage only while its deletion is under way.
Deleting(d, p) ==
    \E r \in Requests :
        /\ Active(r) /\ Dev(r) = d
        /\ rpc[r] = "cleared" \/ (rpc[r] = "deleted" /\ p \in todo[r])

CacheInv ==
    serving.fails # "unknown" =>
        \A d \in Devices : \A p \in subs[d] : Has(d, p) \/ Deleting(d, p)

\* A subscription is in storage and not in the cache only while its creation is under way.
Creating(d, p) ==
    \E r \in Requests :
        /\ Active(r) /\ Dev(r) = d
        /\ rpc[r] = "creating" /\ p \in request[r].props \ todo[r]

StorageInv ==
    phase = "started" /\ serving.fails = "no" /\ ~serving.duplicates =>
        \A d \in Devices, p \in Props : Has(d, p) => p \in subs[d] \/ Creating(d, p)

\* A deleted device has left nothing behind.
GoneInv ==
    \A d \in Devices : ~registered[d] => subs[d] = {} /\ \A p \in Props : ~Has(d, p)

IInv ==
    /\ Typed /\ IdInv
    /\ \A r \in Requests : StageOK(r)
    /\ \A r, s \in Requests : r # s => Apart(r, s)
    /\ NoDuplicates /\ CacheInv /\ StorageInv /\ GoneInv

-----------------------------------------------------------------------------
LEMMA InitInv == ApiInit => IInv
<1> SUFFICES ASSUME ApiInit PROVE IInv
    OBVIOUS
<1>1. Typed
    BY ApiAssumption DEF ApiInit, Init, Typed, Serving
<1>2. \A r \in Requests : ~Active(r)
    BY DEF ApiInit, Active
<1>3. IdInv /\ NoDuplicates /\ CacheInv /\ StorageInv /\ GoneInv
    BY <1>2 DEF ApiInit, Init, IdInv, NoDuplicates, CacheInv, StorageInv, GoneInv, Has
<1>4. QED
    BY <1>1, <1>2, <1>3 DEF IInv, StageOK, Apart

\* What a request names.
LEMMA NamedHas ==
    ASSUME NEW q, NEW found, NEW p
    PROVE  p \in Named(q, found) <=>
               p \in q.props \/ p \in found \/ \E x \in rows : x.id = q.row /\ x.prop = p
BY DEF Named

\* Requests stay apart as long as none starts and none names anything new.
LEMMA StayApart ==
    ASSUME \A r, s \in Requests : r # s => Apart(r, s),
           \A r \in Requests : Active(r)' =>
               /\ Active(r) /\ request'[r] = request[r]
               /\ Named(request[r], todo[r])' \subseteq Named(request[r], todo[r])
    PROVE  (\A r, s \in Requests : r # s => Apart(r, s))'
<1> DEFINE Names(t) == Named(request[t], todo[t])
<1> SUFFICES ASSUME NEW r \in Requests, NEW s \in Requests, r # s,
                    Active(r)', Active(s)', Dev(r)' = Dev(s)'
             PROVE  /\ ~OfWholeDevice(request[r])' /\ ~OfWholeDevice(request[s])'
                    /\ Names(r)' \cap Names(s)' = {}
    BY DEF Apart
<1>1. /\ Active(r) /\ request'[r] = request[r] /\ Names(r)' \subseteq Names(r)
      /\ Active(s) /\ request'[s] = request[s] /\ Names(s)' \subseteq Names(s)
    OBVIOUS
<1>2. Dev(r) = Dev(s)
    BY <1>1 DEF Dev
<1>3. /\ ~OfWholeDevice(request[r]) /\ ~OfWholeDevice(request[s])
      /\ Names(r) \cap Names(s) = {}
    BY <1>1, <1>2 DEF Apart
<1> HIDE DEF Names
<1>4. QED
    BY <1>1, <1>3 DEF OfWholeDevice

\* A request leaves without a trace, or storage misbehaved.
LEMMA LeavesQuietly ==
    ASSUME IInv, NEW r \in Requests, Answered(r), UNCHANGED <<storage, subs, phase>>,
           serving.fails # "unknown" => rpc[r] \notin {"cleared", "deleted"},
           serving.fails = "no" => rpc[r] # "creating"
    PROVE  IInv'
<1> USE DEF IInv
<1>1. /\ UNCHANGED <<serving, rows, created, registered, subs, phase>>
      /\ rpc'[r] = "idle"
      /\ \A s \in Requests \ {r} :
             rpc'[s] = rpc[s] /\ request'[s] = request[s] /\ todo'[s] = todo[s]
    BY DEF Answered, Kept, storage, Typed
<1>2. Typed'
    BY <1>1 DEF Answered, Typed
<1>3. IdInv' /\ GoneInv'
    BY <1>1 DEF IdInv, GoneInv, Has
<1>4. \A s \in Requests : StageOK(s)'
    <2> SUFFICES ASSUME NEW s \in Requests PROVE StageOK(s)'
        OBVIOUS
    <2>1. CASE s = r
        BY <1>1, <2>1, StageOK(r) DEF StageOK, Active, Op, Dev, OfWholeDevice, Has
    <2>2. CASE s # r
        BY <1>1, <2>2, StageOK(s) DEF StageOK, Active, Op, Dev, OfWholeDevice, Has
    <2>3. QED
        BY <2>1, <2>2
<1>5. (\A s, t \in Requests : s # t => Apart(s, t))'
    BY <1>1, StayApart DEF Active, Named
<1>6. NoDuplicates'
    BY <1>1 DEF NoDuplicates, Active, Op, Dev, Has
<1>7. CacheInv'
    BY <1>1 DEF CacheInv, Deleting, Active, Dev, Has
<1>8. StorageInv'
    BY <1>1 DEF StorageInv, Creating, Active, Dev, Has
<1>9. QED
    BY <1>2, <1>3, <1>4, <1>5, <1>6, <1>7, <1>8

LEMMA RejectedStep ==
    ASSUME IInv, NEW r \in Requests, Rejected(r)
    PROVE  IInv'
BY LeavesQuietly DEF Rejected, cacheVars, pollerRest, timerVars

LEMMA StorageFailsStep ==
    ASSUME IInv, NEW r \in Requests, StorageFails(r)
    PROVE  IInv'
BY LeavesQuietly DEF StorageFails, cacheVars, pollerRest, timerVars

\* A request goes on from its lookup and nothing else changes.
LEMMA MovesOn ==
    ASSUME IInv, NEW r \in Requests, NEW label \in {"creating", "clearing"},
           rpc[r] = "finding", Goto(r, label), UNCHANGED <<storage, todo, subs, phase>>,
           label = "creating" => Op(r) = "post" /\ registered[Dev(r)],
           label = "clearing" => Op(r) = "deleteDevice"
    PROVE  IInv'
<1> USE DEF IInv
<1>1. /\ UNCHANGED <<serving, rows, created, registered, subs, phase, request, todo>>
      /\ rpc'[r] = label
      /\ \A s \in Requests \ {r} : rpc'[s] = rpc[s]
    BY DEF Goto, Kept, storage, Typed
<1>2. Typed'
    BY <1>1 DEF Goto, Typed
<1>3. IdInv' /\ GoneInv'
    BY <1>1 DEF IdInv, GoneInv, Has
<1>4. \A s \in Requests : StageOK(s)'
    <2> SUFFICES ASSUME NEW s \in Requests PROVE StageOK(s)'
        OBVIOUS
    <2>1. CASE s = r
        BY <1>1, <2>1, StageOK(r) DEF StageOK, Active, Op, Dev, OfWholeDevice, Has
    <2>2. CASE s # r
        BY <1>1, <2>2, StageOK(s) DEF StageOK, Active, Op, Dev, OfWholeDevice, Has
    <2>3. QED
        BY <2>1, <2>2
<1>5. (\A s, t \in Requests : s # t => Apart(s, t))'
    BY <1>1, StayApart DEF Active, Named
<1>6. NoDuplicates'
    BY <1>1 DEF NoDuplicates, Active, Op, Dev, Has
<1>7. CacheInv'
    BY <1>1 DEF CacheInv, Deleting, Active, Dev, Has
<1>8. StorageInv'
    BY <1>1 DEF StorageInv, Creating, Active, Dev, Has
<1>9. QED
    BY <1>2, <1>3, <1>4, <1>5, <1>6, <1>7, <1>8

LEMMA PostAcceptedStep ==
    ASSUME IInv, NEW r \in Requests, PostAccepted(r)
    PROVE  IInv'
BY MovesOn DEF PostAccepted, cacheVars, pollerRest, timerVars

LEMMA DeviceFoundStep ==
    ASSUME IInv, NEW r \in Requests, DeviceFound(r)
    PROVE  IInv'
BY MovesOn DEF DeviceFound, cacheVars, pollerRest, timerVars

LEMMA PostCreatesStep ==
    ASSUME IInv, NEW r \in Requests, PostCreates(r)
    PROVE  IInv'
<1> USE DEF IInv
<1> DEFINE new(p) == [id |-> created + 1, device |-> Dev(r), prop |-> p]
<1>1. PICK p \in todo[r] : /\ rows' = rows \cup {new(p)}
                           /\ todo' = [todo EXCEPT ![r] = @ \ {p}]
    BY DEF PostCreates
<1>2. /\ UNCHANGED <<serving, registered, subs, phase, request, rpc>>
      /\ created' = created + 1 /\ created \in Nat /\ rpc[r] = "creating" /\ Active(r)
      /\ todo'[r] = todo[r] \ {p}
      /\ \A s \in Requests \ {r} : todo'[s] = todo[s]
    BY <1>1 DEF PostCreates, Goto, Kept, Typed, Active, cacheVars, pollerRest, timerVars
<1>3. /\ request[r] \in Request /\ Op(r) = "post" /\ registered[Dev(r)]
      /\ Dev(r) \in Devices /\ p \in Props
    <2>1. request[r] \in Request /\ Op(r) = "post" /\ registered[Dev(r)]
        BY <1>2, StageOK(r) DEF StageOK
    <2>2. p \in Props
        BY DEF Typed
    <2>3. QED
        BY <2>1, <2>2 DEF Request, Dev
<1>4. Typed'
    BY <1>1, <1>2, <1>3 DEF Typed, PostCreates, Goto
<1>5. IdInv'
    <2>1. \A x \in rows : x.id \in Nat /\ x.id # created + 1
        BY <1>2 DEF IdInv, Typed
    <2>2. \A x \in rows' : x \in rows \/ x = new(p)
        BY <1>1
    <2>3. new(p).id = created + 1
        OBVIOUS
    <2> HIDE DEF new
    <2>4. (\A x \in rows : x.id <= created)'
        BY <1>2, <2>1, <2>2, <2>3 DEF IdInv
    <2>5. (\A x, y \in rows : x.id = y.id => x = y)'
        BY <2>1, <2>2, <2>3 DEF IdInv
    <2>6. QED
        BY <2>4, <2>5 DEF IdInv
<1>6. \A d, q : Has(d, q)' <=> Has(d, q) \/ (d = Dev(r) /\ q = p)
    <2>1. new(p) \in rows' /\ new(p).device = Dev(r) /\ new(p).prop = p
        BY <1>1
    <2>2. \A x \in rows' : x \in rows \/ x = new(p)
        BY <1>1
    <2>3. rows \subseteq rows'
        BY <1>1
    <2> HIDE DEF new
    <2>4. QED
        BY <2>1, <2>2, <2>3 DEF Has
<1>7. \A s \in Requests \ {r} : Active(s) /\ Dev(s) = Dev(r) =>
          ~OfWholeDevice(request[s]) /\ p \notin Named(request[s], todo[s])
    <2> SUFFICES ASSUME NEW s \in Requests \ {r}, Active(s), Dev(s) = Dev(r)
                 PROVE  ~OfWholeDevice(request[s]) /\ p \notin Named(request[s], todo[s])
        OBVIOUS
    <2>1. Apart(r, s)
        OBVIOUS
    <2>2. p \in Named(request[r], todo[r])
        BY <1>1 DEF Named
    <2>3. QED
        BY <1>2, <2>1, <2>2 DEF Apart
<1>8. \A s \in Requests : Active(s) => request[s].row # created + 1
    <2> SUFFICES ASSUME NEW s \in Requests, Active(s) PROVE request[s].row # created + 1
        OBVIOUS
    <2>1. request[s] \in Request /\ (Op(s) = "delete" => request[s].row <= created)
        BY StageOK(s) DEF StageOK
    <2>2. CASE Op(s) = "delete"
        BY <1>2, <2>1, <2>2, ApiAssumption DEF Request
    <2>3. CASE Op(s) # "delete"
        <3>1. request[s].row = 0
            BY <2>1, <2>3 DEF Request, Op
        <3>2. QED
            BY <1>2, <3>1
    <2>4. QED
        BY <2>2, <2>3
<1> HIDE DEF IInv
<1>9. \A s \in Requests : StageOK(s)'
    <2> SUFFICES ASSUME NEW s \in Requests PROVE StageOK(s)'
        OBVIOUS
    <2>1. StageOK(s) /\ Typed
        BY DEF IInv
    <2>2. CASE s = r
        BY <1>1, <1>2, <1>3, <1>6, <2>1, <2>2 DEF StageOK, Active, Op, Dev, OfWholeDevice
    <2>3. CASE s # r
        <3>1. Active(s) /\ Dev(s) = Dev(r) =>
                  ~OfWholeDevice(request[s]) /\ p \notin Named(request[s], todo[s])
            BY <1>7, <2>3
        <3>2. Active(s) => request[s].row # created + 1
            BY <1>8
        <3>3. /\ rpc'[s] = rpc[s] /\ request'[s] = request[s] /\ todo'[s] = todo[s]
              /\ registered' = registered /\ subs' = subs /\ created <= created'
            BY <1>2, <2>3
        <3>4. Active(s) /\ Op(s) = "delete" => request[s].row <= created'
            BY <1>2, <2>1 DEF StageOK, Request, Op
        <3>5. QED
            BY <1>1, <1>6, <2>1, <3>1, <3>2, <3>3, <3>4
               DEF StageOK, Active, Op, Dev, OfWholeDevice
    <2>4. QED
        BY <2>2, <2>3
<1>10. (\A s, t \in Requests : s # t => Apart(s, t))'
    <2>1. ASSUME NEW s \in Requests, Active(s)
          PROVE  Named(request[s], todo[s])' \subseteq Named(request[s], todo[s])
        BY <1>1, <1>2, <1>8, <2>1 DEF Named
    <2>2. QED
        BY <1>2, <2>1, StayApart DEF IInv, Active
<1>11. NoDuplicates'
    <2> SUFFICES ASSUME ~serving.duplicates PROVE NoDuplicates'
        BY <1>2 DEF NoDuplicates
    <2>1. ~Has(Dev(r), p)
        BY <1>1, <1>2, <1>3 DEF IInv, NoDuplicates
    <2>2. \A s \in Requests \ {r} : Active(s) /\ Dev(s) = Dev(r) => p \notin todo[s]
        BY <1>7 DEF Named
    <2>3. (\A x, y \in rows : x.device = y.device /\ x.prop = y.prop => x = y)'
        BY <1>1, <2>1 DEF IInv, NoDuplicates, Has
    <2>4. (\A s \in Requests : Active(s) /\ (Op(s) = "post" \/ rpc[s] = "deleted") =>
              \A q \in todo[s] : ~Has(Dev(s), q))'
        BY <1>2, <1>6, <2>2 DEF IInv, NoDuplicates, Active, Op, Dev
    <2>5. (\A s \in Requests : rpc[s] = "deleting" =>
              \A x \in rows : x.device = Dev(s) /\ x.prop \in todo[s] => x.id = request[s].row)'
        BY <1>1, <1>2, <2>2 DEF IInv, NoDuplicates, Active, Op, Dev
    <2>6. QED
        BY <2>3, <2>4, <2>5 DEF NoDuplicates
<1>12. CacheInv'
    <2>1. \A d, q : Deleting(d, q) => Deleting(d, q)'
        BY <1>2 DEF Deleting, Active, Dev
    <2>2. QED
        BY <1>2, <1>6, <2>1 DEF IInv, CacheInv
<1>13. StorageInv'
    <2>1. \A d, q : Creating(d, q) => Creating(d, q)'
        BY <1>2 DEF Creating, Active, Dev
    <2>2. p \in request[r].props
        BY <1>2, StageOK(r) DEF IInv, StageOK
    <2> HIDE DEF new
    <2>4. Creating(Dev(r), p)'
        BY <1>2, <2>2 DEF Creating, Active, Dev
    <2>3. QED
        <3> SUFFICES ASSUME phase = "started", serving.fails = "no", ~serving.duplicates,
                            NEW d \in Devices, NEW q \in Props, Has(d, q)'
                     PROVE  q \in subs[d] \/ Creating(d, q)'
            BY <1>2 DEF StorageInv
        <3>1. CASE Has(d, q)
            BY <2>1, <3>1 DEF IInv, StorageInv
        <3>2. CASE d = Dev(r) /\ q = p
            <4>1. Dev(r)' = Dev(r)
                BY <1>2 DEF Dev
            <4>2. QED
                BY <2>4, <3>2, <4>1 DEF Creating
        <3>3. QED
            BY <1>6, <3>1, <3>2
<1>14. GoneInv'
    BY <1>2, <1>3, <1>6 DEF IInv, GoneInv
<1>15. QED
    BY <1>4, <1>5, <1>9, <1>10, <1>11, <1>12, <1>13, <1>14 DEF IInv

LEMMA PostSubscribesStep ==
    ASSUME IInv, NEW r \in Requests, PostSubscribes(r)
    PROVE  IInv'
<1> USE DEF IInv
<1>1. /\ UNCHANGED <<serving, rows, created, registered, phase>>
      /\ rpc[r] = "creating" /\ todo[r] = {} /\ rpc'[r] = "idle" /\ Active(r)
      /\ subs' = [subs EXCEPT ![Dev(r)] = @ \cup request[r].props]
      /\ \A s \in Requests \ {r} :
             rpc'[s] = rpc[s] /\ request'[s] = request[s] /\ todo'[s] = todo[s]
    BY DEF PostSubscribes, AddSubscriptions, Answered, Kept, storage, Typed, Active,
           pollerRest, timerVars
<1>2. /\ request[r] \in Request /\ Op(r) = "post" /\ registered[Dev(r)]
      /\ \A p \in request[r].props : Has(Dev(r), p)
    BY <1>1, StageOK(r) DEF StageOK
<1>3. Dev(r) \in Devices /\ request[r].props \subseteq Props
    BY <1>2 DEF Request, Dev
<1>4. /\ subs'[Dev(r)] = subs[Dev(r)] \cup request[r].props
      /\ \A d \in Devices \ {Dev(r)} : subs'[d] = subs[d]
    BY <1>1, <1>3 DEF Typed
<1>5. Typed'
    BY <1>1, <1>3 DEF PostSubscribes, Answered, Typed
<1>6. IdInv' /\ GoneInv'
    BY <1>1, <1>2, <1>4 DEF IdInv, GoneInv, Has
<1>7. \A s \in Requests : StageOK(s)'
    <2> SUFFICES ASSUME NEW s \in Requests, s # r PROVE StageOK(s)'
        BY <1>1 DEF StageOK, Active
    <2>1. rpc[s] = "removing" => Dev(s) \in Devices /\ Dev(s) # Dev(r)
        <3>1. rpc[s] = "removing" => OfWholeDevice(request[s]) /\ request[s] \in Request
            BY StageOK(s) DEF StageOK, Active, OfWholeDevice, Op
        <3>2. QED
            BY <1>1, <3>1, Apart(r, s) DEF Apart, Active, Request, Dev
    <2>2. rpc[s] = "removing" => subs'[Dev(s)] = subs[Dev(s)]
        BY <1>4, <2>1
    <2>3. QED
        BY <1>1, <2>2, StageOK(s) DEF StageOK, Active, Op, Dev, OfWholeDevice, Has
<1>8. (\A s, t \in Requests : s # t => Apart(s, t))'
    BY <1>1, StayApart DEF Active, Named
<1>9. NoDuplicates'
    BY <1>1 DEF NoDuplicates, Active, Op, Dev, Has
<1>10. CacheInv'
    <2>1. \A d, p : Deleting(d, p) => Deleting(d, p)'
        BY <1>1 DEF Deleting, Active, Dev
    <2>2. \A d, p : Has(d, p)' <=> Has(d, p)
        BY <1>1 DEF Has
    <2>3. QED
        BY <1>1, <1>2, <1>4, <2>1, <2>2 DEF CacheInv
<1>11. StorageInv'
    <2>1. \A d, p : Has(d, p)' <=> Has(d, p)
        BY <1>1 DEF Has
    <2>2. ASSUME NEW d \in Devices, NEW p \in Props, Creating(d, p)
          PROVE  Creating(d, p)' \/ p \in subs'[d]
        BY <1>1, <1>4, <2>2 DEF Creating, Active, Dev
    <2>3. QED
        BY <1>1, <1>4, <2>1, <2>2 DEF StorageInv
<1>12. QED
    BY <1>5, <1>6, <1>7, <1>8, <1>9, <1>10, <1>11

LEMMA DeleteFindsStep ==
    ASSUME IInv, NEW r \in Requests, DeleteFinds(r)
    PROVE  IInv'
<1> USE DEF IInv
<1>1. PICK x \in rows : /\ x.id = request[r].row /\ x.device = Dev(r)
                        /\ todo' = [todo EXCEPT ![r] = {x.prop}]
    BY DEF DeleteFinds
<1>2. /\ UNCHANGED <<serving, rows, created, registered, subs, phase, request>>
      /\ rpc[r] = "finding" /\ rpc'[r] = "deleting" /\ Active(r) /\ Op(r) = "delete"
      /\ todo'[r] = {x.prop} /\ x.prop \in Props
      /\ \A s \in Requests \ {r} : rpc'[s] = rpc[s] /\ todo'[s] = todo[s]
    BY <1>1 DEF DeleteFinds, Goto, Kept, Typed, Active, cacheVars, pollerRest, timerVars,
                storage
<1>3. \A y \in rows : y.id = request[r].row => y = x
    BY <1>1 DEF IdInv
<1>4. Typed'
    BY <1>1, <1>2 DEF DeleteFinds, Goto, Typed
<1>5. IdInv' /\ GoneInv'
    BY <1>2 DEF IdInv, GoneInv, Has
<1>6. \A s \in Requests : StageOK(s)'
    <2> SUFFICES ASSUME NEW s \in Requests PROVE StageOK(s)'
        OBVIOUS
    <2>1. CASE s = r
        BY <1>1, <1>2, <1>3, <2>1, StageOK(r) DEF StageOK, Active, Op, Dev, OfWholeDevice
    <2>2. CASE s # r
        BY <1>2, <2>2, StageOK(s) DEF StageOK, Active, Op, Dev, OfWholeDevice, Has
    <2>3. QED
        BY <2>1, <2>2
<1>7. (\A s, t \in Requests : s # t => Apart(s, t))'
    <2>1. \A s \in Requests : Named(request[s], todo[s])' \subseteq Named(request[s], todo[s])
        BY <1>1, <1>2 DEF Named
    <2>2. QED
        BY <1>2, <2>1, StayApart DEF Active
<1>8. NoDuplicates'
    <2> SUFFICES ASSUME ~serving.duplicates PROVE NoDuplicates'
        BY <1>2 DEF NoDuplicates
    <2>1. \A y \in rows : y.device = Dev(r) /\ y.prop = x.prop => y = x
        BY <1>1 DEF NoDuplicates
    <2>2. QED
        BY <1>1, <1>2, <2>1 DEF NoDuplicates, Active, Op, Dev, Has
<1>9. CacheInv'
    BY <1>2 DEF CacheInv, Deleting, Active, Dev, Has
<1>10. StorageInv'
    BY <1>2 DEF StorageInv, Creating, Active, Dev, Has
<1>11. QED
    BY <1>4, <1>5, <1>6, <1>7, <1>8, <1>9, <1>10

LEMMA DeleteAppliesStep ==
    ASSUME IInv, NEW r \in Requests, DeleteApplies(r)
    PROVE  IInv'
<1> USE DEF IInv
<1>1. /\ UNCHANGED <<serving, created, registered, subs, phase, request, todo>>
      /\ rows' = {x \in rows : x.id # request[r].row}
      /\ rpc[r] = "deleting" /\ rpc'[r] = "deleted" /\ Active(r)
      /\ \A s \in Requests \ {r} : rpc'[s] = rpc[s]
    BY DEF DeleteApplies, Goto, Kept, Typed, Active, cacheVars, pollerRest, timerVars
<1>2. /\ request[r] \in Request /\ Op(r) = "delete"
      /\ \A x \in rows : x.id = request[r].row => x.device = Dev(r) /\ x.prop \in todo[r]
    BY <1>1, StageOK(r) DEF StageOK
<1>3. Typed'
    BY <1>1 DEF DeleteApplies, Goto, Typed
<1>4. IdInv'
    BY <1>1 DEF IdInv
<1>5. /\ \A d, p : Has(d, p)' => Has(d, p)
      /\ \A d, p : Has(d, p) => Has(d, p)' \/ (d = Dev(r) /\ p \in todo[r])
    BY <1>1, <1>2 DEF Has
<1>6. \A s \in Requests : StageOK(s)'
    <2> SUFFICES ASSUME NEW s \in Requests PROVE StageOK(s)'
        OBVIOUS
    <2>1. CASE s = r
        BY <1>1, <1>2, <1>5, <2>1, StageOK(r) DEF StageOK, Active, Op, Dev, OfWholeDevice
    <2>2. CASE s # r
        <3>1. ASSUME Active(s), NEW p \in request[s].props, Has(Dev(s), p)
              PROVE  Has(Dev(s), p)'
            <4>1. ~(Dev(s) = Dev(r) /\ p \in todo[r])
                BY <1>1, <2>2, <3>1, Apart(r, s) DEF Apart, Named
            <4>2. QED
                BY <1>1, <1>2, <3>1, <4>1 DEF Has, Dev
        <3>2. QED
            BY <1>1, <1>5, <2>2, <3>1, StageOK(s) DEF StageOK, Active, Op, Dev, OfWholeDevice
    <2>3. QED
        BY <2>1, <2>2
<1>7. (\A s, t \in Requests : s # t => Apart(s, t))'
    <2>1. \A s \in Requests : Named(request[s], todo[s])' \subseteq Named(request[s], todo[s])
        BY <1>1 DEF Named
    <2>2. QED
        BY <1>1, <2>1, StayApart DEF Active
<1>8. NoDuplicates'
    <2> SUFFICES ASSUME ~serving.duplicates PROVE NoDuplicates'
        BY <1>1 DEF NoDuplicates
    <2>1. \A p \in todo[r] : ~Has(Dev(r), p)'
        BY <1>1 DEF NoDuplicates, Has, Dev
    <2>2. (\A s \in Requests : Active(s) /\ (Op(s) = "post" \/ rpc[s] = "deleted") =>
              \A p \in todo[s] : ~Has(Dev(s), p))'
        <3>1. ASSUME NEW s \in Requests, s # r, Active(s),
                     Op(s) = "post" \/ rpc[s] = "deleted", NEW p \in todo[s]
              PROVE  ~Has(Dev(s), p)'
            <4>1. ~Has(Dev(s), p)
                BY <3>1 DEF NoDuplicates
            <4>2. QED
                BY <1>1, <4>1 DEF Has, Dev
        <3>2. QED
            BY <1>1, <2>1, <3>1 DEF Active, Op
    <2>3. QED
        BY <1>1, <2>2 DEF NoDuplicates, Dev
<1>9. CacheInv'
    <2>1. \A d, p : Deleting(d, p) => Deleting(d, p)'
        BY <1>1 DEF Deleting, Active, Dev
    <2>2. \A p \in todo[r] : Deleting(Dev(r), p)'
        BY <1>1 DEF Deleting, Active, Dev
    <2>3. \A d, p : Has(d, p) => Has(d, p)' \/ Deleting(d, p)'
        BY <1>1, <1>5, <2>2 DEF Deleting, Dev
    <2>4. QED
        BY <1>1, <2>1, <2>3 DEF CacheInv
<1>10. StorageInv'
    BY <1>1, <1>5 DEF StorageInv, Creating, Active, Dev
<1>11. GoneInv'
    BY <1>1, <1>5 DEF GoneInv
<1>12. QED
    BY <1>3, <1>4, <1>6, <1>7, <1>8, <1>9, <1>10, <1>11

LEMMA DeleteUnsubscribesStep ==
    ASSUME IInv, NEW r \in Requests, DeleteUnsubscribes(r)
    PROVE  IInv'
<1> USE DEF IInv
<1>1. rpc[r] = "deleted" /\ Active(r)
    BY DEF DeleteUnsubscribes, Active
<1>2. request[r] \in Request /\ Op(r) = "delete"
    BY <1>1, StageOK(r) DEF StageOK
<1>3. PICK p \in Props : todo[r] = {p}
    BY <1>1, StageOK(r) DEF StageOK
<1>4. /\ UNCHANGED <<serving, rows, created, registered, phase>>
      /\ rpc'[r] = "idle"
      /\ subs' = [subs EXCEPT ![Dev(r)] = @ \ {p}]
      /\ \A s \in Requests \ {r} :
             rpc'[s] = rpc[s] /\ request'[s] = request[s] /\ todo'[s] = todo[s]
    BY <1>3 DEF DeleteUnsubscribes, RemoveSubscription, Answered, Kept, storage, Typed,
                pollerRest, timerVars
<1>5. Dev(r) \in Devices
    BY <1>2 DEF Request, Dev
<1>6. /\ subs'[Dev(r)] = subs[Dev(r)] \ {p}
      /\ \A d \in Devices \ {Dev(r)} : subs'[d] = subs[d]
    BY <1>4, <1>5 DEF Typed
<1>7. Typed'
    BY <1>4 DEF DeleteUnsubscribes, Answered, Typed
<1>8. IdInv' /\ GoneInv'
    BY <1>4, <1>6 DEF IdInv, GoneInv, Has
<1>9. \A s \in Requests : StageOK(s)'
    <2> SUFFICES ASSUME NEW s \in Requests, s # r PROVE StageOK(s)'
        BY <1>4 DEF StageOK, Active
    <2>1. Active(s) => Dev(s) \in Devices
        BY StageOK(s) DEF StageOK, Request, Dev
    <2>2. Active(s) /\ subs[Dev(s)] = {} => subs'[Dev(s)] = {}
        BY <1>6, <2>1
    <2>3. QED
        BY <1>4, <2>2, StageOK(s) DEF StageOK, Active, Op, Dev, OfWholeDevice, Has
<1>10. (\A s, t \in Requests : s # t => Apart(s, t))'
    BY <1>4, StayApart DEF Active, Named
<1>11. NoDuplicates'
    BY <1>4 DEF NoDuplicates, Active, Op, Dev, Has
<1>12. \A d, q : Has(d, q)' <=> Has(d, q)
    BY <1>4 DEF Has
<1>13. CacheInv'
    <2> SUFFICES ASSUME serving.fails # "unknown", NEW d \in Devices, NEW q \in subs'[d]
                 PROVE  Has(d, q) \/ Deleting(d, q)'
        BY <1>4, <1>12 DEF CacheInv
    <2>1. q \in subs[d] /\ ~(d = Dev(r) /\ q = p)
        BY <1>6
    <2>2. CASE Has(d, q)
        BY <2>2
    <2>3. CASE Deleting(d, q)
        BY <1>1, <1>3, <1>4, <2>1, <2>3 DEF Deleting, Active, Dev
    <2>4. QED
        BY <2>1, <2>2, <2>3 DEF CacheInv
<1>14. StorageInv'
    <2> SUFFICES ASSUME phase = "started", serving.fails = "no", ~serving.duplicates,
                        NEW d \in Devices, NEW q \in Props, Has(d, q)
                 PROVE  q \in subs'[d] \/ Creating(d, q)'
        BY <1>4, <1>12 DEF StorageInv
    <2>1. ~Has(Dev(r), p)
        BY <1>1, <1>3 DEF NoDuplicates
    <2>2. q \in subs[d] => q \in subs'[d]
        BY <1>6, <2>1
    <2>3. Creating(d, q) => Creating(d, q)'
        BY <1>1, <1>4 DEF Creating, Active, Dev
    <2>4. QED
        BY <2>2, <2>3 DEF StorageInv
<1>15. QED
    BY <1>7, <1>8, <1>9, <1>10, <1>11, <1>13, <1>14

LEMMA DeleteAllAppliesStep ==
    ASSUME IInv, NEW r \in Requests, DeleteAllApplies(r)
    PROVE  IInv'
<1> USE DEF IInv
<1>1. /\ UNCHANGED <<serving, created, registered, subs, phase, request, todo>>
      /\ rows' = {x \in rows : x.device # Dev(r)}
      /\ rpc[r] = "clearing" /\ rpc'[r] = "cleared" /\ Active(r)
      /\ \A s \in Requests \ {r} : rpc'[s] = rpc[s]
    BY DEF DeleteAllApplies, Goto, Kept, Typed, Active, cacheVars, pollerRest, timerVars
<1>2. OfWholeDevice(request[r])
    BY <1>1, StageOK(r) DEF StageOK
<1>3. Typed'
    BY <1>1 DEF DeleteAllApplies, Goto, Typed
<1>4. IdInv'
    BY <1>1 DEF IdInv
<1>5. \A d, p : Has(d, p)' <=> Has(d, p) /\ d # Dev(r)
    BY <1>1 DEF Has
<1>6. \A s \in Requests \ {r} : Active(s) => Dev(s) # Dev(r)
    BY <1>1, <1>2 DEF Apart
<1>7. \A s \in Requests : StageOK(s)'
    <2> SUFFICES ASSUME NEW s \in Requests PROVE StageOK(s)'
        OBVIOUS
    <2>1. CASE s = r
        BY <1>1, <1>2, <1>5, <2>1, StageOK(r) DEF StageOK, Active, Op, Dev, OfWholeDevice, Has
    <2>2. CASE s # r
        BY <1>1, <1>5, <1>6, <2>2, StageOK(s)
           DEF StageOK, Active, Op, Dev, OfWholeDevice, Has
    <2>3. QED
        BY <2>1, <2>2
<1>8. (\A s, t \in Requests : s # t => Apart(s, t))'
    <2>1. \A s \in Requests : Named(request[s], todo[s])' \subseteq Named(request[s], todo[s])
        BY <1>1 DEF Named
    <2>2. QED
        BY <1>1, <2>1, StayApart DEF Active
<1>9. NoDuplicates'
    BY <1>1, StageOK(r) DEF NoDuplicates, StageOK, Active, Op, Dev, Has, OfWholeDevice
<1>10. CacheInv'
    <2>1. \A d, p : Deleting(d, p) => Deleting(d, p)'
        BY <1>1 DEF Deleting, Active, Dev
    <2>2. \A p : Deleting(Dev(r), p)'
        BY <1>1 DEF Deleting, Active, Dev
    <2>3. \A d, p : Has(d, p) => Has(d, p)' \/ Deleting(d, p)'
        BY <1>1, <1>5, <2>2 DEF Deleting, Dev
    <2>4. QED
        BY <1>1, <2>1, <2>3 DEF CacheInv
<1>11. StorageInv'
    <2>1. \A d, p : Creating(d, p) => Creating(d, p)'
        BY <1>1 DEF Creating, Active, Dev
    <2>2. QED
        BY <1>1, <1>5, <2>1 DEF StorageInv
<1>12. GoneInv'
    BY <1>1, <1>5 DEF GoneInv
<1>13. QED
    BY <1>3, <1>4, <1>7, <1>8, <1>9, <1>10, <1>11, <1>12

\* The cache entry goes; a device's deletion goes on, a DELETE of all is answered.
LEMMA DeleteAllUnsubscribesStep ==
    ASSUME IInv, NEW r \in Requests, DeleteAllUnsubscribes(r)
    PROVE  IInv'
<1> USE DEF IInv
<1>1. rpc[r] = "cleared" /\ Active(r)
    BY DEF DeleteAllUnsubscribes, Active
<1>2. /\ request[r] \in Request /\ OfWholeDevice(request[r])
      /\ \A p \in Props : ~Has(Dev(r), p)
    BY <1>1, StageOK(r) DEF StageOK
<1>3. /\ UNCHANGED <<serving, rows, created, registered, phase>>
      /\ subs' = [subs EXCEPT ![Dev(r)] = {}]
      /\ \A s \in Requests \ {r} :
             rpc'[s] = rpc[s] /\ request'[s] = request[s] /\ todo'[s] = todo[s]
      /\ \/ rpc'[r] = "removing" /\ Op(r) = "deleteDevice" /\ UNCHANGED <<request, todo>>
         \/ rpc'[r] = "idle"
    BY DEF DeleteAllUnsubscribes, RemoveAllSubscriptions, Answered, Goto, Kept, storage, Typed,
           pollerRest, timerVars
<1>4. Dev(r) \in Devices
    BY <1>2 DEF Request, Dev
<1>5. /\ subs'[Dev(r)] = {}
      /\ \A d \in Devices \ {Dev(r)} : subs'[d] = subs[d]
    BY <1>3, <1>4 DEF Typed
<1>6. Typed'
    BY <1>3 DEF DeleteAllUnsubscribes, Answered, Goto, Typed
<1>7. IdInv' /\ GoneInv'
    BY <1>3, <1>5 DEF IdInv, GoneInv, Has
<1>8. \A s \in Requests : StageOK(s)'
    <2> SUFFICES ASSUME NEW s \in Requests PROVE StageOK(s)'
        OBVIOUS
    <2>1. CASE s = r
        BY <1>1, <1>3, <1>5, <2>1, StageOK(r) DEF StageOK, Active, Op, Dev, OfWholeDevice, Has
    <2>2. CASE s # r
        <3>1. Active(s) => Dev(s) \in Devices
            BY StageOK(s) DEF StageOK, Request, Dev
        <3>2. Active(s) /\ subs[Dev(s)] = {} => subs'[Dev(s)] = {}
            BY <1>5, <3>1
        <3>3. QED
            BY <1>3, <2>2, <3>2, StageOK(s) DEF StageOK, Active, Op, Dev, OfWholeDevice, Has
    <2>3. QED
        BY <2>1, <2>2
<1>9. (\A s, t \in Requests : s # t => Apart(s, t))'
    <2>1. \A s \in Requests : Active(s)' =>
              Active(s) /\ request'[s] = request[s] /\ todo'[s] = todo[s]
        BY <1>1, <1>3 DEF Active
    <2>2. QED
        BY <1>3, <2>1, StayApart DEF Named
<1>10. NoDuplicates'
    BY <1>1, <1>2, <1>3 DEF NoDuplicates, Active, Op, Dev, Has, OfWholeDevice
<1>11. \A d, q : Has(d, q)' <=> Has(d, q)
    BY <1>3 DEF Has
<1>12. CacheInv'
    <2> SUFFICES ASSUME serving.fails # "unknown", NEW d \in Devices, NEW q \in subs'[d]
                 PROVE  Has(d, q) \/ Deleting(d, q)'
        BY <1>3, <1>11 DEF CacheInv
    <2>1. q \in subs[d] /\ d # Dev(r)
        BY <1>5
    <2>2. Deleting(d, q) => Deleting(d, q)'
        BY <1>3, <2>1 DEF Deleting, Active, Dev
    <2>3. QED
        BY <2>1, <2>2 DEF CacheInv
<1>13. StorageInv'
    <2> SUFFICES ASSUME phase = "started", serving.fails = "no", ~serving.duplicates,
                        NEW d \in Devices, NEW q \in Props, Has(d, q)
                 PROVE  q \in subs'[d] \/ Creating(d, q)'
        BY <1>3, <1>11 DEF StorageInv
    <2>1. d # Dev(r)
        BY <1>2
    <2>2. Creating(d, q) => Creating(d, q)'
        BY <1>1, <1>3 DEF Creating, Active, Dev
    <2>3. QED
        BY <1>5, <2>1, <2>2 DEF StorageInv
<1>14. QED
    BY <1>6, <1>7, <1>8, <1>9, <1>10, <1>12, <1>13

LEMMA DeviceRemovedStep ==
    ASSUME IInv, NEW r \in Requests, DeviceRemoved(r)
    PROVE  IInv'
<1> USE DEF IInv
<1>1. /\ UNCHANGED <<serving, rows, created, subs, phase>>
      /\ rpc[r] = "removing" /\ rpc'[r] = "idle" /\ Active(r)
      /\ registered' = [registered EXCEPT ![Dev(r)] = FALSE]
      /\ \A s \in Requests \ {r} :
             rpc'[s] = rpc[s] /\ request'[s] = request[s] /\ todo'[s] = todo[s]
    BY DEF DeviceRemoved, Answered, Kept, Typed, Active, cacheVars, timerVars
<1>2. /\ request[r] \in Request /\ OfWholeDevice(request[r])
      /\ subs[Dev(r)] = {} /\ \A p \in Props : ~Has(Dev(r), p)
    BY <1>1, StageOK(r) DEF StageOK, OfWholeDevice, Op
<1>3. /\ \A d \in Devices \ {Dev(r)} : registered'[d] = registered[d]
      /\ registered' \in [Devices -> BOOLEAN]
    BY <1>1 DEF Typed
<1>4. Typed'
    BY <1>1, <1>3 DEF DeviceRemoved, Answered, Typed
<1>5. IdInv' /\ GoneInv'
    BY <1>1, <1>2, <1>3 DEF IdInv, GoneInv, Has
<1>6. \A s \in Requests : StageOK(s)'
    <2> SUFFICES ASSUME NEW s \in Requests, s # r PROVE StageOK(s)'
        BY <1>1 DEF StageOK, Active
    <2>1. Active(s) => Dev(s) \in Devices /\ Dev(s) # Dev(r)
        BY <1>1, <1>2, Apart(r, s), StageOK(s) DEF Apart, StageOK, Request, Dev
    <2>2. Active(s) => registered'[Dev(s)] = registered[Dev(s)]
        BY <1>3, <2>1
    <2>3. /\ rpc'[s] = rpc[s] /\ request'[s] = request[s] /\ todo'[s] = todo[s]
          /\ UNCHANGED <<rows, created, subs>>
        BY <1>1
    <2>4. QED
        BY <2>2, <2>3, StageOK(s) DEF StageOK, Active, Op, Dev, OfWholeDevice, Has
<1>7. (\A s, t \in Requests : s # t => Apart(s, t))'
    BY <1>1, StayApart DEF Active, Named
<1>8. NoDuplicates'
    BY <1>1 DEF NoDuplicates, Active, Op, Dev, Has
<1>9. CacheInv'
    BY <1>1 DEF CacheInv, Deleting, Active, Dev, Has
<1>10. StorageInv'
    BY <1>1 DEF StorageInv, Creating, Active, Dev, Has
<1>11. QED
    BY <1>4, <1>5, <1>6, <1>7, <1>8, <1>9, <1>10

\* A crash forgets every request and the cache.
LEMMA RestartStep ==
    ASSUME IInv, Restart
    PROVE  IInv'
<1> USE DEF IInv
<1>1. /\ UNCHANGED <<serving, rows, created, registered>>
      /\ \A r \in Requests : rpc'[r] = "idle"
      /\ \A d \in Devices : subs'[d] = {}
      /\ phase' = "loading"
    BY DEF Restart, storage
<1>2. Typed'
    BY <1>1 DEF Restart, storage, Typed
<1>3. IdInv' /\ NoDuplicates' /\ CacheInv' /\ StorageInv' /\ GoneInv'
    BY <1>1 DEF IdInv, NoDuplicates, CacheInv, StorageInv, GoneInv, Active, Has
<1>4. \A r \in Requests : StageOK(r)'
    BY <1>1 DEF StageOK, Active
<1>5. (\A r, s \in Requests : r # s => Apart(r, s))'
    BY <1>1 DEF Apart, Active
<1>6. QED
    BY <1>2, <1>3, <1>4, <1>5

\* The service starts with a cache of what is stored.
LEMMA StartStep ==
    ASSUME IInv, Start([d \in Devices |-> Stored(d)]), UNCHANGED apiVars
    PROVE  IInv'
<1> USE DEF IInv
<1>1. /\ UNCHANGED <<serving, rows, created, registered, request, rpc, todo>>
      /\ subs' = [d \in Devices |-> Stored(d)]
    BY DEF Start, apiVars, storage
<1>2. \A d \in Devices : \A p : p \in subs'[d] <=> Has(d, p)
    BY <1>1 DEF Stored, Has
<1>3. \A d, p : Has(d, p)' <=> Has(d, p)
    BY <1>1 DEF Has
<1>4. Typed'
    BY <1>1 DEF Typed, Stored
<1>5. IdInv' /\ GoneInv'
    <2>1. \A d \in Devices : \A p : Has(d, p) => p \in Props
        BY DEF Has, Typed
    <2>2. QED
        BY <1>1, <1>2, <1>3, <2>1 DEF IdInv, GoneInv
<1>6. \A r \in Requests : StageOK(r)'
    <2> SUFFICES ASSUME NEW r \in Requests PROVE StageOK(r)'
        OBVIOUS
    <2>1. rpc[r] = "removing" => subs'[Dev(r)] = {}
        <3>1. rpc[r] = "removing" => Dev(r) \in Devices /\ \A p \in Props : ~Has(Dev(r), p)
            BY StageOK(r) DEF StageOK, Active, Request, Dev
        <3>2. QED
            BY <1>2, <1>4, <3>1 DEF Typed
    <2>2. QED
        BY <1>1, <2>1, StageOK(r) DEF StageOK, Active, Op, Dev, OfWholeDevice, Has
<1>7. (\A r, s \in Requests : r # s => Apart(r, s))'
    BY <1>1, StayApart DEF Active, Named
<1>8. NoDuplicates'
    BY <1>1 DEF NoDuplicates, Active, Op, Dev, Has
<1>9. CacheInv' /\ StorageInv'
    BY <1>1, <1>2, <1>3 DEF CacheInv, StorageInv
<1>10. QED
    BY <1>4, <1>5, <1>6, <1>7, <1>8, <1>9

\* The poller's ticks touch neither the subscriptions nor storage.
LEMMA Elsewhere ==
    ASSUME IInv, UNCHANGED <<apiVars, subs, phase>>
    PROVE  IInv'
<1> USE DEF IInv
<1>1. UNCHANGED <<serving, rows, created, registered, request, rpc, todo, subs, phase>>
    BY DEF apiVars, storage
<1>2. Typed' /\ IdInv' /\ NoDuplicates' /\ GoneInv'
    BY <1>1 DEF Typed, IdInv, NoDuplicates, GoneInv, Active, Op, Dev, Has
<1>3. CacheInv' /\ StorageInv'
    BY <1>1 DEF CacheInv, StorageInv, Deleting, Creating, Active, Dev, Has
<1>4. \A r \in Requests : StageOK(r)'
    BY <1>1 DEF StageOK, Active, Op, Dev, OfWholeDevice, Has
<1>5. (\A r, s \in Requests : r # s => Apart(r, s))'
    BY <1>1, StayApart DEF Active, Named
<1>6. QED
    BY <1>2, <1>3, <1>4, <1>5

LEMMA PollerLeavesCache == PollerStep => UNCHANGED <<subs, phase>>
BY DEF PollerStep, Tick, ReadNext, DeviceAnswers, ReadingFails, Report, BackOff, EndTick,
       cacheVars, timerVars

\* A request that arrives overlaps none, and has done nothing yet.
LEMMA ArriveStep ==
    ASSUME IInv, serving.exclusive, NEW r \in Requests, NEW q \in Request, Arrive(r, q)
    PROVE  IInv'
<1> USE DEF IInv
<1>1. /\ UNCHANGED <<serving, rows, created, registered, subs, phase>>
      /\ rpc[r] = "idle" /\ ~Active(r)
      /\ request'[r] = q
      /\ rpc'[r] = IF q.op = "deleteAll" THEN "clearing" ELSE "finding"
      /\ todo'[r] = IF q.op = "post" THEN q.props ELSE {}
      /\ q.op = "delete" => q.row <= created
      /\ ~Overlaps(q)
      /\ q.op = "post" /\ ~serving.duplicates => q.props \cap Stored(q.device) = {}
      /\ \A s \in Requests \ {r} :
             rpc'[s] = rpc[s] /\ request'[s] = request[s] /\ todo'[s] = todo[s]
    BY DEF Arrive, storage, Typed, Active, cacheVars, pollerRest, timerVars
<1>2. q.device \in Devices /\ q.props \subseteq Props
    BY DEF Request
<1>3. \A d, p : Has(d, p)' <=> Has(d, p)
    BY <1>1 DEF Has
<1>4. Typed'
    BY <1>1, <1>2 DEF Arrive, Typed
<1>5. IdInv' /\ GoneInv'
    BY <1>1 DEF IdInv, GoneInv, Has
<1>6. \A s \in Requests : StageOK(s)'
    <2> SUFFICES ASSUME NEW s \in Requests PROVE StageOK(s)'
        OBVIOUS
    <2>1. CASE s = r
        BY <1>1, <2>1 DEF StageOK, Active, Op, Dev, OfWholeDevice
    <2>2. CASE s # r
        BY <1>1, <2>2, StageOK(s) DEF StageOK, Active, Op, Dev, OfWholeDevice, Has
    <2>3. QED
        BY <2>1, <2>2
<1>7. (\A s, t \in Requests : s # t => Apart(s, t))'
    <2>1. Named(request[r], todo[r])' = Named(q, {})
        BY <1>1 DEF Named
    <2>2. \A s \in Requests \ {r} :
              Named(request[s], todo[s])' = Named(request[s], todo[s])
        BY <1>1 DEF Named
    <2>3. ASSUME NEW s \in Requests, s # r, Active(s), Dev(s) = q.device
          PROVE  /\ ~OfWholeDevice(q) /\ ~OfWholeDevice(request[s])
                 /\ Named(q, {}) \cap Named(request[s], todo[s]) = {}
        BY <1>1, <2>3 DEF Overlaps
    <2>4. ASSUME NEW s \in Requests, s # r PROVE Apart(r, s)' /\ Apart(s, r)'
        <3> SUFFICES ASSUME Active(s)', Dev(r)' = Dev(s)'
                     PROVE  /\ ~OfWholeDevice(request[r])' /\ ~OfWholeDevice(request[s])'
                            /\ (Named(request[r], todo[r]) \cap Named(request[s], todo[s]))' = {}
            BY DEF Apart
        <3>1. Active(s) /\ Dev(s) = q.device
            BY <1>1, <2>4 DEF Active, Dev
        <3>2. QED
            BY <1>1, <2>1, <2>2, <2>3, <2>4, <3>1 DEF OfWholeDevice
    <2>5. ASSUME NEW s \in Requests, NEW t \in Requests, s # t, s # r, t # r
          PROVE  Apart(s, t)'
        <3>1. Apart(s, t)
            BY <2>5
        <3>2. QED
            BY <1>1, <2>2, <2>5, <3>1 DEF Apart, Active, Dev, OfWholeDevice
    <2>6. QED
        BY <2>4, <2>5
<1>8. NoDuplicates'
    <2> SUFFICES ASSUME ~serving.duplicates PROVE NoDuplicates'
        BY <1>1 DEF NoDuplicates
    <2>1. q.op = "post" => \A p \in q.props : ~Has(q.device, p)
        BY <1>1 DEF Stored, Has
    <2>2. rpc'[r] \notin {"deleted", "deleting"}
        BY <1>1
    <2>3. (\A s \in Requests : Active(s) /\ (Op(s) = "post" \/ rpc[s] = "deleted") =>
              \A p \in todo[s] : ~Has(Dev(s), p))'
        <3>1. (Active(r) /\ (Op(r) = "post" \/ rpc[r] = "deleted") =>
                  \A p \in todo[r] : ~Has(Dev(r), p))'
            BY <1>1, <2>1, <2>2 DEF Op, Dev, Has
        <3>2. ASSUME NEW s \in Requests, s # r
              PROVE  (Active(s) /\ (Op(s) = "post" \/ rpc[s] = "deleted") =>
                         \A p \in todo[s] : ~Has(Dev(s), p))'
            BY <1>1, <3>2 DEF NoDuplicates, Active, Op, Dev, Has
        <3>3. QED
            BY <3>1, <3>2
    <2>4. QED
        BY <1>1, <2>2, <2>3 DEF NoDuplicates, Dev
<1>9. CacheInv'
    <2>1. \A d, p : Deleting(d, p) => Deleting(d, p)'
        BY <1>1 DEF Deleting, Active, Dev
    <2>2. QED
        BY <1>1, <1>3, <2>1 DEF CacheInv
<1>10. StorageInv'
    <2>1. \A d, p : Creating(d, p) => Creating(d, p)'
        BY <1>1 DEF Creating, Active, Dev
    <2>2. QED
        BY <1>1, <1>3, <2>1 DEF StorageInv
<1>11. QED
    BY <1>4, <1>5, <1>6, <1>7, <1>8, <1>9, <1>10

-----------------------------------------------------------------------------
LEMMA RequestStepInv ==
    ASSUME IInv, NEW r \in Requests, RequestStep(r)
    PROVE  IInv'
<1> HIDE DEF IInv
<1>1. QED
    BY PostAcceptedStep, RejectedStep, PostCreatesStep, PostSubscribesStep, DeleteFindsStep,
       DeleteAppliesStep, DeleteUnsubscribesStep, DeviceFoundStep, DeleteAllAppliesStep,
       DeleteAllUnsubscribesStep, DeviceRemovedStep, StorageFailsStep
    DEF RequestStep

\* How requests are sent is settled at the beginning.
LEMMA ServingKept == [ApiNext]_<<vars, apiVars>> => UNCHANGED serving
<1>1. ApiNext => UNCHANGED serving
    BY DEF ApiNext, RequestStep, Arrive, PostAccepted, Rejected, PostCreates, PostSubscribes,
           DeleteFinds, DeleteApplies, DeleteUnsubscribes, DeviceFound, DeleteAllApplies,
           DeleteAllUnsubscribes, DeviceRemoved, StorageFails, Restart, Answered, Goto, Kept,
           apiVars
<1>2. QED
    BY <1>1 DEF apiVars

LEMMA NextInv == serving.exclusive /\ IInv /\ [ApiNext]_<<vars, apiVars>> => IInv'
<1> SUFFICES ASSUME serving.exclusive, IInv, [ApiNext]_<<vars, apiVars>> PROVE IInv'
    OBVIOUS
<1> HIDE DEF IInv
<1>1. CASE \E r \in Requests, q \in Request : Arrive(r, q)
    BY <1>1, ArriveStep
<1>2. CASE \E r \in Requests : RequestStep(r)
    BY <1>2, RequestStepInv
<1>3. CASE Restart
    BY <1>3, RestartStep
<1>4. CASE Start([d \in Devices |-> Stored(d)]) /\ UNCHANGED apiVars
    BY <1>4, StartStep
<1>5. CASE PollerStep /\ UNCHANGED apiVars
    BY <1>5, PollerLeavesCache, Elsewhere
<1>6. CASE UNCHANGED <<vars, apiVars>>
    BY <1>6, Elsewhere DEF vars, cacheVars, timerVars
<1>7. QED
    BY <1>1, <1>2, <1>3, <1>4, <1>5, <1>6 DEF ApiNext

\* Nobody is at a stage that explains a difference: there is none.
LEMMA IInvLeads == IInv => StorageLeads
<1> SUFFICES ASSUME IInv PROVE StorageLeads
    OBVIOUS
<1>1. ASSUME NEW d \in Devices, Quiet(d) PROVE \A p : ~Deleting(d, p) /\ ~Creating(d, p)
    BY <1>1 DEF Quiet, Deleting, Creating, Dev
<1>2. \A d \in Devices : \A p : p \in Stored(d) <=> Has(d, p)
    BY DEF Stored, Has
<1>3. \A d \in Devices : Stored(d) \subseteq Props /\ subs[d] \subseteq Props
    BY DEF IInv, Typed, Stored
<1>4. CacheFollowsStorage
    <2> SUFFICES ASSUME NEW d \in Devices, phase = "started", Quiet(d)
                 PROVE  /\ serving.fails # "unknown" => subs[d] \subseteq Stored(d)
                        /\ serving.fails = "no" /\ ~serving.duplicates => subs[d] = Stored(d)
        BY DEF CacheFollowsStorage
    <2>1. serving.fails # "unknown" => subs[d] \subseteq Stored(d)
        BY <1>1, <1>2 DEF IInv, CacheInv
    <2>2. serving.fails = "no" /\ ~serving.duplicates => Stored(d) \subseteq subs[d]
        BY <1>1, <1>2, <1>3 DEF IInv, StorageInv
    <2>3. QED
        BY <2>1, <2>2
<1>5. DeletedDeviceForgotten
    BY <1>2, <1>3 DEF DeletedDeviceForgotten, IInv, GoneInv
<1>6. QED
    BY <1>4, <1>5 DEF StorageLeads

\* The notification handlers write storage first and the cache next: as long as requests that
\* touch one subscription do not overlap, no rejected call and no crash leaves a subscription
\* polled that is not stored, and a deleted device leaves nothing in either.
THEOREM StorageIsAhead == ApiSpec => []StorageLeads
<1> DEFINE Inv == serving.exclusive => IInv
<1>1. ApiInit => Inv
    BY InitInv
<1>2. Inv /\ [ApiNext]_<<vars, apiVars>> => Inv'
    <2> HIDE DEF IInv
    <2>1. QED
        BY NextInv, ServingKept
<1>3. Inv => StorageLeads
    <2>1. ~serving.exclusive => StorageLeads
        BY DEF StorageLeads, CacheFollowsStorage, DeletedDeviceForgotten
    <2>2. QED
        BY <2>1, IInvLeads
<1>4. QED
    BY <1>1, <1>2, <1>3, PTL DEF ApiSpec
=============================================================================
