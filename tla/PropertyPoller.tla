--------------------------- MODULE PropertyPoller ---------------------------
(***************************************************************************)
(* DevicePropertyPollerService of apis/miot-bridge-api: a self re-arming   *)
(* timer whose ticks read every subscribed property of every device that   *)
(* is not backed off, one device after the other, and emit an event for    *)
(* each changed value.                                                     *)
(*                                                                         *)
(* The awaits inside a tick (one getProperties per device) let everything  *)
(* else in the process run: the notification handlers change the           *)
(* subscription cache (AddSubscriptions, ...), commands notify on their    *)
(* own, the service is destroyed.  getProperties is one asynchronous       *)
(* reading that ends by MiotDevice's timers; a value NoValue stands for a  *)
(* property the device refuses or the spec no longer lists.  The map's     *)
(* insertion order, which fixes the order of the devices in a tick, is     *)
(* abstracted to any order; polling is enabled in the configuration.       *)
(***************************************************************************)
EXTENDS Naturals

CONSTANTS
    Devices, Props, Values,
    NoValue,          \* "undefined": nothing read yet, or nothing to read
    MaxErrorCount,    \* polling.maxErrorCount
    ErrorSkipCycles,  \* polling.errorSkipCycles
    Modes,            \* the configurations and environments considered
    MaxChanges        \* bound: changes outside the poller in one behaviour

\* onChange: polling.dispatchOnChange; commands: Get/SetProperty commands are served too;
\* handlers: subscriptions are changed at any moment
Mode == [onChange : BOOLEAN, commands : BOOLEAN, handlers : BOOLEAN]

ASSUME PollerAssumption ==
    /\ MaxErrorCount \in Nat \ {0}
    /\ ErrorSkipCycles \in Nat
    /\ MaxChanges \in Nat
    /\ Modes \subseteq Mode
    /\ NoValue \notin Values

VARIABLES
    mode,        \* the member of Modes this behaviour lives in
    cached,      \* the devices with an entry in _subscriptions
    subs,        \* subs[d]: the properties in that entry
    lastValues,  \* lastValues[d][p]: _lastValues under "d:p"
    errorCounts, \* errorCounts[d]: consecutive failures, 0 when absent
    skipCycles,  \* skipCycles[d]: ticks still to pass over, 0 when absent
    phase,       \* "loading", "started", "destroyed"
    timerSet,    \* _timer is defined
    timers,      \* timeouts pending in the event loop
    step,        \* where the running tick is; "idle" when _ticking is false
    due,         \* the poll targets the running tick has left
    target,      \* the target being read
    answer,      \* answer[p]: what the reading brought
    actual,      \* actual[d][p]: the value the device has
    up,          \* up[d]: the record of d exists and the device answers
    told,        \* told[d][p]: the last value NotificationDispatchService received
    command,     \* a command's observation between its await and its notification
    changes      \* counter for MaxChanges

cacheVars == <<cached, subs, lastValues>>
backoffVars == <<errorCounts, skipCycles>>
timerVars == <<phase, timerSet, timers>>
tickVars == <<step, due, target, answer>>
worldVars == <<actual, up, command, changes>>
vars == <<mode, cacheVars, backoffVars, timerVars, tickVars, worldVars, told>>

Reading == Values \cup {NoValue}
Target == [device : Devices, props : SUBSET Props]
Observation == [device : Devices, prop : Props, value : Values]

TypeOK ==
    /\ mode \in Modes
    /\ cached \in SUBSET Devices
    /\ subs \in [Devices -> SUBSET Props]
    /\ lastValues \in [Devices -> [Props -> Reading]]
    /\ errorCounts \in [Devices -> Nat]
    /\ skipCycles \in [Devices -> 0 .. ErrorSkipCycles]
    /\ phase \in {"loading", "started", "destroyed"}
    /\ timerSet \in BOOLEAN
    /\ timers \in Nat
    /\ step \in {"idle", "choosing", "asked", "answered", "failed"}
    /\ due \in SUBSET Target
    /\ step \in {"asked", "answered", "failed"} => target \in Target
    /\ answer \in [Props -> Reading]
    /\ actual \in [Devices -> [Props -> Reading]]
    /\ up \in [Devices -> BOOLEAN]
    /\ told \in [Devices -> [Props -> Reading]]
    /\ command \in Observation \cup {NoValue}
    /\ changes \in 0 .. MaxChanges

Nothing == [p \in Props |-> NoValue]

Init ==
    /\ mode \in Modes
    /\ cached = {}
    /\ subs = [d \in Devices |-> {}]
    /\ lastValues = [d \in Devices |-> Nothing]
    /\ errorCounts = [d \in Devices |-> 0]
    /\ skipCycles = [d \in Devices |-> 0]
    /\ phase = "loading" /\ timerSet = FALSE /\ timers = 0
    /\ step = "idle" /\ due = {} /\ target = NoValue /\ answer = Nothing
    /\ actual \in [Devices -> [Props -> Values]]
    /\ up \in [Devices -> BOOLEAN]
    /\ told = [d \in Devices |-> Nothing]
    /\ command = NoValue
    /\ changes = 0

-----------------------------------------------------------------------------
(* The subscription cache. *)

AddSubscriptions(d, ps) ==
    /\ cached' = cached \cup {d}
    /\ subs' = [subs EXCEPT ![d] = @ \cup ps]
    /\ UNCHANGED lastValues

\* The entry goes with its last property; the last value goes in any case.
RemoveSubscription(d, p) ==
    /\ subs' = [subs EXCEPT ![d] = @ \ {p}]
    /\ cached' = IF subs[d] \ {p} = {} THEN cached \ {d} ELSE cached
    /\ lastValues' = [lastValues EXCEPT ![d][p] = NoValue]

RemoveAllSubscriptions(d) ==
    /\ cached' = cached \ {d}
    /\ subs' = [subs EXCEPT ![d] = {}]
    /\ lastValues' = [lastValues EXCEPT ![d] = Nothing]

-----------------------------------------------------------------------------
(* The timer. *)

Ticking == step # "idle"

\* scheduleNext: the handle of the new timeout is kept.
ScheduleNext == timers' = timers + 1 /\ timerSet' = TRUE

\* $onInit: hydrate the cache with what storage holds, then arm the timer.
Start(stored) ==
    /\ phase = "loading"
    /\ phase' = "started"
    /\ subs' = stored
    /\ cached' = {d \in Devices : stored[d] # {}}
    /\ ScheduleNext
    /\ UNCHANGED <<mode, lastValues, backoffVars, tickVars, worldVars, told>>

\* Mutant of Stop: the handle stays set, as it does when a timeout fires.
StopKeepingHandle ==
    /\ phase = "started"
    /\ phase' = "destroyed"
    /\ timers' = IF timerSet /\ timers > 0 THEN timers - 1 ELSE timers
    /\ UNCHANGED <<mode, timerSet, cacheVars, backoffVars, tickVars, worldVars, told>>

\* $onDestroy: stop().  The handle may be that of a timeout that already fired.
Stop ==
    /\ phase = "started"
    /\ phase' = "destroyed"
    /\ timers' = IF timerSet /\ timers > 0 THEN timers - 1 ELSE timers
    /\ timerSet' = FALSE
    /\ UNCHANGED <<mode, cacheVars, backoffVars, tickVars, worldVars, told>>

Passed(d) == d \in cached /\ skipCycles[d] > 0

\* Mutant of Tick: the remaining cycles are not counted down.
TickNotCounting ==
    /\ timers > 0
    /\ timers' = timers - 1
    /\ IF Ticking
       THEN UNCHANGED <<step, due>>
       ELSE /\ step' = "choosing"
            /\ due' = {[device |-> d, props |-> subs[d]] : d \in {e \in cached : ~Passed(e)}}
    /\ UNCHANGED <<mode, phase, timerSet, cacheVars, backoffVars, target, answer, worldVars,
                   told>>

\* The timeout fires: tick, pollDueDevices and dueDevices up to the first await.  The
\* targets are a snapshot of the cache; a device in back-off is passed over and counted.
Tick ==
    /\ timers > 0
    /\ timers' = timers - 1
    /\ IF Ticking
       THEN UNCHANGED <<step, due, skipCycles>>
       ELSE /\ step' = "choosing"
            /\ due' = {[device |-> d, props |-> subs[d]] : d \in {e \in cached : ~Passed(e)}}
            /\ skipCycles' = [d \in Devices |->
                                 IF Passed(d) THEN skipCycles[d] - 1 ELSE skipCycles[d]]
    /\ UNCHANGED <<mode, phase, timerSet, cacheVars, errorCounts, target, answer, worldVars,
                   told>>

\* pollDevice: the next target's properties are asked for.
ReadNext ==
    /\ step = "choosing"
    /\ \E t \in due : target' = t /\ due' = due \ {t}
    /\ step' = "asked"
    /\ UNCHANGED <<mode, cacheVars, backoffVars, timerVars, answer, worldVars, told>>

\* None of the target's properties is in the device's spec (or it has none to begin with).
NothingToRead == \A p \in target.props : actual[target.device][p] = NoValue

\* getProperties reads the device, which it leaves alone when there is nothing to read.
DeviceAnswers ==
    /\ step = "asked"
    /\ up[target.device] \/ NothingToRead
    /\ step' = "answered"
    /\ answer' = [p \in Props |-> IF p \in target.props THEN actual[target.device][p]
                                  ELSE NoValue]
    /\ UNCHANGED <<mode, cacheVars, backoffVars, timerVars, due, target, worldVars, told>>

\* getProperties rejects: no such device, a timeout, a transport or device error.
ReadingFails ==
    /\ step = "asked"
    /\ ~up[target.device]
    /\ step' = "failed"
    /\ UNCHANGED <<mode, cacheVars, backoffVars, timerVars, due, target, answer, worldVars,
                   told>>

Dispatched(d, p) ==
    /\ answer[p] # NoValue
    /\ mode.onChange => lastValues[d][p] # answer[p]

\* Mutant of Report: the event is lost and the value remembered (an emit before "on").
ReportSilently ==
    /\ step = "answered"
    /\ step' = "choosing"
    /\ lastValues' = [lastValues EXCEPT ![target.device] = [p \in Props |->
                         IF Dispatched(target.device, p) THEN answer[p] ELSE @[p]]]
    /\ told' = told
    /\ errorCounts' = [errorCounts EXCEPT ![target.device] = 0]
    /\ UNCHANGED <<mode, cached, subs, skipCycles, timerVars, due, target, answer, worldVars>>

\* readDevice after a successful reading: whatever became of the subscription since, each
\* changed value is remembered and emitted; the error count is cleared.
Report ==
    LET d == target.device IN
    /\ step = "answered"
    /\ step' = "choosing"
    /\ lastValues' = [lastValues EXCEPT ![d] =
                         [p \in Props |-> IF Dispatched(d, p) THEN answer[p] ELSE @[p]]]
    /\ told' = [told EXCEPT ![d] =
                   [p \in Props |-> IF Dispatched(d, p) THEN answer[p] ELSE @[p]]]
    /\ errorCounts' = [errorCounts EXCEPT ![d] = 0]
    /\ UNCHANGED <<mode, cached, subs, skipCycles, timerVars, due, target, answer, worldVars>>

\* readDevice after a failed reading: count it, and pause the device at the maximum.
BackOff ==
    LET d == target.device
        count == errorCounts[d] + 1
    IN
    /\ step = "failed"
    /\ step' = "choosing"
    /\ IF count >= MaxErrorCount
       THEN /\ errorCounts' = [errorCounts EXCEPT ![d] = 0]
            /\ skipCycles' = [skipCycles EXCEPT ![d] = ErrorSkipCycles]
       ELSE /\ errorCounts' = [errorCounts EXCEPT ![d] = count]
            /\ UNCHANGED skipCycles
    /\ UNCHANGED <<mode, cacheVars, timerVars, due, target, answer, worldVars, told>>

\* The finally of tick: re-arm unless the service was destroyed meanwhile.
EndTick ==
    /\ step = "choosing"
    /\ due = {}
    /\ step' = "idle"
    /\ IF timerSet THEN ScheduleNext ELSE UNCHANGED <<timerSet, timers>>
    /\ UNCHANGED <<mode, phase, cacheVars, backoffVars, due, target, answer, worldVars, told>>

-----------------------------------------------------------------------------
(* Everything around the poller. *)

Change == changes < MaxChanges /\ changes' = changes + 1

\* The notification handlers' calls, at any await of the tick.
HandlersCall(d) ==
    /\ mode.handlers
    /\ phase # "loading"
    /\ Change
    /\ \/ \E ps \in SUBSET Props : AddSubscriptions(d, ps)
       \/ \E p \in Props : RemoveSubscription(d, p)
       \/ RemoveAllSubscriptions(d)
    /\ UNCHANGED <<mode, backoffVars, timerVars, tickVars, actual, up, command, told>>

\* The device's value changes by itself, it (dis)appears, or its record is deleted.
DeviceChanges(d) ==
    /\ Change
    /\ \/ /\ \E p \in Props, v \in Reading : actual' = [actual EXCEPT ![d][p] = v]
          /\ UNCHANGED up
       \/ up' = [up EXCEPT ![d] = ~@] /\ UNCHANGED actual
    /\ UNCHANGED <<mode, cacheVars, backoffVars, timerVars, tickVars, command, told>>

\* DeviceCommandService.execute reads (GetProperty) or writes (SetProperty) a property.
CommandRuns(d, p) ==
    /\ mode.commands
    /\ phase # "loading"
    /\ command = NoValue
    /\ up[d] /\ actual[d][p] # NoValue
    /\ Change
    /\ \E v \in Values :
          /\ actual' = [actual EXCEPT ![d][p] = v]
          /\ command' = [device |-> d, prop |-> p, value |-> v]
    /\ UNCHANGED <<mode, cacheVars, backoffVars, timerVars, tickVars, up, told>>

\* The rest of execute after the await: the observation goes straight to the dispatcher;
\* the poller's _lastValues do not hear of it.
CommandNotifies ==
    /\ command # NoValue
    /\ told' = [told EXCEPT ![command.device][command.prop] = command.value]
    /\ command' = NoValue
    /\ UNCHANGED <<mode, cacheVars, backoffVars, timerVars, tickVars, actual, up, changes>>

-----------------------------------------------------------------------------
PollerStep ==
    Tick \/ ReadNext \/ DeviceAnswers \/ ReadingFails \/ Report \/ BackOff \/ EndTick

Surroundings ==
    \/ Stop
    \/ \E d \in Devices : HandlersCall(d) \/ DeviceChanges(d)
    \/ \E d \in Devices, p \in Props : CommandRuns(d, p)
    \/ CommandNotifies

Next ==
    \/ \E stored \in [Devices -> SUBSET Props] : Start(stored)
    \/ PollerStep
    \/ Surroundings

Spec == Init /\ [][Next]_vars

\* A due timer fires and a settled promise continues; getProperties settles by its own
\* timers (CallSettles of MiotDevice).
Fairness == WF_vars(PollerStep) /\ WF_vars(CommandNotifies)

FairSpec == Spec /\ Fairness

-----------------------------------------------------------------------------
(* Properties. *)

\* Once started and until destroyed there is exactly one chain of ticks: a timeout is
\* pending or a tick runs, never both and never neither; a destroyed poller arms none,
\* even when it was destroyed in the middle of a tick.
OneTimer ==
    /\ phase = "started" => timers = IF Ticking THEN 0 ELSE 1
    /\ phase # "started" => timers = 0

\* A device in back-off starts its next round with a clean count and is not read while it
\* is paused; the count never reaches the maximum.
BackoffSound ==
    \A d \in Devices :
        /\ errorCounts[d] < MaxErrorCount
        /\ skipCycles[d] > 0 => /\ errorCounts[d] = 0
                                /\ \A t \in due : t.device # d
                                /\ step \in {"asked", "answered", "failed"} => target.device # d

\* The loop runs once and never reads a device it has paused.
LoopSound == OneTimer /\ BackoffSound

\* No device is forgotten: as long as it keeps an entry in the cache it is read again and
\* again, whatever fails, however often it was paused, and whichever other device is dead.
PolledAgain ==
    \A d \in Devices :
        (<>[](phase = "started" /\ d \in cached))
            => []<>(step \in {"asked", "answered", "failed"} /\ target.device = d)

\* The consumer catches up: a property that stays subscribed on a device that stays up and
\* settles on a value ends up known to the consumer with that value, whatever was removed,
\* re-added or changed during readings before.  Observations of commands bypass the
\* poller's last values, so with them this needs dispatchOnChange = false.
ConsumerCatchesUp ==
    (mode.onChange => ~mode.commands) =>
        \A d \in Devices, p \in Props :
            (<>[](/\ phase = "started" /\ up[d] /\ p \in subs[d]
                  /\ actual[d][p] # NoValue))
                => <>[](told[d][p] = actual[d][p])
=============================================================================
