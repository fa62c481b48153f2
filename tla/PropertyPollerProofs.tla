------------------------ MODULE PropertyPollerProofs ------------------------
(***************************************************************************)
(* Proofs about PropertyPoller for any devices, properties, values,        *)
(* back-off parameters and number of changes around the poller.            *)
(***************************************************************************)
EXTENDS PropertyPoller, TLAPS

Active == step \in {"asked", "answered", "failed"}

\* The targets left and the one being read are of different devices: a device's failure is
\* counted once a tick, and its pause starts when nothing of it is left to read.
TargetsDistinct ==
    /\ \A s, t \in due : s.device = t.device => s = t
    /\ Active => \A t \in due : t.device # target.device

\* The handle is set exactly while the poller lives; no tick runs before it was started.
HandleInv ==
    /\ timerSet <=> phase = "started"
    /\ phase = "loading" => ~Ticking

IInv == TypeOK /\ TargetsDistinct /\ HandleInv /\ OneTimer /\ BackoffSound

-----------------------------------------------------------------------------
LEMMA InitInv == Init => IInv
<1> SUFFICES ASSUME Init PROVE IInv
    OBVIOUS
<1>1. Nothing \in [Props -> Reading]
    BY DEF Nothing, Reading
<1>2. actual \in [Devices -> [Props -> Reading]]
    BY DEF Init, Reading
<1>3. TypeOK
    <2>1. /\ errorCounts \in [Devices -> Nat]
          /\ skipCycles \in [Devices -> 0 .. ErrorSkipCycles]
          /\ changes \in 0 .. MaxChanges
          /\ timers \in Nat
        BY PollerAssumption DEF Init
    <2>2. /\ lastValues \in [Devices -> [Props -> Reading]]
          /\ told \in [Devices -> [Props -> Reading]]
          /\ answer \in [Props -> Reading]
        BY <1>1 DEF Init
    <2>3. QED
        BY <1>2, <2>1, <2>2 DEF Init, TypeOK
<1>4. TargetsDistinct /\ HandleInv /\ OneTimer /\ BackoffSound
    BY PollerAssumption
       DEF Init, TargetsDistinct, HandleInv, OneTimer, BackoffSound, Active, Ticking
<1>5. QED
    BY <1>3, <1>4 DEF IInv

\* A step that leaves the timer, the tick and the back-off alone keeps everything but types.
LEMMA QuietStep ==
    ASSUME TargetsDistinct, HandleInv, OneTimer, BackoffSound,
           UNCHANGED <<backoffVars, timerVars, tickVars>>
    PROVE  TargetsDistinct' /\ HandleInv' /\ OneTimer' /\ BackoffSound'
BY DEF TargetsDistinct, HandleInv, OneTimer, BackoffSound, Active, Ticking, backoffVars,
       timerVars, tickVars

LEMMA StartStep ==
    ASSUME IInv, NEW stored \in [Devices -> SUBSET Props], Start(stored)
    PROVE  IInv'
<1> USE DEF Start, ScheduleNext, IInv, backoffVars, tickVars, worldVars
<1>1. TypeOK'
    BY DEF TypeOK
<1>2. TargetsDistinct' /\ HandleInv' /\ OneTimer' /\ BackoffSound'
    BY DEF TypeOK, TargetsDistinct, HandleInv, OneTimer, BackoffSound, Active, Ticking
<1>3. QED
    BY <1>1, <1>2

LEMMA StopStep ==
    ASSUME IInv, Stop
    PROVE  IInv'
<1> USE DEF Stop, IInv, backoffVars, tickVars, worldVars, cacheVars
<1>1. TypeOK'
    <2>1. timers' \in Nat
        BY DEF TypeOK
    <2>2. QED
        BY <2>1 DEF TypeOK
<1>2. TargetsDistinct' /\ HandleInv' /\ OneTimer' /\ BackoffSound'
    BY DEF TypeOK, TargetsDistinct, HandleInv, OneTimer, BackoffSound, Active, Ticking
<1>3. QED
    BY <1>1, <1>2

LEMMA TickStep ==
    ASSUME IInv, Tick
    PROVE  IInv'
<1> USE DEF IInv
<1>1. ~Ticking
    BY DEF Tick, OneTimer, TypeOK
<1>2. /\ step' = "choosing" /\ timers' = timers - 1
      /\ due' = {[device |-> d, props |-> subs[d]] : d \in {e \in cached : ~Passed(e)}}
      /\ skipCycles' = [d \in Devices |->
                           IF Passed(d) THEN skipCycles[d] - 1 ELSE skipCycles[d]]
      /\ UNCHANGED <<mode, phase, timerSet, cacheVars, errorCounts, target, answer, worldVars,
                     told>>
    BY <1>1 DEF Tick
<1>3. due' \in SUBSET Target
    BY <1>2 DEF TypeOK, Target
<1>4. skipCycles' \in [Devices -> 0 .. ErrorSkipCycles]
    BY <1>2, PollerAssumption DEF TypeOK, Passed
<1>5. TypeOK'
    BY <1>2, <1>3, <1>4, Tick DEF TypeOK, Tick, cacheVars, worldVars
<1>6. TargetsDistinct' /\ HandleInv'
    BY <1>1, <1>2 DEF TargetsDistinct, HandleInv, Active, Ticking, OneTimer, Tick, TypeOK
<1>7. OneTimer'
    BY <1>1, <1>2, Tick DEF OneTimer, Ticking, Tick, TypeOK
<1>8. BackoffSound'
    <2> SUFFICES ASSUME NEW d \in Devices, skipCycles'[d] > 0
                 PROVE  errorCounts[d] = 0 /\ \A t \in due' : t.device # d
        BY <1>2 DEF BackoffSound
    <2>1. skipCycles[d] > 0
        BY <1>2 DEF TypeOK
    <2>2. \A t \in due' : t.device \in cached /\ ~Passed(t.device)
        BY <1>2
    <2>3. QED
        BY <2>1, <2>2 DEF BackoffSound, Passed
<1>9. QED
    BY <1>5, <1>6, <1>7, <1>8

LEMMA ReadNextStep ==
    ASSUME IInv, ReadNext
    PROVE  IInv'
<1> USE DEF ReadNext, IInv, cacheVars, backoffVars, timerVars, worldVars
<1>1. TypeOK'
    BY DEF TypeOK
<1>2. TargetsDistinct' /\ BackoffSound'
    BY DEF TypeOK, TargetsDistinct, BackoffSound, Active
<1>3. HandleInv' /\ OneTimer'
    BY DEF HandleInv, OneTimer, Ticking
<1>4. QED
    BY <1>1, <1>2, <1>3

LEMMA ReadingStep ==
    ASSUME IInv, DeviceAnswers \/ ReadingFails
    PROVE  IInv'
<1> USE DEF DeviceAnswers, ReadingFails, IInv, cacheVars, backoffVars, timerVars, worldVars
<1>1. TypeOK'
    <2>1. CASE DeviceAnswers
        <3>1. target \in Target
            BY <2>1 DEF TypeOK
        <3>2. answer' \in [Props -> Reading]
            BY <2>1, <3>1 DEF TypeOK, Target, Reading
        <3>3. QED
            BY <2>1, <3>1, <3>2 DEF TypeOK
    <2>2. CASE ReadingFails
        BY <2>2 DEF TypeOK
    <2>3. QED
        BY <2>1, <2>2
<1>2. TargetsDistinct' /\ BackoffSound'
    BY DEF TypeOK, TargetsDistinct, BackoffSound, Active
<1>3. HandleInv' /\ OneTimer'
    BY DEF HandleInv, OneTimer, Ticking
<1>4. QED
    BY <1>1, <1>2, <1>3

LEMMA ReportStep ==
    ASSUME IInv, Report
    PROVE  IInv'
<1> USE DEF Report, IInv, timerVars, worldVars
<1>1. target \in Target /\ target.device \in Devices
    BY DEF TypeOK, Target
<1>2. /\ lastValues' \in [Devices -> [Props -> Reading]]
      /\ told' \in [Devices -> [Props -> Reading]]
    BY <1>1 DEF TypeOK
<1>3. TypeOK'
    BY <1>1, <1>2 DEF TypeOK
<1>4. TargetsDistinct' /\ BackoffSound'
    BY <1>1, PollerAssumption DEF TypeOK, TargetsDistinct, BackoffSound, Active
<1>5. HandleInv' /\ OneTimer'
    BY DEF HandleInv, OneTimer, Ticking
<1>6. QED
    BY <1>3, <1>4, <1>5

LEMMA BackOffStep ==
    ASSUME IInv, BackOff
    PROVE  IInv'
<1> USE DEF BackOff, IInv, timerVars, worldVars, cacheVars
<1>1. target \in Target /\ target.device \in Devices
    BY DEF TypeOK, Target
<1>2. /\ errorCounts' \in [Devices -> Nat]
      /\ skipCycles' \in [Devices -> 0 .. ErrorSkipCycles]
      /\ \A e \in Devices : errorCounts'[e] < MaxErrorCount
      /\ \A e \in Devices : e # target.device =>
            errorCounts'[e] = errorCounts[e] /\ skipCycles'[e] = skipCycles[e]
      /\ skipCycles'[target.device] > 0 => errorCounts'[target.device] = 0
    <2> DEFINE d == target.device
               count == errorCounts[d] + 1
    <2>1. errorCounts[d] \in Nat /\ ~(skipCycles[d] > 0) /\ skipCycles[d] \in Nat
        BY <1>1 DEF TypeOK, BackoffSound
    <2>2. CASE count >= MaxErrorCount
        <3>1. /\ errorCounts' = [errorCounts EXCEPT ![d] = 0]
              /\ skipCycles' = [skipCycles EXCEPT ![d] = ErrorSkipCycles]
            BY <2>2
        <3>2. QED
            BY <1>1, <3>1, PollerAssumption DEF TypeOK, BackoffSound
    <2>3. CASE ~(count >= MaxErrorCount)
        <3>1. errorCounts' = [errorCounts EXCEPT ![d] = count] /\ skipCycles' = skipCycles
            BY <2>3
        <3>2. QED
            BY <1>1, <2>1, <2>3, <3>1, PollerAssumption DEF TypeOK, BackoffSound
    <2>4. QED
        BY <2>2, <2>3
<1>3. TypeOK'
    BY <1>2 DEF TypeOK
<1>4. TargetsDistinct'
    BY DEF TargetsDistinct, Active
<1>5. BackoffSound'
    BY <1>2 DEF TypeOK, TargetsDistinct, BackoffSound, Active
<1>6. HandleInv' /\ OneTimer'
    BY DEF HandleInv, OneTimer, Ticking
<1>7. QED
    BY <1>3, <1>4, <1>5, <1>6

LEMMA EndTickStep ==
    ASSUME IInv, EndTick
    PROVE  IInv'
<1> USE DEF EndTick, ScheduleNext, IInv, cacheVars, backoffVars, worldVars
<1>1. TypeOK'
    <2>1. CASE timerSet
        <3>1. timers' = timers + 1 /\ timerSet' = TRUE
            BY <2>1
        <3>2. QED
            BY <3>1 DEF TypeOK
    <2>2. CASE ~timerSet
        <3>1. timers' = timers /\ timerSet' = timerSet
            BY <2>2
        <3>2. QED
            BY <3>1 DEF TypeOK
    <2>3. QED
        BY <2>1, <2>2
<1>2. TargetsDistinct' /\ BackoffSound'
    BY DEF TypeOK, TargetsDistinct, BackoffSound, Active
<1>3. HandleInv' /\ OneTimer'
    BY DEF HandleInv, OneTimer, Ticking, TypeOK
<1>4. QED
    BY <1>1, <1>2, <1>3

-----------------------------------------------------------------------------
(* The surroundings. *)

LEMMA HandlersStep ==
    ASSUME IInv, NEW d \in Devices, HandlersCall(d)
    PROVE  IInv'
<1> USE DEF IInv
<1>1. TypeOK'
    <2>1. changes' \in 0 .. MaxChanges
        BY PollerAssumption DEF HandlersCall, Change, TypeOK
    <2>2. /\ cached' \in SUBSET Devices
          /\ subs' \in [Devices -> SUBSET Props]
          /\ lastValues' \in [Devices -> [Props -> Reading]]
        <3>1. CASE \E ps \in SUBSET Props : AddSubscriptions(d, ps)
            BY <3>1 DEF AddSubscriptions, TypeOK
        <3>2. CASE \E p \in Props : RemoveSubscription(d, p)
            BY <3>2 DEF RemoveSubscription, TypeOK, Reading
        <3>3. CASE RemoveAllSubscriptions(d)
            BY <3>3 DEF RemoveAllSubscriptions, TypeOK, Reading, Nothing
        <3>4. QED
            BY <3>1, <3>2, <3>3 DEF HandlersCall
    <2>3. QED
        BY <2>1, <2>2 DEF HandlersCall, TypeOK, backoffVars, timerVars, tickVars
<1>2. QED
    BY <1>1, QuietStep DEF HandlersCall

LEMMA WorldStep ==
    ASSUME IInv, NEW d \in Devices, NEW p \in Props,
           DeviceChanges(d) \/ CommandRuns(d, p) \/ CommandNotifies
    PROVE  IInv'
<1> USE DEF IInv
<1>1. TypeOK'
    <2>1. CASE DeviceChanges(d)
        <3>1. changes' \in 0 .. MaxChanges
            BY <2>1, PollerAssumption DEF DeviceChanges, Change, TypeOK
        <3>2. actual' \in [Devices -> [Props -> Reading]]
            <4>1. CASE \E q \in Props, v \in Reading : actual' = [actual EXCEPT ![d][q] = v]
                BY <4>1 DEF TypeOK
            <4>2. CASE actual' = actual
                BY <4>2 DEF TypeOK
            <4>3. QED
                BY <2>1, <4>1, <4>2 DEF DeviceChanges
        <3>3. up' \in [Devices -> BOOLEAN]
            BY <2>1 DEF DeviceChanges, TypeOK
        <3>4. QED
            BY <2>1, <3>1, <3>2, <3>3
               DEF DeviceChanges, TypeOK, cacheVars, backoffVars, timerVars, tickVars
    <2>2. CASE CommandRuns(d, p)
        <3>1. changes' \in 0 .. MaxChanges
            BY <2>2, PollerAssumption DEF CommandRuns, Change, TypeOK
        <3>2. /\ actual' \in [Devices -> [Props -> Reading]]
              /\ command' \in Observation
            BY <2>2 DEF CommandRuns, TypeOK, Reading, Observation
        <3>3. QED
            BY <2>2, <3>1, <3>2
               DEF CommandRuns, TypeOK, cacheVars, backoffVars, timerVars, tickVars
    <2>3. CASE CommandNotifies
        <3>1. command \in Observation
            BY <2>3 DEF CommandNotifies, TypeOK
        <3>2. told' \in [Devices -> [Props -> Reading]]
            BY <2>3, <3>1 DEF CommandNotifies, TypeOK, Observation, Reading
        <3>3. QED
            BY <2>3, <3>2
               DEF CommandNotifies, TypeOK, cacheVars, backoffVars, timerVars, tickVars
    <2>4. QED
        BY <2>1, <2>2, <2>3
<1>2. QED
    BY <1>1, QuietStep DEF DeviceChanges, CommandRuns, CommandNotifies

LEMMA NotifiesStep ==
    ASSUME IInv, CommandNotifies
    PROVE  IInv'
<1>1. command \in Observation
    BY DEF CommandNotifies, IInv, TypeOK
<1>2. command.device \in Devices /\ command.prop \in Props
    BY <1>1 DEF Observation
<1>3. QED
    BY <1>2, WorldStep

LEMMA ChangesStep ==
    ASSUME IInv, NEW d \in Devices, DeviceChanges(d)
    PROVE  IInv'
<1>1. CASE Props = {}
    <2>1. UNCHANGED <<backoffVars, timerVars, tickVars>>
        BY DEF DeviceChanges
    <2>2. actual' = actual
        BY <1>1 DEF DeviceChanges
    <2>3. up' \in [Devices -> BOOLEAN]
        BY <1>1 DEF DeviceChanges, IInv, TypeOK
    <2>4. changes' \in 0 .. MaxChanges
        BY PollerAssumption DEF DeviceChanges, Change, IInv, TypeOK
    <2>5. TypeOK'
        BY <2>1, <2>2, <2>3, <2>4
           DEF DeviceChanges, IInv, TypeOK, cacheVars, backoffVars, timerVars, tickVars
    <2>6. QED
        BY <2>1, <2>5, QuietStep DEF IInv
<1>2. CASE Props # {}
    BY <1>2, WorldStep
<1>3. QED
    BY <1>1, <1>2

-----------------------------------------------------------------------------
LEMMA NextInv == IInv /\ [Next]_vars => IInv'
<1> SUFFICES ASSUME IInv, [Next]_vars PROVE IInv'
    OBVIOUS
<1>1. CASE \E stored \in [Devices -> SUBSET Props] : Start(stored)
    BY <1>1, StartStep
<1>2. CASE PollerStep
    BY <1>2, TickStep, ReadNextStep, ReadingStep, ReportStep, BackOffStep, EndTickStep
       DEF PollerStep
<1>3. CASE Surroundings
    BY <1>3, StopStep, HandlersStep, ChangesStep, WorldStep, NotifiesStep DEF Surroundings
<1>4. CASE UNCHANGED vars
    BY <1>4, QuietStep
       DEF IInv, TypeOK, vars, cacheVars, backoffVars, timerVars, tickVars, worldVars
<1>5. QED
    BY <1>1, <1>2, <1>3, <1>4 DEF Next

LEMMA Invariance == Spec => []IInv
BY InitInv, NextInv, PTL DEF Spec

\* Every variable keeps its type: no counter goes below zero, no pause is longer than
\* errorSkipCycles.
THEOREM TypeCorrect == Spec => []TypeOK
<1>1. IInv => TypeOK
    BY DEF IInv
<1>2. QED
    BY <1>1, Invariance, PTL

\* The self re-arming timer never doubles, never dies, and ends with the service.
THEOREM ExactlyOneTimer == Spec => []OneTimer
<1>1. IInv => OneTimer
    BY DEF IInv
<1>2. QED
    BY <1>1, Invariance, PTL

\* The back-off bookkeeping stays sound under any interleaving of ticks, failures and
\* changes of the subscriptions.
THEOREM BackoffIsSound == Spec => []BackoffSound
<1>1. IInv => BackoffSound
    BY DEF IInv
<1>2. QED
    BY <1>1, Invariance, PTL

\* One loop until the service ends, and no device read while it is paused, for any number of
\* devices, limits, subscription changes and shutdowns.
THEOREM LoopIsSound == Spec => []LoopSound
BY ExactlyOneTimer, BackoffIsSound, PTL DEF LoopSound
=============================================================================
