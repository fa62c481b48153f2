--------------------------- MODULE ShutdownProofs ---------------------------
(***************************************************************************)
(* Proofs about HealthProbes and Shutdown for any number of probes,        *)
(* checks, evaluations, signals and uncaught errors, and any times.        *)
(***************************************************************************)
EXTENDS Shutdown, TLAPS

\* What the registry holds is in use, and the evaluation in flight is the one that runs.
FlightInv ==
    /\ SingleEvaluation
    /\ inFlight # 0 => phase[inFlight] = "running"
    /\ cached # 0 => phase[cached] = "done"
    /\ \A r \in Requests : waits[r] # 0 => phase[waits[r]] # "unused"

\* An evaluation runs no longer than a check may, and what is kept ended no later.
AgeInv ==
    /\ \A e \in Eval : phase[e] = "running" => now <= started[e] + CheckTimeout
    /\ cachedAt <= now
    /\ cached # 0 => cachedAt <= started[cached] + CheckTimeout
    /\ StalenessBounded

ProbesInv == FlightInv /\ AgeInv

\* The run of s got past the guard.
Serving(s) == at[s] \notin {"none", "returned"}

NoCrash == \A n \in Crashes : at[n] = "none"

GuardInv ==
    /\ \A s \in Signals : Serving(s) => shuttingDown
    /\ \A s, t \in Signals : Serving(s) /\ Serving(t) => s = t
    /\ shuttingDown => draining

StopsInv ==
    /\ NoCrash => stops <= 1
    /\ stops # 0 /\ NoCrash => shuttingDown
    /\ NoCrash => \A s \in Signals : at[s] = "draining" => stops = 0

DeadlineInv == \A s \in Signals : deadline[s] = "armed" => at[s] \in Active

ShutdownInv == GuardInv /\ StopsInv /\ DeadlineInv

IInv == TypeOK /\ ProbesInv /\ ShutdownInv

-----------------------------------------------------------------------------
LEMMA InitInv == Init => IInv
<1> SUFFICES ASSUME Init PROVE IInv
    OBVIOUS
<1> USE HealthAssumption DEF Init, ProbesInit
<1>1. ProbesTypeOK
    <2>1. answer \in [Requests -> [code : {200, 503}, status : Status] \cup {NoAnswer}]
        OBVIOUS
    <2>2. 0 \in 0 .. MaxTime /\ now = 0 /\ cachedAt = 0
        OBVIOUS
    <2>3. /\ result \in [Eval -> [Checks -> Status \cup {"pending"}]]
          /\ phase \in [Eval -> {"unused", "running", "done"}]
          /\ inFlight \in Eval \cup {0} /\ cached \in Eval \cup {0}
        OBVIOUS
    <2>4. started \in [Eval -> 0 .. MaxTime]
        BY <2>2
    <2>5. /\ rpc \in [Requests -> {"new", "verdict", "report", "answered"}]
          /\ kind \in [Requests -> {"ready", "detail"}]
          /\ waits \in [Requests -> Eval \cup {0}]
        OBVIOUS
    <2>6. /\ askedAt \in [Requests -> 0 .. MaxTime]
          /\ verdict \in [Requests -> BOOLEAN]
        BY <2>2
    <2> HIDE DEF Init, ProbesInit
    <2>7. draining \in BOOLEAN
        BY DEF ProbesInit, Init
    <2>8. QED
        BY <2>1, <2>2, <2>3, <2>4, <2>5, <2>6, <2>7 DEF ProbesTypeOK
<1>2. TypeOK
    BY <1>1 DEF TypeOK
<1>3. FlightInv
    BY DEF FlightInv, SingleEvaluation
<1>4. AgeInv
    BY DEF AgeInv, StalenessBounded
<1>5. ShutdownInv
    BY DEF ShutdownInv, GuardInv, StopsInv, DeadlineInv, Serving, NoCrash, Handlers
<1>6. QED
    BY <1>2, <1>3, <1>4, <1>5 DEF IInv, ProbesInv

-----------------------------------------------------------------------------
(* The probes                                                              *)

\* Asking the registry, whatever r does with it.
LEMMA EvaluateStep ==
    ASSUME ProbesTypeOK, ProbesInv, NEW r \in Requests, Evaluate(r), UNCHANGED <<now, draining>>
    PROVE  /\ ProbesInv'
           /\ phase' \in [Eval -> {"unused", "running", "done"}]
           /\ started' \in [Eval -> 0 .. MaxTime]
           /\ inFlight' \in Eval \cup {0}
           /\ waits' \in [Requests -> Eval \cup {0}]
           /\ askedAt' \in [Requests -> 0 .. MaxTime]
           /\ UNCHANGED <<result, cached, cachedAt>>
<1> USE HealthAssumption DEF ProbesTypeOK, ProbesInv, FlightInv, AgeInv, Ask
<1>0. /\ 0 \notin Eval
      /\ now \in Nat /\ cachedAt \in Nat
      /\ started \in [Eval -> Nat] /\ askedAt \in [Requests -> Nat]
    BY DEF Eval
<1>1. CASE UseKept(r)
    <2> USE <1>1 DEF UseKept, Fresh, registryVars
    <2>1. FlightInv'
        BY DEF SingleEvaluation
    <2>2. now < started[cached] + CheckTimeout + (IF CacheTtl = 0 THEN 1 ELSE CacheTtl)
        BY <1>0
    <2>3. AgeInv'
        BY <1>0, <2>2 DEF StalenessBounded
    <2>4. QED
        BY <2>1, <2>3
<1>2. CASE JoinFlight(r)
    <2> USE <1>2 DEF JoinFlight, registryVars
    <2>1. FlightInv'
        BY DEF SingleEvaluation
    <2>2. now < started[inFlight] + CheckTimeout + (IF CacheTtl = 0 THEN 1 ELSE CacheTtl)
        BY <1>0
    <2>3. AgeInv'
        BY <1>0, <2>2 DEF StalenessBounded
    <2>4. QED
        BY <2>1, <2>3
<1>3. CASE StartEval(r)
    <2>1. PICK e \in Eval :
            /\ phase[e] = "unused"
            /\ phase' = [phase EXCEPT ![e] = "running"]
            /\ started' = [started EXCEPT ![e] = now]
            /\ inFlight' = e
            /\ Ask(r, e)
            /\ UNCHANGED <<result, cached, cachedAt>>
        BY <1>3 DEF StartEval, StartsEval
    <2>2. inFlight = 0
        BY <1>3 DEF StartEval
    <2>3. FlightInv'
        BY <1>0, <2>1, <2>2 DEF SingleEvaluation
    <2>4. now < now + CheckTimeout + (IF CacheTtl = 0 THEN 1 ELSE CacheTtl)
        BY <1>0
    <2>5. StalenessBounded'
        BY <1>0, <2>1, <2>4 DEF StalenessBounded
    <2>6. AgeInv'
        BY <1>0, <2>1, <2>5
    <2>7. QED
        BY <2>1, <2>3, <2>6
<1>4. QED
    BY <1>1, <1>2, <1>3 DEF Evaluate

\* A step that touches neither the registry nor what the requests wait for.
LEMMA ProbesInvKept ==
    ASSUME ProbesInv, UNCHANGED <<now, registryVars, waits, askedAt>>
    PROVE  ProbesInv'
BY DEF ProbesInv, FlightInv, AgeInv, SingleEvaluation, StalenessBounded, registryVars

LEMMA RequestSteps ==
    ASSUME ProbesTypeOK, ProbesInv, NEW r \in Requests,
           RefuseDraining(r) \/ Probe(r) \/ RequestStep(r)
    PROVE  ProbesTypeOK' /\ ProbesInv' /\ UNCHANGED draining
<1>1. CASE RefuseDraining(r)
    <2>1. ProbesTypeOK'
        BY <1>1 DEF RefuseDraining, Answer, ProbesTypeOK, registryVars, Status
    <2>2. QED
        BY <1>1, <2>1, ProbesInvKept DEF RefuseDraining
<1>2. CASE Probe(r)
    <2>1. ProbesTypeOK'
        BY <1>2, EvaluateStep DEF Probe, ProbesTypeOK
    <2>2. QED
        BY <1>2, <2>1, EvaluateStep DEF Probe
<1>3. CASE TakeVerdict(r)
    <2>1. IsReady(waits[r]) \in BOOLEAN
        BY DEF IsReady
    <2>2. ProbesTypeOK'
        BY <1>3, <2>1, EvaluateStep DEF TakeVerdict, ProbesTypeOK
    <2>3. QED
        BY <1>3, <2>2, EvaluateStep DEF TakeVerdict
<1>4. CASE TakeReport(r)
    <2>1. RollUp(waits[r]) \in Status
        BY DEF RollUp, Status
    <2>2. \E c \in {200, 503} : answer' = [answer EXCEPT ![r] =
                                             [code |-> c, status |-> RollUp(waits[r])]]
        BY <1>4 DEF TakeReport, Answer
    <2>3. ProbesTypeOK'
        BY <1>4, <2>1, <2>2 DEF TakeReport, Answer, ProbesTypeOK, registryVars
    <2>4. QED
        BY <1>4, <2>3, ProbesInvKept DEF TakeReport
<1>5. QED
    BY <1>1, <1>2, <1>3, <1>4 DEF RequestStep

LEMMA CheckGivesStep ==
    ASSUME ProbesTypeOK, ProbesInv, NEW e \in Eval, NEW k \in Checks, NEW s \in Status,
           CheckGives(e, k, s)
    PROVE  ProbesTypeOK' /\ ProbesInv' /\ UNCHANGED draining
<1>1. ProbesTypeOK'
    BY DEF CheckGives, ProbesTypeOK, requestVars
<1>2. ProbesInv'
    BY DEF CheckGives, requestVars, ProbesInv, FlightInv, AgeInv, SingleEvaluation,
           StalenessBounded
<1>3. QED
    BY <1>1, <1>2 DEF CheckGives

LEMMA EvalEndsStep ==
    ASSUME ProbesTypeOK, ProbesInv, NEW e \in Eval, EvalEnds(e)
    PROVE  ProbesTypeOK' /\ ProbesInv' /\ UNCHANGED draining
<1> USE DEF EvalEnds, ProbesTypeOK, requestVars
<1>1. ProbesTypeOK'
    OBVIOUS
<1>2. FlightInv'
    BY DEF ProbesInv, FlightInv, SingleEvaluation, Eval
<1>3. AgeInv'
    BY DEF ProbesInv, AgeInv, StalenessBounded
<1>4. QED
    BY <1>1, <1>2, <1>3 DEF ProbesInv

LEMMA TickStep ==
    ASSUME ProbesTypeOK, ProbesInv, Tick
    PROVE  ProbesTypeOK' /\ ProbesInv' /\ UNCHANGED draining
<1> USE HealthAssumption DEF Tick, ProbesTypeOK, requestVars, registryVars
<1>1. ProbesTypeOK'
    OBVIOUS
<1>2. FlightInv'
    BY DEF ProbesInv, FlightInv, SingleEvaluation
<1>3. AgeInv'
    BY DEF ProbesInv, AgeInv, StalenessBounded
<1>4. QED
    BY <1>1, <1>2, <1>3 DEF ProbesInv

LEMMA ProbesStepInv ==
    ASSUME IInv, ProbesStep
    PROVE  IInv'
<1>1. ProbesTypeOK' /\ ProbesInv' /\ UNCHANGED draining
    <2> USE DEF IInv, TypeOK
    <2>1. CASE \E r \in mode.callers : RefuseDraining(r) \/ Probe(r) \/ RequestStep(r)
        <3>1. mode.callers \subseteq Requests
            BY ShutdownAssumption DEF Mode
        <3>2. QED
            BY <2>1, <3>1, RequestSteps
    <2>2. CASE \E e \in Eval, k \in Checks : CheckSettles(e, k)
        BY <2>2, CheckGivesStep, HealthAssumption DEF CheckSettles, Status
    <2>3. CASE RegistryStep
        BY <2>3, CheckGivesStep, EvalEndsStep DEF RegistryStep, CheckDeadline, Status
    <2>4. CASE Tick
        BY <2>4, TickStep
    <2>5. QED
        BY <2>1, <2>2, <2>3, <2>4 DEF ProbesStep, ProbesNext
<1>2. TypeOK'
    BY <1>1 DEF IInv, TypeOK, ProbesStep, shutdownVars
<1>3. ShutdownInv'
    BY <1>1 DEF IInv, ProbesStep, shutdownVars, ShutdownInv, GuardInv, StopsInv, DeadlineInv,
                Serving, NoCrash
<1>4. QED
    BY <1>1, <1>2, <1>3 DEF IInv

-----------------------------------------------------------------------------
(* The teardown                                                            *)

LEMMA ShutdownStepInv ==
    ASSUME IInv, ShutdownStep
    PROVE  IInv'
<1> USE DEF IInv
<1>0. mode.signals \subseteq Signals /\ mode.crashes \subseteq Crashes
      /\ Signals \cap Crashes = {}
    BY ShutdownAssumption DEF TypeOK, Mode
<1>1. ProbesInv'
    BY ProbesInvKept DEF ShutdownStep, requestVars
<1>2. ASSUME draining' \in BOOLEAN
      PROVE  ProbesTypeOK'
    BY <1>2 DEF ShutdownStep, ProbesTypeOK, TypeOK, registryVars, requestVars
<1> DEFINE Parts == TypeOK' /\ ShutdownInv'
<1> USE DEF ShutdownInv, GuardInv, StopsInv, DeadlineInv, Serving, NoCrash, Handlers, Active,
            Over
<1>3. ASSUME NEW s \in Signals, SignalAgain(s) PROVE Parts
    <2>1. TypeOK'
        BY <1>2, <1>3 DEF SignalAgain, TypeOK, ProbesTypeOK
    <2>2. ShutdownInv'
        BY <1>0, <1>3 DEF SignalAgain, TypeOK
    <2>3. QED
        BY <2>1, <2>2
<1>4. ASSUME NEW s \in Signals, FirstSignal(s) PROVE Parts
    <2>1. TypeOK'
        BY <1>2, <1>4 DEF FirstSignal, Begin, TypeOK
    <2>2. ShutdownInv'
        BY <1>0, <1>4 DEF FirstSignal, Begin, TypeOK
    <2>3. QED
        BY <2>1, <2>2
<1>5. ASSUME NEW s \in Signals, DrainEnds(s) PROVE Parts
    <2>1. TypeOK'
        BY <1>2, <1>5 DEF DrainEnds, TypeOK, ProbesTypeOK
    <2>2. ShutdownInv'
        BY <1>0, <1>5 DEF DrainEnds, TypeOK
    <2>3. QED
        BY <2>1, <2>2
<1>6. ASSUME NEW s \in Signals, DeadlineFires(s) PROVE Parts
    BY <1>2, <1>6 DEF DeadlineFires, TypeOK, ProbesTypeOK
<1>7. ASSUME NEW h \in Handlers, StopEnds(h) PROVE Parts
    <2>1. TypeOK'
        BY <1>2, <1>7 DEF StopEnds, TypeOK, ProbesTypeOK
    <2>2. ShutdownInv'
        BY <1>0, <1>7 DEF StopEnds, TypeOK
    <2>3. QED
        BY <2>1, <2>2
<1>8. ASSUME NEW h \in Handlers, FlushEnds(h) PROVE Parts
    <2>1. TypeOK'
        BY <1>2, <1>8 DEF FlushEnds, ClearDeadline, TypeOK, ProbesTypeOK
    <2>2. ShutdownInv'
        BY <1>0, <1>8 DEF FlushEnds, ClearDeadline, TypeOK
    <2>3. QED
        BY <2>1, <2>2
<1>9. ASSUME NEW h \in Handlers, Rejects(h) PROVE Parts
    <2>1. TypeOK'
        BY <1>2, <1>9 DEF Rejects, ClearDeadline, TypeOK, ProbesTypeOK
    <2>2. ShutdownInv'
        BY <1>0, <1>9 DEF Rejects, ClearDeadline, TypeOK
    <2>3. QED
        BY <2>1, <2>2
<1>10. ASSUME NEW n \in Crashes, Uncaught(n) PROVE Parts
    <2>1. TypeOK'
        BY <1>2, <1>10 DEF Uncaught, StopForCrash, TypeOK, ProbesTypeOK
    <2>2. ~NoCrash'
        BY <1>10 DEF Uncaught, StopForCrash, TypeOK
    <2>3. ShutdownInv'
        BY <1>0, <1>10, <2>2 DEF Uncaught, StopForCrash, TypeOK
    <2>4. QED
        BY <2>1, <2>3
<1>11. ASSUME NEW n \in Crashes, NEW h \in Handlers, Unhandled(n, h) PROVE Parts
    <2>1. TypeOK'
        <3>1. at' \in [Handlers -> {"none"} \cup Active \cup Over]
            BY <1>11 DEF Unhandled, StopForCrash, TypeOK
        <3>2. stops' \in Nat /\ UNCHANGED <<mode, draining, alive, shuttingDown, deadline>>
            BY <1>11 DEF Unhandled, StopForCrash, TypeOK
        <3>3. ProbesTypeOK'
            BY <1>2, <3>2 DEF TypeOK, ProbesTypeOK
        <3>4. QED
            BY <3>1, <3>2, <3>3 DEF TypeOK
    <2>2. ~NoCrash'
        BY <1>11 DEF Unhandled, StopForCrash, TypeOK
    <2>3. ShutdownInv'
        BY <1>0, <1>11, <2>2 DEF Unhandled, StopForCrash, TypeOK
    <2>4. QED
        BY <2>1, <2>3
<1>12. Parts
    BY <1>0, <1>3, <1>4, <1>5, <1>6, <1>7, <1>8, <1>9, <1>10, <1>11
       DEF ShutdownStep, ShutdownNext, TimerStep
<1>13. QED
    BY <1>1, <1>12

LEMMA Inductive ==
    ASSUME IInv, [Next]_vars
    PROVE  IInv'
<1>1. CASE UNCHANGED vars
    <2> USE <1>1 DEF vars, probeVars, registryVars, requestVars, shutdownVars, IInv
    <2>1. TypeOK'
        BY DEF TypeOK, ProbesTypeOK
    <2>2. ProbesInv'
        BY ProbesInvKept
    <2>3. ShutdownInv'
        BY DEF ShutdownInv, GuardInv, StopsInv, DeadlineInv, Serving, NoCrash
    <2>4. QED
        BY <2>1, <2>2, <2>3
<1>2. QED
    BY <1>1, ProbesStepInv, ShutdownStepInv DEF Next

\* The invariant of the probes and the shutdown holds, for every TTL, deadline and limit.
THEOREM Invariance == Spec => []IInv
<1>1. QED
    BY InitInv, Inductive, PTL DEF Spec

-----------------------------------------------------------------------------
\* Type correctness of the probes and the shutdown.
THEOREM TypeCorrect == Spec => []TypeOK
BY Invariance, PTL DEF IInv

\* The checks are evaluated once at a time.
THEOREM EvaluationsAreSingle == Spec => []SingleEvaluation
<1>1. IInv => SingleEvaluation
    BY DEF IInv, ProbesInv, FlightInv
<1>2. QED
    BY <1>1, Invariance, PTL

\* No probe is answered from checks older than a deadline and a time to live.
THEOREM StalenessIsBounded == Spec => []StalenessBounded
<1>1. IInv => StalenessBounded
    BY DEF IInv, ProbesInv, AgeInv
<1>2. QED
    BY <1>1, Invariance, PTL

\* Without a crash the platform is stopped once, after readiness was withdrawn.
THEOREM TeardownIsClean == Spec => []CleanTeardown
<1>1. IInv => CleanTeardown
    BY DEF IInv, ShutdownInv, GuardInv, StopsInv, NoCrash, CleanTeardown, TypeOK
<1>2. QED
    BY <1>1, Invariance, PTL

\* The hard deadline never outlives the teardown.
THEOREM DeadlineIsNotLate == Spec => NoLateDeadline
<1>1. ASSUME IInv, [Next]_vars
      PROVE  [~alive' /\ alive => \E s \in Signals : at[s] \in Active]_vars
    <2> SUFFICES ASSUME Next, ~alive', alive
                 PROVE  \E s \in Signals : at[s] \in Active
        BY <1>1
    <2>1. PICK s \in Signals : DeadlineFires(s)
        <3>1. ShutdownNext /\ mode.signals \subseteq Signals
            BY <1>1, ShutdownAssumption
               DEF Next, ProbesStep, ShutdownStep, shutdownVars, IInv, TypeOK, Mode
        <3>2. QED
            BY <3>1 DEF ShutdownNext, TimerStep, SignalAgain, FirstSignal, Begin, DrainEnds,
                        StopEnds, FlushEnds, Rejects, Uncaught, Unhandled, StopForCrash
    <2>2. QED
        BY <1>1, <2>1 DEF DeadlineFires, IInv, ShutdownInv, DeadlineInv
<1>2. QED
    BY <1>1, Invariance, PTL DEF Spec, NoLateDeadline

\* Probes share evaluations that are not too old, for any number of probes and checks.
THEOREM ProbesAreSound == Spec => []ProbesSound
BY EvaluationsAreSingle, StalenessIsBounded, PTL DEF ProbesSound

\* One teardown, in order, bounded while it lasts and not after.
THEOREM TeardownIsSound == Spec => TeardownSound
BY TeardownIsClean, DeadlineIsNotLate DEF TeardownSound
=============================================================================
