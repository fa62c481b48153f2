------------------------------ MODULE Shutdown ------------------------------
(***************************************************************************)
(* createShutdownHandler as apis/miot-bridge-api/src/index.ts registers    *)
(* it, with the process's handlers of uncaught errors, running together    *)
(* with the probes.                                                        *)
(*                                                                         *)
(* platform.stop() and the telemetry flush are external: each may end,     *)
(* reject, or never answer.  The rejection of a handler nobody awaits is   *)
(* an unhandledRejection, for which index.ts has a handler that stops the  *)
(* platform too.                                                           *)
(***************************************************************************)
EXTENDS HealthProbes

CONSTANTS
    Signals,        \* the signals the process may get, one run of the handler each
    Crashes,        \* bound: runs of the handler of uncaught errors
    Modes           \* the environments considered

\* callers:  the probe requests that are made
\* signals:  the signals that come
\* crashes:  the uncaught errors that may come
\* deadline: hardDeadlineMs > 0
Mode == [callers : SUBSET Requests, signals : SUBSET Signals, crashes : SUBSET Crashes,
         deadline : BOOLEAN]

ASSUME ShutdownAssumption == Modes \subseteq Mode /\ Signals \cap Crashes = {}

VARIABLES
    mode,           \* the member of Modes this behaviour lives in
    alive,          \* the process has not exited
    shuttingDown,   \* shuttingDown
    at,             \* at[h]: the await the run h of a handler is at
    deadline,       \* deadline[s]: the timer of the run s
    stops           \* history: calls of platform.stop()

shutdownVars == <<mode, alive, shuttingDown, at, deadline, stops>>
vars == <<probeVars, shutdownVars>>

Handlers == Signals \cup Crashes
Over == {"returned", "finished", "rejected", "failed"}
Active == {"draining", "stopping", "flushing"}

TypeOK ==
    /\ ProbesTypeOK
    /\ mode \in Modes
    /\ alive \in BOOLEAN
    /\ shuttingDown \in BOOLEAN
    /\ at \in [Handlers -> {"none"} \cup Active \cup Over]
    /\ deadline \in [Signals -> {"off", "armed"}]
    /\ stops \in Nat

Init ==
    /\ ProbesInit
    /\ mode \in Modes
    /\ alive = TRUE /\ shuttingDown = FALSE
    /\ at = [h \in Handlers |-> "none"]
    /\ deadline = [s \in Signals |-> "off"]
    /\ stops = 0

-----------------------------------------------------------------------------
(* The signal handler                                                      *)

\* A later signal, while the first is served or after.
SignalAgain(s) ==
    /\ at[s] = "none" /\ shuttingDown
    /\ at' = [at EXCEPT ![s] = "returned"]
    /\ UNCHANGED <<mode, draining, alive, shuttingDown, deadline, stops>>

Begin(s) ==
    /\ at[s] = "none"
    /\ shuttingDown' = TRUE
    /\ deadline' = [deadline EXCEPT ![s] = IF mode.deadline THEN "armed" ELSE "off"]
    /\ draining' = TRUE
    /\ at' = [at EXCEPT ![s] = "draining"]
    /\ UNCHANGED <<mode, alive, stops>>

FirstSignal(s) == ~shuttingDown /\ Begin(s)

\* The drain delay is over: onShutdown, then platform.stop().
DrainEnds(s) ==
    /\ at[s] = "draining"
    /\ at' = [at EXCEPT ![s] = "stopping"]
    /\ stops' = stops + 1
    /\ UNCHANGED <<mode, draining, alive, shuttingDown, deadline>>

\* The finally of the handler.
ClearDeadline(h) == deadline' = [s \in Signals |-> IF s = h THEN "off" ELSE deadline[s]]

StopEndsClearing(h) ==
    /\ at[h] = "stopping"
    /\ at' = [at EXCEPT ![h] = "flushing"]
    /\ ClearDeadline(h)
    /\ UNCHANGED <<mode, draining, alive, shuttingDown, stops>>

StopEnds(h) ==
    /\ at[h] = "stopping"
    /\ at' = [at EXCEPT ![h] = "flushing"]
    /\ UNCHANGED <<mode, draining, alive, shuttingDown, deadline, stops>>

FlushEnds(h) ==
    /\ at[h] = "flushing"
    /\ at' = [at EXCEPT ![h] = "finished"]
    /\ ClearDeadline(h)
    /\ UNCHANGED <<mode, draining, alive, shuttingDown, stops>>

\* platform.stop() or the flush rejects, and so does the run of the handler.
RejectsArmed(h) ==
    /\ at[h] \in {"stopping", "flushing"}
    /\ at' = [at EXCEPT ![h] = "rejected"]
    /\ UNCHANGED <<mode, draining, alive, shuttingDown, deadline, stops>>

Rejects(h) ==
    /\ at[h] \in {"stopping", "flushing"}
    /\ at' = [at EXCEPT ![h] = "rejected"]
    /\ ClearDeadline(h)
    /\ UNCHANGED <<mode, draining, alive, shuttingDown, stops>>

\* onHardDeadline: process.exit(1).
DeadlineFires(s) ==
    /\ deadline[s] = "armed"
    /\ alive' = FALSE
    /\ UNCHANGED <<mode, draining, shuttingDown, at, deadline, stops>>

-----------------------------------------------------------------------------
(* The handler of uncaughtException and unhandledRejection                 *)

StopForCrash(n, others) ==
    /\ at[n] = "none"
    /\ at' = [others EXCEPT ![n] = "stopping"]
    /\ stops' = stops + 1
    /\ UNCHANGED <<mode, draining, alive, shuttingDown, deadline>>

Uncaught(n) == StopForCrash(n, at)

Unhandled(n, h) ==
    /\ at[h] = "rejected"
    /\ StopForCrash(n, [at EXCEPT ![h] = "failed"])

-----------------------------------------------------------------------------
\* What the timers of a run do sooner or later.
TimerStep(s) == DrainEnds(s) \/ DeadlineFires(s)

ShutdownNext ==
    \/ \E s \in mode.signals : SignalAgain(s) \/ FirstSignal(s) \/ TimerStep(s)
    \/ \E h \in Handlers : StopEnds(h) \/ FlushEnds(h) \/ Rejects(h)
    \/ \E n \in mode.crashes : Uncaught(n) \/ \E h \in Handlers : Unhandled(n, h)

ShutdownStep == ShutdownNext /\ UNCHANGED <<now, registryVars, requestVars>>
ProbesStep == ProbesNext(mode.callers) /\ UNCHANGED shutdownVars

Next == alive /\ (ProbesStep \/ ShutdownStep)

Spec == Init /\ [][Next]_vars

FairSpec ==
    /\ Spec
    /\ WF_vars(alive /\ Tick /\ UNCHANGED shutdownVars)
    /\ WF_vars(alive /\ RegistryStep /\ UNCHANGED shutdownVars)
    /\ \A r \in Requests : WF_vars(alive /\ RequestStep(r) /\ UNCHANGED shutdownVars)
    /\ \A s \in Signals :
          WF_vars(alive /\ TimerStep(s) /\ UNCHANGED <<now, registryVars, requestVars>>)

-----------------------------------------------------------------------------
(* Properties                                                              *)

\* However many signals come and whenever: as long as nothing crashes, the platform is stopped
\* once, and not before readiness has turned away new work.
CleanTeardown ==
    (\A n \in Crashes : at[n] = "none") => stops <= 1 /\ (stops = 1 => draining)

\* The hard deadline ends the process only while the teardown it bounds is still under way: a
\* teardown that ended or threw leaves no timer that kills the process later.
NoLateDeadline == [][~alive' /\ alive => \E s \in Signals : at[s] \in Active]_vars

\* One teardown, in order, and bounded only while it lasts.
TeardownSound == []CleanTeardown /\ NoLateDeadline

\* Every probe is answered although checks hang, and with a hard deadline every shutdown ends
\* although the teardown hangs.
EverythingEnds ==
    /\ \A r \in Requests : rpc[r] \in {"verdict", "report"} ~> (rpc[r] = "answered" \/ ~alive)
    /\ \A s \in Signals : (mode.deadline /\ at[s] \in Active) ~> (at[s] \in Over \/ ~alive)
=============================================================================
