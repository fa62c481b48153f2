---------------------------- MODULE HealthProbes ----------------------------
(***************************************************************************)
(* packages/health and packages/tsed-health: the readiness and detail      *)
(* probes of HealthController over HealthCheckService and HealthRegistry.  *)
(* One evaluation of the checks is shared by all who ask while it runs and *)
(* for cacheTtlMs after it; each check has a deadline.                     *)
(*                                                                         *)
(* A check is external: it passes, warns, fails or hangs.  The clock moves *)
(* between any two callbacks, but not past a timer or a settled promise    *)
(* that is due.  The liveness probe answers without any state.             *)
(***************************************************************************)
EXTENDS Naturals, FiniteSets

CONSTANTS
    Requests,       \* probe requests, each made at most once
    Checks,         \* the registered checks
    Critical,       \* those with critical = true
    Outcomes,       \* bound: what checks give
    MaxEvals,       \* bound: evaluations there are names for
    CacheTtl,       \* cacheTtlMs
    CheckTimeout,   \* checkTimeoutMs
    MaxTime         \* bound: the clock; MaxTime stands for any later time too

ASSUME HealthAssumption ==
    /\ Critical \subseteq Checks
    /\ Outcomes \subseteq {"pass", "warn", "fail"}
    /\ MaxEvals \in Nat
    /\ CacheTtl \in Nat
    /\ CheckTimeout \in Nat \ {0}
    /\ MaxTime \in Nat

VARIABLES
    now,        \* Date.now()
    phase,      \* phase[e]: where evaluation e is
    started,    \* started[e]: when it was started
    result,     \* result[e][k]: what check k gave, "pending" before
    inFlight,   \* inFlight: an evaluation, 0 when undefined
    cached,     \* cached.value: an evaluation, 0 when undefined
    cachedAt,   \* cached.at
    draining,   \* ShutdownState.draining
    rpc,        \* rpc[r]: the await request r is at
    kind,       \* kind[r]: which probe
    waits,      \* waits[r]: the evaluation r waits for or was answered from, 0 when none
    askedAt,    \* askedAt[r]: history, when r asked for it
    verdict,    \* verdict[r]: ready, as /ready got it
    answer      \* answer[r]: HTTP status and reported status

registryVars == <<phase, started, result, inFlight, cached, cachedAt>>
requestVars == <<rpc, kind, waits, askedAt, verdict, answer>>
probeVars == <<now, registryVars, draining, requestVars>>

Eval == 1 .. MaxEvals
Status == {"pass", "warn", "fail"}
NoAnswer == [code |-> 0, status |-> "none"]

ProbesTypeOK ==
    /\ now \in 0 .. MaxTime
    /\ phase \in [Eval -> {"unused", "running", "done"}]
    /\ started \in [Eval -> 0 .. MaxTime]
    /\ result \in [Eval -> [Checks -> Status \cup {"pending"}]]
    /\ inFlight \in Eval \cup {0} /\ cached \in Eval \cup {0}
    /\ cachedAt \in 0 .. MaxTime
    /\ draining \in BOOLEAN
    /\ rpc \in [Requests -> {"new", "verdict", "report", "answered"}]
    /\ kind \in [Requests -> {"ready", "detail"}]
    /\ waits \in [Requests -> Eval \cup {0}]
    /\ askedAt \in [Requests -> 0 .. MaxTime]
    /\ verdict \in [Requests -> BOOLEAN]
    /\ answer \in [Requests -> [code : {200, 503}, status : Status] \cup {NoAnswer}]

ProbesInit ==
    /\ now = 0
    /\ phase = [e \in Eval |-> "unused"]
    /\ started = [e \in Eval |-> 0]
    /\ result = [e \in Eval |-> [k \in Checks |-> "pending"]]
    /\ inFlight = 0 /\ cached = 0 /\ cachedAt = 0
    /\ draining = FALSE
    /\ rpc = [r \in Requests |-> "new"]
    /\ kind \in [Requests -> {"ready", "detail"}]
    /\ waits = [r \in Requests |-> 0]
    /\ askedAt = [r \in Requests |-> 0]
    /\ verdict = [r \in Requests |-> FALSE]
    /\ answer = [r \in Requests |-> NoAnswer]

-----------------------------------------------------------------------------
(* The report                                                              *)

IsReady(e) == \A k \in Critical : result[e][k] # "fail"

RollUp(e) ==
    IF ~IsReady(e) THEN "fail"
    ELSE IF \E k \in Checks : result[e][k] \in {"warn", "fail"} THEN "warn"
    ELSE "pass"

-----------------------------------------------------------------------------
(* HealthRegistry                                                          *)

FreshForever == cached # 0
Fresh == cached # 0 /\ now - cachedAt < CacheTtl

Ask(r, e) ==
    /\ waits' = [waits EXCEPT ![r] = e]
    /\ askedAt' = [askedAt EXCEPT ![r] = now]

\* evaluate: the kept result, the evaluation that runs, or a new one.
UseKept(r) ==
    /\ Fresh
    /\ Ask(r, cached)
    /\ UNCHANGED registryVars

JoinFlight(r) ==
    /\ ~Fresh /\ inFlight # 0
    /\ Ask(r, inFlight)
    /\ UNCHANGED registryVars

StartsEval(r) ==
    \E e \in Eval :
        /\ phase[e] = "unused" /\ \A d \in Eval : d < e => phase[d] # "unused"
        /\ phase' = [phase EXCEPT ![e] = "running"]
        /\ started' = [started EXCEPT ![e] = now]
        /\ inFlight' = e
        /\ Ask(r, e)
        /\ UNCHANGED <<result, cached, cachedAt>>

StartEval(r) == ~Fresh /\ inFlight = 0 /\ StartsEval(r)
Evaluate(r) == UseKept(r) \/ JoinFlight(r) \/ StartEval(r)

\* runOne: the check settles, by a result or a throw, or its deadline passes.
CheckGives(e, k, s) ==
    /\ phase[e] = "running" /\ result[e][k] = "pending"
    /\ result' = [result EXCEPT ![e][k] = s]
    /\ UNCHANGED <<now, phase, started, inFlight, cached, cachedAt, draining, requestVars>>

CheckSettles(e, k) == \E s \in Outcomes : CheckGives(e, k, s)

DeadlineDue(e) == now >= started[e] + CheckTimeout \/ now = MaxTime
CheckDeadline(e, k) == DeadlineDue(e) /\ CheckGives(e, k, "fail")

\* The then of runAll.
EvalEnds(e) ==
    /\ phase[e] = "running" /\ \A k \in Checks : result[e][k] # "pending"
    /\ phase' = [phase EXCEPT ![e] = "done"]
    /\ cached' = e /\ cachedAt' = now
    /\ inFlight' = 0
    /\ UNCHANGED <<now, started, result, draining, requestVars>>

\* Time passes.  A deadline fires when it is due, an evaluation ends with its last check.
Tick ==
    /\ now < MaxTime
    /\ \A e \in Eval : phase[e] = "running" =>
          now < started[e] + CheckTimeout /\ \E k \in Checks : result[e][k] = "pending"
    /\ now' = now + 1
    /\ UNCHANGED <<registryVars, draining, requestVars>>

-----------------------------------------------------------------------------
(* HealthController and HealthCheckService                                 *)

Answer(r, c, s) ==
    /\ rpc' = [rpc EXCEPT ![r] = "answered"]
    /\ answer' = [answer EXCEPT ![r] = [code |-> c, status |-> s]]

RefuseDraining(r) ==
    /\ rpc[r] = "new" /\ draining
    /\ Answer(r, 503, "fail")
    /\ UNCHANGED <<now, registryVars, draining, kind, waits, askedAt, verdict>>

\* ready: HealthCheckService.evaluate; detail: its report.
Probe(r) ==
    /\ rpc[r] = "new" /\ ~draining
    /\ Evaluate(r)
    /\ rpc' = [rpc EXCEPT ![r] = IF kind[r] = "ready" THEN "verdict" ELSE "report"]
    /\ UNCHANGED <<now, draining, kind, verdict, answer>>

\* After the first await of HealthCheckService.evaluate: the report evaluates again.
TakeVerdict(r) ==
    /\ rpc[r] = "verdict" /\ phase[waits[r]] = "done"
    /\ verdict' = [verdict EXCEPT ![r] = IsReady(waits[r])]
    /\ Evaluate(r)
    /\ rpc' = [rpc EXCEPT ![r] = "report"]
    /\ UNCHANGED <<now, draining, kind, answer>>

TakeReport(r) ==
    /\ rpc[r] = "report" /\ phase[waits[r]] = "done"
    /\ LET status == RollUp(waits[r])
           healthy == IF kind[r] = "ready" THEN verdict[r] ELSE status # "fail"
       IN  Answer(r, IF healthy THEN 200 ELSE 503, status)
    /\ UNCHANGED <<now, registryVars, draining, kind, waits, askedAt, verdict>>

-----------------------------------------------------------------------------
\* What settled promises and timers do sooner or later.
RegistryStep == \E e \in Eval : EvalEnds(e) \/ \E k \in Checks : CheckDeadline(e, k)
RequestStep(r) == TakeVerdict(r) \/ TakeReport(r)

\* The probes of callers over the registry.
ProbesNext(callers) ==
    \/ \E r \in callers : RefuseDraining(r) \/ Probe(r) \/ RequestStep(r)
    \/ \E e \in Eval, k \in Checks : CheckSettles(e, k)
    \/ RegistryStep
    \/ Tick

-----------------------------------------------------------------------------
(* Properties                                                              *)

\* Single flight: however many probe at once, the checks are evaluated once at a time, and
\* the evaluation that runs is the one later probes join.
SingleEvaluation == \A e \in Eval : phase[e] = "running" => inFlight = e

\* Kept and shared results are bounded in age: a probe is answered from checks that were
\* started less than checkTimeoutMs + cacheTtlMs before the probe asked.
StalenessBounded ==
    \A r \in Requests : waits[r] # 0 =>
        askedAt[r] < started[waits[r]] + CheckTimeout + (IF CacheTtl = 0 THEN 1 ELSE CacheTtl)

\* Probes share evaluations, and not too old ones.
ProbesSound == SingleEvaluation /\ StalenessBounded

\* One evaluation gives both the verdict and the report: /ready answers 200 exactly when the
\* status it reports is not "fail".
EvaluatedOnce ==
    \A r \in Requests : rpc[r] = "answered" =>
        (answer[r].code = 200 <=> answer[r].status # "fail")
=============================================================================
