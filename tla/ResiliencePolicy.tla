-------------------------- MODULE ResiliencePolicy --------------------------
(***************************************************************************)
(* packages/resilience: the policy createResiliencePolicy builds, shared   *)
(* by concurrent calls of execute: retry around a circuit breaker around a *)
(* timeout, and cancellation by each caller.                               *)
(*                                                                         *)
(* The breaker and the timeout are cockatiel's and external.  The breaker  *)
(* counts the end of an attempt according to the state it was entered in,  *)
(* while the filter this package gives it looks at the state when the      *)
(* attempt ends; other calls may have changed it meanwhile.  Whether the   *)
(* sampled error ratio opens a closed breaker is left open, as is what the *)
(* wrapped function does with its signal.                                  *)
(***************************************************************************)
EXTENDS Naturals, FiniteSets

CONSTANTS
    Calls,      \* calls of execute, each made at most once
    Configs     \* the configurations considered

\* Errors of the work ("transient" and "fatal" stand for any two a predicate tells apart), of
\* the timeout, of the breaker.
Errors == {"transient", "fatal", "timeout", "broken"}

\* retries: retry.count
\* timeout: a timeout section is configured
\* breaker: a circuitBreaker section is configured
\* handled: the errors for which shouldHandle is true
Config == [retries : Nat, timeout : BOOLEAN, breaker : BOOLEAN, handled : SUBSET Errors]

\* A configuration the schema refuses does not become a policy.
Parsed == {c \in Configs : c \in Config}

VARIABLES
    config,     \* the member of Parsed this behaviour lives in
    breaker,    \* policy.breaker.state
    cooled,     \* halfOpenAfterMs have passed since the breaker opened
    test,       \* the call whose attempt is the probe of the half-open breaker, or {}
    stage,      \* stage[c]: where execute is
    attempt,    \* attempt[c]: the loop's counter
    result,    \* result[c]: how the current attempt ended
    entry,      \* entry[c]: how the breaker let the current attempt in
    waitsFor,   \* waitsFor[c]: the probe c waits for in the breaker
    pending,    \* pending[c]: the microtask that starts the work is queued
    aborted,    \* aborted[c]: parentSignal.aborted
    works,      \* <<c, n>>: the function of attempt n of c is running
    expired     \* <<c, n>>: the timeout of attempt n of c has fired

breakerVars == <<breaker, cooled, test>>
callVars == <<stage, attempt, result, entry, waitsFor, pending>>
workVars == <<works, expired>>
policyVars == <<config, breakerVars, callVars, aborted, workVars>>

Ended == {"done", "failed", "cancelled"}

PolicyTypeOK ==
    /\ config \in Parsed
    /\ breaker \in {"closed", "open", "halfopen"}
    /\ ~config.breaker => breaker = "closed"
    /\ cooled \in BOOLEAN
    /\ test \in SUBSET Calls
    /\ stage \in [Calls -> {"new", "looping", "waiting", "released", "queued", "running",
                            "settled", "judged", "backoff"} \cup Ended]
    /\ attempt \in [Calls -> Nat]
    /\ \A c \in Calls : attempt[c] <= config.retries
    /\ \A c \in Calls : stage[c] = "backoff" => attempt[c] < config.retries
    /\ result \in [Calls -> {"none", "ok", "cancelled"} \cup Errors]
    /\ entry \in [Calls -> {"closed", "probe"}]
    /\ \A c \in Calls : entry[c] = "probe" => config.breaker
    /\ waitsFor \in [Calls -> SUBSET Calls]
    /\ pending \in [Calls -> BOOLEAN]
    /\ aborted \in [Calls -> BOOLEAN]
    /\ works \subseteq Calls \X Nat
    /\ expired \subseteq Calls \X Nat

PolicyInit ==
    /\ config \in Parsed
    /\ breaker = "closed" /\ cooled = FALSE /\ test = {}
    /\ stage = [c \in Calls |-> "new"]
    /\ attempt = [c \in Calls |-> 0]
    /\ result = [c \in Calls |-> "none"]
    /\ entry = [c \in Calls |-> "closed"]
    /\ waitsFor = [c \in Calls |-> {}]
    /\ pending = [c \in Calls |-> FALSE]
    /\ aborted = [c \in Calls |-> FALSE]
    /\ works = {} /\ expired = {}

-----------------------------------------------------------------------------
(* Signals and classification                                              *)

\* combineSignals(timeoutSignal, parentSignal): aborted as soon as one of them is.
ParentOnly(byTimeout, byParent) == byParent
CombinedSignal(byTimeout, byParent) == byTimeout \/ byParent

SignalAborted(w) == CombinedSignal(w \in expired, aborted[w[1]])

\* The work of c that has not been told to stop.
Live(c) == {w \in works : w[1] = c /\ ~SignalAborted(w)}

\* The filter given to the breaker.
NeverCountsCancelled(o) == o # "cancelled" /\ o \in config.handled
Counts(o) == IF o = "cancelled" THEN breaker = "halfopen" ELSE o \in config.handled

-----------------------------------------------------------------------------
(* One attempt                                                             *)

\* executeWithParentCancellation: an aborted parent rejects at once, else the start of the
\* work is queued.
Admit(c, e) ==
    /\ entry' = [entry EXCEPT ![c] = e]
    /\ result' = [result EXCEPT ![c] = IF aborted[c] THEN "cancelled" ELSE "none"]
    /\ stage' = [stage EXCEPT ![c] = IF aborted[c] THEN "settled" ELSE "queued"]
    /\ pending' = [pending EXCEPT ![c] = ~aborted[c]]

\* breaker.execute: let the attempt in, make it the probe, refuse it, or let it wait for the
\* probe.
EnterClosed(c) ==
    /\ breaker = "closed"
    /\ Admit(c, "closed")
    /\ UNCHANGED <<breakerVars, waitsFor>>

EnterProbe(c) ==
    /\ breaker = "open" /\ cooled
    /\ breaker' = "halfopen" /\ test' = {c}
    /\ Admit(c, "probe")
    /\ UNCHANGED <<cooled, waitsFor>>

EnterRefused(c) ==
    /\ breaker = "open" /\ ~cooled
    /\ result' = [result EXCEPT ![c] = "broken"]
    /\ stage' = [stage EXCEPT ![c] = "judged"]
    /\ UNCHANGED <<breakerVars, entry, waitsFor, pending>>

EnterWaiting(c) ==
    /\ breaker = "halfopen"
    /\ waitsFor' = [waitsFor EXCEPT ![c] = test]
    /\ stage' = [stage EXCEPT ![c] = "waiting"]
    /\ UNCHANGED <<breakerVars, result, entry, pending>>

Enter(c) == EnterClosed(c) \/ EnterProbe(c) \/ EnterRefused(c) \/ EnterWaiting(c)

\* The microtask that starts the work, unless the parent was aborted after it was queued.

Start(c) ==
    /\ pending[c]
    /\ pending' = [pending EXCEPT ![c] = FALSE]
    /\ IF aborted[c]
       THEN UNCHANGED <<works, stage>>
       ELSE /\ works' = works \cup {<<c, attempt[c]>>}
            /\ stage' = [stage EXCEPT ![c] = "running"]
    /\ UNCHANGED <<config, breakerVars, attempt, result, entry, waitsFor, aborted, expired>>

\* The work of an attempt ends.  That of an attempt the policy has given up is not heard.
WorkEnds(w, o) ==
    /\ w \in works
    /\ works' = works \ {w}
    /\ IF stage[w[1]] = "running" /\ attempt[w[1]] = w[2]
       THEN /\ stage' = [stage EXCEPT ![w[1]] = "settled"]
            /\ result' = [result EXCEPT ![w[1]] = o]
       ELSE UNCHANGED <<stage, result>>
    /\ UNCHANGED <<config, breakerVars, attempt, entry, waitsFor, pending, aborted, expired>>

\* The aggressive timeout rejects the attempt and aborts its signal; the work goes on.
TimeoutFires(c) ==
    /\ config.timeout /\ stage[c] = "running"
    /\ expired' = expired \cup {<<c, attempt[c]>>}
    /\ stage' = [stage EXCEPT ![c] = "settled"]
    /\ result' = [result EXCEPT ![c] = "timeout"]
    /\ UNCHANGED <<config, breakerVars, attempt, entry, waitsFor, pending, aborted, works>>

\* The caller aborts.  An attempt and a back-off end at once; a call that waits in the breaker
\* is not told.
Abort(c) ==
    /\ stage[c] \notin Ended /\ ~aborted[c]
    /\ aborted' = [aborted EXCEPT ![c] = TRUE]
    /\ CASE stage[c] \in {"queued", "running"} ->
              /\ stage' = [stage EXCEPT ![c] = "settled"]
              /\ result' = [result EXCEPT ![c] = "cancelled"]
         [] stage[c] = "backoff" ->
              /\ stage' = [stage EXCEPT ![c] = "cancelled"]
              /\ UNCHANGED result
         [] OTHER -> UNCHANGED <<stage, result>>
    /\ UNCHANGED <<config, breakerVars, attempt, entry, waitsFor, pending, workVars>>

-----------------------------------------------------------------------------
(* The breaker's account of an attempt                                     *)

\* The states the breaker may be in after the attempt of c.
AfterProbe(c) ==
    IF result[c] # "ok" /\ Counts(result[c]) THEN {"open"}
    ELSE {IF breaker = "halfopen" THEN "closed" ELSE breaker}
AfterAttempt(c) ==
    IF config.breaker /\ result[c] # "ok" /\ Counts(result[c]) THEN {breaker, "open"}
    ELSE {breaker}

Judge(c) ==
    /\ stage[c] = "settled"
    /\ breaker' \in IF entry[c] = "probe" THEN AfterProbe(c) ELSE AfterAttempt(c)
    /\ cooled' = (cooled /\ (breaker' = "open" => breaker = "open"))
    /\ test' = IF breaker' = "halfopen" THEN test ELSE {}
    /\ stage' = [d \in Calls |->
                   CASE d = c -> "judged"
                     [] stage[d] = "waiting" /\ waitsFor[d] = {c} -> "released"
                     [] OTHER -> stage[d]]
    /\ UNCHANGED <<config, attempt, result, entry, waitsFor, pending, aborted, workVars>>

\* halfOpenAfterMs pass.
CoolDown ==
    /\ breaker = "open" /\ ~cooled
    /\ cooled' = TRUE
    /\ UNCHANGED <<config, breaker, test, callVars, aborted, workVars>>

-----------------------------------------------------------------------------
(* The retry loop of execute                                               *)

Call(c) ==
    /\ stage[c] = "new"
    /\ stage' = [stage EXCEPT ![c] = "looping"]
    /\ UNCHANGED <<config, breakerVars, attempt, result, entry, waitsFor, pending, aborted,
                   workVars>>

\* The head of the loop: no attempt for an aborted caller.
Loop(c) ==
    /\ stage[c] = "looping"
    /\ IF aborted[c]
       THEN /\ stage' = [stage EXCEPT ![c] = "cancelled"]
            /\ UNCHANGED <<breakerVars, result, entry, waitsFor, pending>>
       ELSE Enter(c)
    /\ UNCHANGED <<config, attempt, aborted, workVars>>

\* The probe c waited for has ended: c enters the breaker again.
Resume(c) ==
    /\ stage[c] = "released"
    /\ Enter(c)
    /\ UNCHANGED <<config, attempt, aborted, workVars>>

Cancelled(c) == result[c] = "cancelled" \/ (result[c] # "ok" /\ aborted[c])

\* What the loop makes of the attempt: return, throw, or wait and try again.
Verdict(c) ==
    IF result[c] = "ok" THEN "done"
    ELSE IF Cancelled(c) THEN "cancelled"
    ELSE IF attempt[c] >= config.retries \/ result[c] \notin config.handled THEN "failed"
    ELSE "backoff"

Continue(c) ==
    /\ stage[c] = "judged"
    /\ stage' = [stage EXCEPT ![c] = Verdict(c)]
    /\ UNCHANGED <<config, breakerVars, attempt, result, entry, waitsFor, pending, aborted,
                   workVars>>

BackoffEndsUncounted(c) ==
    /\ stage[c] = "backoff"
    /\ stage' = [stage EXCEPT ![c] = "looping"]
    /\ UNCHANGED <<config, breakerVars, attempt, result, entry, waitsFor, pending, aborted,
                   workVars>>

BackoffEnds(c) ==
    /\ stage[c] = "backoff"
    /\ attempt' = [attempt EXCEPT ![c] = @ + 1]
    /\ stage' = [stage EXCEPT ![c] = "looping"]
    /\ UNCHANGED <<config, breakerVars, result, entry, waitsFor, pending, aborted, workVars>>

-----------------------------------------------------------------------------
Results == {"ok", "transient", "fatal"}

\* What the event loop, a timer or a settled promise does for c sooner or later.
Own(c) ==
    \/ Loop(c) \/ Resume(c) \/ Start(c) \/ TimeoutFires(c)
    \/ Judge(c) \/ Continue(c) \/ BackoffEnds(c)

PolicyNext ==
    \/ \E c \in Calls : Call(c) \/ Abort(c) \/ Own(c)
    \/ \E w \in works, o \in Results : WorkEnds(w, o)
    \/ CoolDown

PolicySpec == PolicyInit /\ [][PolicyNext]_policyVars

PolicyFairness == \A c \in Calls : WF_policyVars(Own(c))

FairPolicySpec == PolicySpec /\ PolicyFairness

-----------------------------------------------------------------------------
(* Properties                                                              *)

\* Once the caller has aborted, no work is started for it any more: not by the queued
\* microtask, not after a back-off, not when a probe it waited for lets it into the breaker.
NothingStartsAfterAbort ==
    [][\A c \in Calls : aborted[c] => \A w \in works' \ works : w[1] # c]_policyVars

\* The attempts of a call do not overlap: whatever runs for it without having been told to
\* stop is the work of the attempt the call waits for.  Nothing is left running unnoticed
\* behind a retry, a timeout, a cancellation or the end of the call.
NoOrphanWork ==
    \A c \in Calls : Live(c) \subseteq {w \in {<<c, attempt[c]>>} : stage[c] = "running"}

\* A cancelled attempt says nothing about the dependency: its end neither opens a closed
\* breaker nor closes another, whatever state the breaker was in when it was let in.
CancellationProvesNothing ==
    [][\A c \in Calls :
          stage[c] = "settled" /\ stage'[c] = "judged" /\ result[c] = "cancelled"
          => (breaker' = "closed" <=> breaker = "closed")]_policyVars

\* An abort ends the work of its call, and only that.
CancellationSound == NothingStartsAfterAbort /\ CancellationProvesNothing

\* A half-open breaker has a probe under way, so those who wait for it will hear.
HalfOpenHasProbe ==
    breaker = "halfopen" =>
        \E c \in test : entry[c] = "probe" /\ stage[c] \in {"queued", "running", "settled"}

\* With a timeout every call ends, those that wait in the breaker and those that were
\* cancelled included.
CallSettles ==
    \A c \in Calls : (config.timeout /\ stage[c] = "looping") ~> (stage[c] \in Ended)
=============================================================================
