----------------------------- MODULE ApiStatus -----------------------------
(***************************************************************************)
(* How a UI rates its backend (packages/ui-runtime, useApiStatus): every    *)
(* request the app makes is reported, the browser tells when it goes        *)
(* offline, and on an unattended screen a probe with a growing delay looks  *)
(* for the backend while the status is not ok.                              *)
(*                                                                          *)
(* React is external: setStatus only asks for a render, renders come later  *)
(* and take the last value asked for, and the effect that owns the probe    *)
(* runs again only when the rendered status differs from the one before.    *)
(***************************************************************************)
EXTENDS Naturals

CONSTANTS InitialDelay, MaxDelay

ASSUME DelayAssumption == InitialDelay \in Nat \ {0} /\ MaxDelay \in Nat \ {0}

VARIABLES
    status,      \* the value React was last given
    rendered,    \* the status of the last render, which the effect has seen
    loop,        \* "off", "waiting" for its timer, "asked", "done"
    delay,       \* of the next probe
    late,        \* a probe of a loop cancelled since is not answered yet
    hidden,      \* the tab is hidden
    up,          \* the backend answers
    overtaken    \* a recovery was taken back before it was rendered

avars == <<status, rendered, loop, delay, late, hidden, up, overtaken>>

StatusInit ==
    /\ status = "ok" /\ rendered = "ok" /\ loop = "off" /\ delay = InitialDelay
    /\ late = FALSE /\ hidden \in BOOLEAN /\ up \in BOOLEAN /\ overtaken = FALSE

\* classifyResponse and classifyError, by what came back of a request.
ClassifyResponse(code) ==
    CASE code = "none" -> "network"
      [] code = "5xx" -> "server-error"
      [] code \in {"401", "403"} -> "unauthorized"
      [] code = "4xx" -> "client-error"
      [] code = "2xx" -> "success"

StatusForOutcome(outcome) ==
    CASE outcome \in {"success", "client-error"} -> "ok"
      [] outcome = "unauthorized" -> "unauthenticated"
      [] outcome = "server-error" -> "degraded"
      [] outcome = "network" -> "unreachable"

\* setStatus, by a report or an event of the browser.
SetStatus(s) ==
    /\ status' = s
    /\ overtaken' = (loop = "done" /\ s = rendered)

\* report: a request ends, answered by a backend that may have gone or come
\* back since it answered.
Report ==
    /\ \E code \in {"none", "5xx", "401", "4xx", "2xx"} :
          SetStatus(StatusForOutcome(ClassifyResponse(code)))
    /\ UNCHANGED <<rendered, loop, delay, late, hidden, up>>

\* goOffline and goOnline, which says ok whatever the backend does.
Connectivity ==
    /\ SetStatus("unreachable") \/ SetStatus("ok")
    /\ UNCHANGED <<rendered, loop, delay, late, hidden, up>>

\* React renders; the effect cancels its loop and, unless all is well, starts
\* another from the first delay.
Render ==
    /\ rendered # status
    /\ rendered' = status
    /\ late' = (late \/ loop = "asked")
    /\ loop' = IF status = "ok" THEN "off" ELSE "waiting"
    /\ delay' = InitialDelay /\ overtaken' = FALSE
    /\ UNCHANGED <<status, hidden, up>>

\* Mutant: a hidden tab lets its timer go without setting the next.
AttemptHiddenStops ==
    /\ loop = "waiting"
    /\ loop' = IF hidden THEN "done" ELSE "asked"
    /\ UNCHANGED <<status, rendered, delay, late, hidden, up, overtaken>>

\* attempt: a hidden tab waits once more, a visible one asks.
Attempt ==
    /\ loop = "waiting"
    /\ loop' = IF hidden THEN "waiting" ELSE "asked"
    /\ UNCHANGED <<status, rendered, delay, late, hidden, up, overtaken>>

\* The probe of the current loop is answered: the loop ends on a success, and
\* doubles its delay otherwise.
Answered ==
    /\ loop = "asked"
    /\ IF up
       THEN status' = "ok" /\ loop' = "done" /\ UNCHANGED delay
       ELSE /\ delay' = IF 2 * delay > MaxDelay THEN MaxDelay ELSE 2 * delay
            /\ loop' = "waiting" /\ UNCHANGED status
    /\ UNCHANGED <<rendered, late, hidden, up, overtaken>>

\* The probe of a cancelled loop is answered, and nobody listens.
AnsweredLate ==
    /\ late /\ late' = FALSE
    /\ UNCHANGED <<status, rendered, loop, delay, hidden, up, overtaken>>

BackendChanges ==
    /\ up' = ~ up
    /\ UNCHANGED <<status, rendered, loop, delay, late, hidden, overtaken>>

VisibilityChanges ==
    /\ hidden' = ~ hidden
    /\ UNCHANGED <<status, rendered, loop, delay, late, up, overtaken>>

StatusNext ==
    \/ Report \/ Connectivity \/ Render \/ Attempt \/ Answered \/ AnsweredLate
    \/ BackendChanges \/ VisibilityChanges

\* React renders, timers fire while the tab is in view, and every probe ends:
\* the proxy it goes through has a timeout.
StatusFairness == WF_avars(Render) /\ WF_avars(~ hidden /\ Attempt) /\ WF_avars(Answered)

StatusSpec == StatusInit /\ [][StatusNext]_avars /\ StatusFairness

-----------------------------------------------------------------------------
\* The backend stays up, the tab in view, and the app asks nothing any more.
Unattended == <>[](up /\ ~ hidden) /\ <>[][~ (Report \/ Connectivity)]_avars

\* A screen nobody touches recovers: from then on the status shown is ok again
\* and again, unless a recovery was taken back before it was rendered.
Recovers == Unattended => []<>(rendered = "ok" \/ overtaken)
=============================================================================
