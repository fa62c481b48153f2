----------------------------- MODULE Telemetry -----------------------------
(***************************************************************************)
(* What the miot bridge tells of itself: packages/otel (spans that follow   *)
(* the work, jobs that are measured whatever is sampled), otel/miotTracing  *)
(* of the bridge, and its two entry points of work: the poller's ticks,     *)
(* which are traced now and then, and MQTT messages, which continue the     *)
(* trace of their sender.                                                   *)
(*                                                                          *)
(* An activity is an asynchronous run with its own chain of contexts (Node's *)
(* AsyncLocalStorage): ctx[a] is the stack of what it is inside of.  A span  *)
(* is exported when it ends.  Metrics are compared with what happened:       *)
(* unseen holds the kinds of events no instrument of the SDK counted.        *)
(* Attributes other than the outcome, buckets and wording are left out.      *)
(***************************************************************************)
EXTENDS Absence, Naturals, FiniteSets, Sequences

CONSTANTS
    PolledDevices,
    TraceInterval,    \* polling.traceIntervalMs, in ticks
    MaxErrorCount, ErrorSkipCycles

ASSUME TelemetryAssumption == TraceInterval \in Nat

VARIABLES
    sdk,          \* OpenTelemetryService.sdk: "none", "running", "flushing", "stopped"
    stops,        \* how often sdk.shutdown() was called
    instruments,  \* instrumentsByProvider: for each provider, what its instruments write to
    ctx,          \* ctx[a]: the contexts a is inside of, the innermost first
    spans,        \* spans[a]: the spans exported in the current run of a
    work,         \* work[a]: ghost: the units of work of that run, and how each ended
    sender,       \* the trace the message in hand carried, or None
    ticking, due, \* the poller: inside a tick, the devices it has left
    errorCounts, skipCycles,
    traceAge,     \* ticks since _lastTracedAt, up to TraceInterval
    unseen        \* ghost: the kinds of events that were not counted

poller == <<ticking, due, errorCounts, skipCycles, traceAge>>
telemetryVars == <<sdk, stops, instruments, ctx, spans, work, sender, poller, unseen>>

Activities == {"tick", "message"}
Providers == {"noop", "sdk"}
Outside == [name |-> "none", of |-> None, trace |-> None, suppressed |-> FALSE]

\* options of a span: the defaults of WithSpanOptions
Options(name, of, root, suppress, parent) ==
    [name |-> name, of |-> of, root |-> root, suppress |-> suppress, parent |-> parent]
Plain(name, of) == Options(name, of, FALSE, FALSE, None)
EntryPoint(name, suppress, parent) == Options(name, None, parent = None, suppress, parent)

Inside(a) == IF ctx[a] = <<>> THEN Outside ELSE Head(ctx[a])

\* The context fn runs in: a suppressed root forgets the span that was active, and
\* below a suppressed context every span is non-recording.  A span without a parent
\* opens a trace, named here by its activity.
SpanContext(c, o, own) ==
    LET parent == IF o.parent # None THEN o.parent ELSE c.trace
    IN [name |-> o.name, of |-> o.of, suppressed |-> c.suppressed \/ o.suppress,
        trace |-> CASE o.suppress /\ o.root -> None
                    [] o.suppress /\ ~ o.root -> parent
                    [] ~ o.suppress /\ c.suppressed -> None
                    [] ~ o.suppress /\ ~ c.suppressed -> IF o.root \/ parent = None THEN own ELSE parent]

WithSpan(a, o) == ctx' = [ctx EXCEPT ![a] = <<SpanContext(Inside(a), o, a)>> \o @]

\* Below a suppressed context nothing is recorded, whoever opens the span.
Recording(c) == sdk = "running" /\ ~ c.suppressed

\* The span a is inside of ends, as its work settled: with a value or with an error.
Settled == {"ok", "error"}
EndOnSettle(a, status) ==
    LET c == Head(ctx[a]) IN
    /\ ctx' = [ctx EXCEPT ![a] = Tail(@)]
    /\ work' = [work EXCEPT ![a] = @ \cup {<<c.name, c.of, status>>}]
    /\ spans' = IF ~ Recording(c) THEN spans
                ELSE [spans EXCEPT ![a] = @ \cup {<<c.name, c.of, status, c.trace>>}]

\* What is recorded now goes to the instruments kept for the provider of now.
Provider == IF sdk = "none" THEN "noop" ELSE "sdk"
\* Mutant: built once, for the provider of that moment.
InstrumentsBuiltOnce == IF instruments["noop"] # None THEN "noop" ELSE Provider
Instruments == IF instruments[Provider] = None THEN Provider ELSE instruments[Provider]

\* Events happened, of which those in recorded were given to an instrument.
Counted(happened, recorded) ==
    /\ instruments' = IF recorded = {} THEN instruments ELSE [instruments EXCEPT ![Provider] = Instruments]
    /\ unseen' = IF sdk # "running" THEN unseen
                 ELSE unseen \cup (happened \ (IF Instruments = "sdk" THEN recorded ELSE {}))

-----------------------------------------------------------------------------
TelemetryInit ==
    /\ sdk = "none" /\ stops = 0
    /\ instruments = [p \in Providers |-> None]
    /\ ctx = [a \in Activities |-> <<>>]
    /\ spans = [a \in Activities |-> {}] /\ work = [a \in Activities |-> {}]
    /\ sender = None /\ ticking = FALSE /\ due = {}
    /\ errorCounts = [d \in PolledDevices |-> 0] /\ skipCycles = [d \in PolledDevices |-> 0]
    /\ traceAge = TraceInterval /\ unseen = {}

\* init(), where telemetry is enabled; before it the process runs on no-ops
InitSdk ==
    /\ sdk = "none" /\ \A a \in Activities : ctx[a] = <<>>
    /\ sdk' = "running"
    /\ work' = [a \in Activities |-> {}]
    /\ UNCHANGED <<stops, instruments, ctx, spans, sender, poller, unseen>>

\* shutdown(): the SDK is forgotten before it is awaited, and awaited for a bounded time.
ShutdownSdk ==
    /\ sdk = "running"
    /\ sdk' = "flushing" /\ stops' = stops + 1
    /\ UNCHANGED <<instruments, ctx, spans, work, sender, poller, unseen>>

ShutdownAgain ==
    /\ sdk \in {"flushing", "stopped"}
    /\ UNCHANGED telemetryVars

FlushOrTimeBox ==
    /\ sdk = "flushing"
    /\ sdk' = "stopped"
    /\ UNCHANGED <<stops, instruments, ctx, spans, work, sender, poller, unseen>>

-----------------------------------------------------------------------------
\* dueDevices: who is passed over this time has one cycle less to wait.
Due == {d \in PolledDevices : skipCycles[d] = 0}
Passed == skipCycles' = [d \in PolledDevices |-> IF skipCycles[d] > 0 THEN skipCycles[d] - 1 ELSE 0]

FailingCount == Cardinality({d \in Due : errorCounts[d] > 0})
ShouldTrace == FailingCount > 0 \/ traceAge >= TraceInterval
Aged == IF traceAge < TraceInterval THEN traceAge + 1 ELSE traceAge

\* runJob: a trace of its own, unless it is suppressed ...
RunJob(a, name, suppressTrace) ==
    /\ WithSpan(a, EntryPoint(name, suppressTrace, None))
    /\ spans' = [spans EXCEPT ![a] = {}] /\ work' = [work EXCEPT ![a] = {}]

\* ... and its outcome, the outcome of each item and a run that did not happen are
\* recorded either way.
RecordRun(outcome) == {<<"run", outcome>>}
RecordItem(outcome) == {<<"item", outcome>>}
RecordJobSkip == {<<"run", "skipped">>}

\* The timer: nothing is due, and only a counter says so ...
IdleTick ==
    /\ ~ ticking /\ Due = {}
    /\ Passed /\ Counted({<<"run", "skipped">>}, RecordJobSkip)
    /\ traceAge' = Aged
    /\ spans' = [spans EXCEPT !["tick"] = {}] /\ work' = [work EXCEPT !["tick"] = {}]
    /\ UNCHANGED <<sdk, stops, ctx, sender, ticking, due, errorCounts>>

\* ... or a tick starts, traced or suppressed as a whole.
StartTick ==
    /\ ~ ticking /\ Due # {}
    /\ ticking' = TRUE /\ due' = Due /\ Passed
    /\ RunJob("tick", "poll", ~ ShouldTrace)
    /\ traceAge' = IF ShouldTrace THEN 0 ELSE Aged
    /\ UNCHANGED <<sdk, stops, instruments, sender, errorCounts, unseen>>

PollDevice(d) ==
    /\ Inside("tick").name = "poll" /\ d \in due
    /\ WithSpan("tick", Plain("device", d))
    /\ UNCHANGED <<sdk, stops, instruments, spans, work, sender, poller, unseen>>

Ended(a, name, of) == \E s \in Settled : <<name, of, s>> \in work[a]

\* withMiotCallSpan: a client span below whatever is active.
MiotCall(a) ==
    /\ Inside(a).name \in {"device", "process"}
    /\ ~ Ended(a, "call", Inside(a).of) /\ ~ Ended(a, "local", None) /\ ~ Ended(a, "publish", None)
    /\ WithSpan(a, Plain("call", Inside(a).of))
    /\ UNCHANGED <<sdk, stops, instruments, spans, work, sender, poller, unseen>>

\* How a call ends: answered, answered with entries refused (a bulk read, the poller's),
\* refused as a whole, not answered.  A call for one entry that the device refuses is a
\* refusal of that entry as well; a bulk read names none.
CallEnds == {"ok", "entries_refused", "device_error", "timeout"}
RecordCall(status) == {<<"call", status>>}
RecordPropertyUnresolved(how) == IF how = "nothing_resolves" THEN {<<"property", "unresolved">>} ELSE {}
RecordPropertyRejection(a, e) ==
    IF e = "entries_refused" \/ (e = "device_error" /\ a = "message") THEN {<<"property", "refused">>} ELSE {}

MiotCallEnds(a, e) ==
    LET status == IF e \in {"device_error", "timeout"} THEN "error" ELSE "ok"
        refused == e = "entries_refused" \/ (e = "device_error" /\ a = "message")
    IN
    /\ Inside(a).name = "call"
    /\ e = "entries_refused" => a = "tick"
    /\ EndOnSettle(a, status)
    /\ Counted({<<"call", status>>} \cup (IF refused THEN {<<"property", "refused">>} ELSE {}),
               RecordCall(status) \cup RecordPropertyRejection(a, e))
    /\ UNCHANGED <<sdk, stops, sender, poller>>

\* readDevice after its call, or without one: no key resolves, or the device has no
\* record.  Its failures are kept from the job, marked on the span, counted as an item,
\* and add up to a pause.
DeviceRead(d, how) ==
    LET failed == how \in {"call_failed", "no_record"}
        outcome == IF failed THEN "failure" ELSE "success"
        paused == errorCounts[d] + 1 >= MaxErrorCount
    IN
    /\ Inside("tick").name = "device" /\ Inside("tick").of = d
    /\ CASE how = "read" -> <<"call", d, "ok">> \in work["tick"]
         [] how = "call_failed" -> <<"call", d, "error">> \in work["tick"]
         [] how \in {"nothing_resolves", "no_record"} -> ~ Ended("tick", "call", d)
    /\ EndOnSettle("tick", IF failed THEN "error" ELSE "ok")
    /\ due' = due \ {d}
    /\ errorCounts' = [errorCounts EXCEPT ![d] = IF failed /\ ~ paused THEN @ + 1 ELSE 0]
    /\ skipCycles' = IF failed /\ paused THEN [skipCycles EXCEPT ![d] = ErrorSkipCycles] ELSE skipCycles
    /\ Counted({<<"item", outcome>>} \cup (IF how = "nothing_resolves" THEN {<<"property", "unresolved">>} ELSE {}),
               RecordItem(outcome) \cup RecordPropertyUnresolved(how))
    /\ UNCHANGED <<sdk, stops, sender, ticking, traceAge>>

EndTick ==
    /\ Inside("tick").name = "poll" /\ due = {}
    /\ EndOnSettle("tick", "ok")
    /\ ticking' = FALSE
    /\ Counted({<<"run", "success">>}, RecordRun("success"))
    /\ UNCHANGED <<sdk, stops, sender, due, errorCounts, skipCycles, traceAge>>

-----------------------------------------------------------------------------
\* A message, with the traceparent its sender put in the user properties or without.
Consume(carrier) ==
    /\ ctx["message"] = <<>>
    /\ sender' = carrier
    /\ WithSpan("message", Options("process", None, FALSE, FALSE, carrier))
    /\ spans' = [spans EXCEPT !["message"] = {}] /\ work' = [work EXCEPT !["message"] = {}]
    /\ UNCHANGED <<sdk, stops, instruments, poller, unseen>>

\* Refused by our own validation: no span, only the counter.
RejectLocally ==
    /\ Inside("message").name = "process" /\ work["message"] = {}
    /\ work' = [work EXCEPT !["message"] = {<<"local", None, "error">>}]
    /\ Counted({<<"call", "rejected_locally">>}, {<<"call", "rejected_locally">>})
    /\ UNCHANGED <<sdk, stops, ctx, spans, sender, poller>>

\* The answer, published inside the handling of the message.
Publish ==
    /\ Inside("message").name = "process" /\ work["message"] # {} /\ ~ Ended("message", "publish", None)
    /\ WithSpan("message", Plain("publish", None))
    /\ UNCHANGED <<sdk, stops, instruments, spans, work, sender, poller, unseen>>

Published(status) ==
    /\ Inside("message").name = "publish"
    /\ EndOnSettle("message", status)
    /\ UNCHANGED <<sdk, stops, instruments, sender, poller, unseen>>

\* The command's failure is marked on the span of the message, the answer's is not.
Handled ==
    /\ Inside("message").name = "process" /\ Ended("message", "publish", None)
    /\ EndOnSettle("message", IF \E w \in work["message"] : w[1] # "publish" /\ w[3] = "error" THEN "error" ELSE "ok")
    /\ UNCHANGED <<sdk, stops, instruments, sender, poller, unseen>>

TelemetryNext ==
    \/ InitSdk \/ ShutdownSdk \/ ShutdownAgain \/ FlushOrTimeBox
    \/ IdleTick \/ StartTick \/ EndTick
    \/ \E d \in PolledDevices : PollDevice(d) \/ \E how \in {"read", "call_failed", "nothing_resolves", "no_record"} : DeviceRead(d, how)
    \/ \E a \in Activities : MiotCall(a) \/ \E e \in CallEnds : MiotCallEnds(a, e)
    \/ \E c \in {None, "sender"} : Consume(c)
    \/ RejectLocally \/ Publish \/ Handled \/ \E s \in Settled : Published(s)

TelemetrySpec == TelemetryInit /\ [][TelemetryNext]_telemetryVars

-----------------------------------------------------------------------------
\* Sampling never reaches the metrics (jobTelemetry.ts:20): from the moment the SDK
\* runs, every tick, idle tick, device, call, refusal and unresolved key is counted by
\* the SDK, whether its tick is traced or suppressed and whoever recorded first; and
\* the SDK is shut down at most once, however many callers there are.
EverythingCounted == unseen = {} /\ stops <= 1

\* A trace tells what happened, and only that: when a run is over, each piece of work has
\* ended its span, failed exactly if the work failed, all in one trace - the sender's for
\* a message that names one, one of its own for every tick - and a tick that is sampled
\* out leaves no span at all, not one of its calls.
ToldOf(a) == {<<w[1], w[2], w[3]>> : w \in {x \in work[a] : x[1] # "local"}}
TraceOf(a) == IF a = "message" /\ sender # None THEN sender ELSE a
SpansTellTheWork ==
    \A a \in Activities :
        (sdk = "running" /\ ctx[a] = <<>>) =>
            /\ spans[a] = IF a = "tick" /\ traceAge > 0 THEN {}
                          ELSE {<<w[1], w[2], w[3], TraceOf(a)>> : w \in ToldOf(a)}
            /\ a = "tick" => ~ ticking

\* Metrics and traces together: sampling decides about the traces and nothing else.
TelemetrySound == EverythingCounted /\ SpansTellTheWork
=============================================================================
