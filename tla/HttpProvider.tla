---------------------------- MODULE HttpProvider ----------------------------
(***************************************************************************)
(* packages/http-provider and tsed-http-provider: the client of an external *)
(* API, built when it is first asked for, and the chain a request through   *)
(* it passes - the policy around the adapter, the credentials, the log; the *)
(* log, the replay of a 401, the translation - with the breaker that health *)
(* reads.                                                                   *)
(*                                                                          *)
(* axios runs request interceptors last to first, response interceptors     *)
(* first to last, and hands a failure from anywhere in the chain to the     *)
(* response interceptors.  A replay runs the whole chain again inside the   *)
(* handler of the first pass.  What credentials are and when they are       *)
(* current is CredentialCache's, what a policy does to concurrent calls is   *)
(* ResiliencePolicy's: here an attempt ends in one of their ways.  Messages, *)
(* redaction and the layout of the log are left out.                        *)
(***************************************************************************)
EXTENDS Absence, Naturals, Sequences

CONSTANTS
    Config,      \* the configured entries: transport, exchange, breaker, timeout, retries
    Unknown,     \* a key without an entry: not in DOMAIN Config
    Statuses,    \* the statuses an upstream fails with
    Retriable    \* retriableStatusCodes

VARIABLES
    clients,      \* clients: the keys whose client is built
    translations, \* for each key: how many translations its chain holds (see translated)
    breakerStates,\* breakerStates: for each key, whose breaker is kept under it, or None
    breaker,      \* the state of each breaker there is
    request,         \* the request under way, or None
    outcome,      \* how the last one, or the last get, ended
    lines,        \* the failures it logged, oldest first
    report        \* what UpstreamHealthCheck last said: the degraded keys, or None

httpVars == <<clients, translations, breakerStates, breaker, request, outcome, lines, report>>

Upstreams == DOMAIN Config
Roles == {"client", "auth"}

ASSUME HttpAssumption ==
    /\ \A k \in Upstreams : Config[k].retries \in Nat
    /\ None \notin Roles

-----------------------------------------------------------------------------
\* A failure: what it is, the status of the response it carries, and what it was made of.
\* What the policy cancels at its timeout is a TaskCancelledError ("timeout"); what the
\* caller gives up, axios makes a CanceledError ("canceled"), whatever the policy threw.
Raw(kind, status) == [kind |-> kind, status |-> status, origin |-> None]
ToHttpException(e) ==
    [kind |-> CASE e.kind = "circuit" -> "503" [] e.kind = "timeout" -> "504" [] OTHER -> "502",
     status |-> None, origin |-> e]
\* Every translation of the chain in turn: the client's one, and that of a replay.
Translated(e, n) ==
    CASE n = 0 -> e [] n = 1 -> ToHttpException(e) [] OTHER -> ToHttpException(ToHttpException(e))

IsRetriable(e) == IF e.status # None THEN e.status \in Retriable ELSE e.kind = "network"

\* An entry without resilience has neither breaker nor timeout.
Occurs(k, e) == (e.kind = "circuit" => Config[k].breaker) /\ (e.kind = "timeout" => Config[k].timeout)

-----------------------------------------------------------------------------
HttpInit ==
    /\ clients = {} /\ translations = [k \in Upstreams |-> 0]
    /\ breakerStates = [k \in Upstreams |-> None]
    /\ breaker = [k \in Upstreams |-> [r \in Roles |-> "closed"]]
    /\ request = None /\ outcome = None /\ lines = <<>> /\ report = None

\* createInstance: the breaker of the client is kept under its key, that of the client the
\* token exchange uses is not.
Recorded(k) == IF Config[k].breaker THEN "client" ELSE None

\* get: a client is built once, and gets its translation once, behind everything else.
Get(k) ==
    /\ request = None
    /\ IF k \notin Upstreams THEN outcome' = [key |-> k, error |-> Raw("not configured", None)] /\ UNCHANGED <<clients, breakerStates>>
       ELSE /\ clients' = clients \cup {k} /\ outcome' = None
            /\ IF k \in clients THEN UNCHANGED breakerStates
               ELSE breakerStates' = [breakerStates EXCEPT ![k] = Recorded(k)]
    /\ translations' = IF k \in Upstreams /\ translations[k] = 0 THEN [translations EXCEPT ![k] = 1] ELSE translations
    /\ UNCHANGED <<breaker, request, lines, report>>

\* wrapAdapterWithPolicy: the policy goes around the adapter that was there first, found
\* on the config by a replay.  (Mutant: around whatever adapter the config has.)
WrapPrevious(pass) == pass
Wrap(pass) == 1

\* Each policy around the adapter retries so often.
Attempts(k, layers) ==
    LET once == 1 + Config[k].retries IN IF layers = 1 THEN once ELSE once * once

\* The chain from its start; a replay is a second pass, with the config of the first.
Pass(k, pass, aborted) ==
    [key |-> k, at |-> IF Config[k].transport THEN "credentials" ELSE "adapter",
     left |-> Attempts(k, Wrap(pass)), hits |-> 0,
     retried |-> pass = 2, aborted |-> aborted, failure |-> None]

Request(k) ==
    /\ request = None /\ k \in clients
    /\ request' = Pass(k, 1, FALSE)
    /\ outcome' = None /\ lines' = <<>>
    /\ UNCHANGED <<clients, translations, breakerStates, breaker, report>>

\* The client of our caller is gone: the signal of the request aborts, once.
Disconnect ==
    /\ request # None /\ ~ request.aborted
    /\ request' = [request EXCEPT !.aborted = TRUE]
    /\ UNCHANGED <<clients, translations, breakerStates, breaker, outcome, lines, report>>

Goes(at, left, hits, failure) ==
    [key |-> request.key, at |-> at, left |-> left, hits |-> hits,
     retried |-> request.retried, aborted |-> request.aborted, failure |-> failure]
Responds(failure) == Goes("response", request.left, request.hits, failure)

\* getCredentials and applyTransport: a strategy that fails, or produces nothing for an
\* entry, fails the request before it is sent.  (What becomes of a 401 of the token
\* endpoint is CredentialCache's.)
TokenFailures ==
    {Raw(e, None) : e \in {"network", "timeout", "circuit"}} \cup {Raw("status", s) : s \in Statuses \ {401}}
Credentials ==
    /\ request # None /\ request.at = "credentials"
    /\ \/ request' = Goes("adapter", request.left, request.hits, None)
       \/ request' = Responds(Raw("credential", None))
       \/ /\ Config[request.key].exchange
          /\ \E e \in TokenFailures : Occurs(request.key, e) /\ request' = Responds(e)
    /\ UNCHANGED <<clients, translations, breakerStates, breaker, outcome, lines, report>>

\* An attempt below the policy: refused by the breaker, given up at the timeout or by the
\* caller, answered, or without an answer.  A retriable failure is tried again.
AttemptFailures ==
    {Raw("status", s) : s \in Statuses} \cup {Raw(e, None) : e \in {"network", "timeout", "canceled"}}
Broken(k) == Config[k].breaker /\ breaker[k]["client"] = "open"

AttemptFails(e) ==
    /\ request # None /\ request.at = "adapter"
    /\ request.aborted <=> e.kind = "canceled"
    /\ request.aborted \/ (~ Broken(request.key) /\ Occurs(request.key, e))
    /\ request' = IF IsRetriable(e) /\ request.left > 1
               THEN Goes("adapter", request.left - 1, request.hits + 1, None)
               ELSE Goes("response", request.left, request.hits + (IF request.aborted THEN 0 ELSE 1), e)
    /\ UNCHANGED <<clients, translations, breakerStates, breaker, outcome, lines, report>>

AttemptRefused ==
    /\ request # None /\ request.at = "adapter" /\ Broken(request.key) /\ ~ request.aborted
    /\ request' = Responds(Raw("circuit", None))
    /\ UNCHANGED <<clients, translations, breakerStates, breaker, outcome, lines, report>>

AttemptSucceeds ==
    /\ request # None /\ request.at = "adapter" /\ ~ request.aborted /\ ~ Broken(request.key)
    /\ outcome' = [key |-> request.key, error |-> None]
    /\ request' = None
    /\ UNCHANGED <<clients, translations, breakerStates, breaker, lines, report>>

\* The response interceptors: the failure is logged as it came, a first 401 is replayed,
\* and what remains is translated - by the chain of the replay, and by that of the pass
\* that replayed it.
Passes(c) == IF c.retried THEN 2 ELSE 1
MayReplay == Config[request.key].transport /\ request.failure.status = 401 /\ ~ request.retried
Respond ==
    /\ request # None /\ request.at = "response"
    /\ lines' = Append(lines, request.failure)
    /\ IF MayReplay
       THEN request' = Pass(request.key, 2, request.aborted) /\ UNCHANGED outcome
       ELSE outcome' = [key |-> request.key, error |-> Translated(request.failure, translations[request.key] * Passes(request))] /\ request' = None
    /\ UNCHANGED <<clients, translations, breakerStates, breaker, report>>

\* The breaker of a client, or of the client of the token exchange, as its traffic has it.
BreakerMoves(k, r, s) ==
    /\ Config[k].breaker /\ k \in clients /\ breaker[k][r] # s
    /\ r = "auth" => Config[k].exchange
    /\ breaker' = [breaker EXCEPT ![k][r] = s]
    /\ UNCHANGED <<clients, translations, breakerStates, request, outcome, lines, report>>

\* UpstreamHealthCheck over breakers(): no breaker is no evidence.
BreakerCheck(k) ==
    LET state == breaker[k][breakerStates[k]]
    IN CASE state = "closed" -> "pass" [] state = "half-open" -> "warn" [] state = "open" -> "fail"
Check ==
    /\ report' = [degraded |-> {k \in Upstreams : breakerStates[k] # None /\ BreakerCheck(k) # "pass"},
                  open |-> {k \in Upstreams : breaker[k]["client"] # "closed"}]
    /\ UNCHANGED <<clients, translations, breakerStates, breaker, request, outcome, lines>>

HttpNext ==
    \/ \E k \in Upstreams \cup {Unknown} : Get(k) \/ Request(k)
    \/ Disconnect \/ Credentials \/ AttemptRefused \/ AttemptSucceeds \/ Respond \/ Check
    \/ \E e \in AttemptFailures : AttemptFails(e)
    \/ \E k \in Upstreams, r \in Roles, s \in {"closed", "open", "half-open"} : BreakerMoves(k, r, s)

HttpSpec == HttpInit /\ [][HttpNext]_httpVars

-----------------------------------------------------------------------------
Failed == outcome # None /\ outcome.error # None /\ outcome.key \in Upstreams
LastLine == lines[Len(lines)]

\* A failure is named after its cause (attachErrorTranslation.ts:7), and a caller who could
\* not be answered has not been tried more often than configured.  What was not replayed is
\* a 503 for an open circuit and nothing else, a 504 for a timeout and nothing else, and made
\* of the very failure that was logged, however often the client was asked for.  A 401 is
\* only reported after its replay.  A replay that fails too is translated by both passes: the
\* failure is still found in it, two origins down, but it is a 502 whatever it was.  No pass,
\* replay included, makes more attempts than one policy allows (HttpProviderFactory.ts:186);
\* and health reports the breaker of the client's own traffic and no other's.
FailureNamesItsCause ==
    /\ Failed =>
         /\ Len(lines) = 1 =>
               /\ outcome.error.kind = "503" <=> LastLine.kind = "circuit"
               /\ outcome.error.kind = "504" <=> LastLine.kind = "timeout"
               /\ outcome.error.origin = LastLine
               /\ ~ (Config[outcome.key].transport /\ LastLine.status = 401)
         /\ Len(lines) = 2 =>
               /\ lines[1].status = 401
               /\ outcome.error.kind = "502" /\ outcome.error.origin.origin = LastLine
         /\ Len(lines) \in {1, 2} /\ \A i \in DOMAIN lines : lines[i].origin = None
    /\ request # None => request.hits <= 1 + Config[request.key].retries
    /\ report # None => report.degraded = report.open
=============================================================================
