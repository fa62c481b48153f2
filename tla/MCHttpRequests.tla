--------------------------- MODULE MCHttpRequests ---------------------------
(***************************************************************************)
(* What surrounds a request to an external API, for TLC: the credentials    *)
(* its interceptors add, and the policy its adapter runs under.  A          *)
(* behaviour is of one; the other rests.                                    *)
(***************************************************************************)
EXTENDS CredentialCache, ResiliencePolicy, TLC

VARIABLE part

\* All requests over a strategy without expiry; all but one over a token endpoint that may
\* say 401, and over tokens that expire.  A request needs two acquisitions at most, unless the
\* token endpoint says 401.
Few == Requests \ {CHOOSE r \in Requests : TRUE}

MCModes ==
    {[callers |-> Requests, fetches |-> MaxFetches, expires |-> FALSE, refusals |-> FALSE],
     [callers |-> Few, fetches |-> 4, expires |-> FALSE, refusals |-> TRUE],
     [callers |-> Few, fetches |-> 4, expires |-> TRUE, refusals |-> FALSE]}

\* One request over a token endpoint that may say 401.
MCRefusing == {[callers |-> Requests, fetches |-> MaxFetches, expires |-> FALSE, refusals |-> TRUE]}

\* Everything configured, with a predicate for the errors of the policy itself; the default
\* predicate without a timeout; neither timeout nor retry; and no breaker.
MCConfigs ==
    {[retries |-> 1, timeout |-> TRUE, breaker |-> TRUE, handled |-> {"timeout", "broken"}],
     [retries |-> 1, timeout |-> FALSE, breaker |-> TRUE, handled |-> Errors],
     [retries |-> 0, timeout |-> FALSE, breaker |-> TRUE, handled |-> {"transient"}],
     [retries |-> 1, timeout |-> TRUE, breaker |-> FALSE, handled |-> {"transient", "timeout"}]}

-----------------------------------------------------------------------------
MCInit ==
    /\ Init /\ PolicyInit
    /\ \/ part = "credentials" /\ config = CHOOSE c \in Configs : TRUE
       \/ part = "policy" /\ mode = CHOOSE m \in Modes : TRUE

MCNext ==
    \/ part = "credentials" /\ Next /\ UNCHANGED <<part, policyVars>>
    \/ part = "policy" /\ PolicyNext /\ UNCHANGED <<part, vars>>

\* Who rests has nothing fairness could ask for.
MCSpec == MCInit /\ [][MCNext]_<<part, vars, policyVars>> /\ Fairness /\ PolicyFairness
=============================================================================
