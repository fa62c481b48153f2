----------------------------- MODULE MCShutdown -----------------------------
EXTENDS Shutdown, TLC

One(S) == {CHOOSE x \in S : TRUE}

\* Two probes around one shutdown; one probe with two signals and a crash; a shutdown without a
\* hard deadline.
MCModes ==
    {[callers |-> Requests, signals |-> One(Signals), crashes |-> {}, deadline |-> TRUE],
     [callers |-> One(Requests), signals |-> Signals, crashes |-> Crashes, deadline |-> TRUE],
     [callers |-> {}, signals |-> Signals, crashes |-> Crashes, deadline |-> FALSE]}

\* Probes only.
MCProbing == {[callers |-> Requests, signals |-> {}, crashes |-> {}, deadline |-> TRUE]}
=============================================================================
