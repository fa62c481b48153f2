-------------------------- MODULE MCNotificationApi -------------------------
EXTENDS NotificationApi, TLC

MCModes == {[onChange |-> TRUE, commands |-> FALSE, handlers |-> FALSE]}

\* Requests that do not touch the same subscription at a time, with storage failures of
\* each kind.
MCServings ==
    {[exclusive |-> TRUE, duplicates |-> FALSE, fails |-> "no"],
     [exclusive |-> TRUE, duplicates |-> TRUE, fails |-> "clean"],
     [exclusive |-> TRUE, duplicates |-> TRUE, fails |-> "unknown"]}

\* Every device is up until it is deleted.
MCInit == ApiInit /\ up = [d \in Devices |-> TRUE]

MCSpec == MCInit /\ [][ApiNext]_<<vars, apiVars>> /\ ApiFairness
=============================================================================
