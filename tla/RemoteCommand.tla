--------------------------- MODULE RemoteCommand ---------------------------
(***************************************************************************)
(* What a caller of MiotDevice may rely on, with stamps, handshakes,       *)
(* datagrams and stamp stores hidden: a remote command is judged by the    *)
(* device at most once in each of two attempts, it is reported as done     *)
(* only after an attempt was carried out in full or, where the transport   *)
(* is lenient, answered in full with a refusal among the answers; and a    *)
(* reported failure says nothing (the device may have obeyed).             *)
(***************************************************************************)

CONSTANT Calls  \* the command invocations

VARIABLES lenient,  \* lenient[c]: a refused item does not fail the command
          status,   \* status[c]: what the caller of c sees
          runs,     \* runs[c]: the attempts (1, 2) the device carried out in full
          declined  \* declined[c]: the attempts it answered, refusing some of it

Attempts == {1, 2}

TypeOK ==
    /\ lenient \in [Calls -> BOOLEAN]
    /\ status \in [Calls -> {"new", "pending", "ok", "failed"}]
    /\ runs \in [Calls -> SUBSET Attempts]
    /\ declined \in [Calls -> SUBSET Attempts]

Init ==
    /\ lenient \in [Calls -> BOOLEAN]
    /\ status = [c \in Calls |-> "new"]
    /\ runs = [c \in Calls |-> {}]
    /\ declined = [c \in Calls |-> {}]

\* The command is issued; it may be refused on the spot.
Issue(c) ==
    /\ status[c] = "new"
    /\ \E s \in {"pending", "failed"} : status' = [status EXCEPT ![c] = s]
    /\ UNCHANGED <<lenient, runs, declined>>

Open(c) == Attempts \ (runs[c] \cup declined[c])

\* The device carries out one of the two attempts, possibly after the caller gave up.
CarryOut(c) ==
    /\ status[c] # "new"
    /\ \E a \in Open(c) : runs' = [runs EXCEPT ![c] = @ \cup {a}]
    /\ UNCHANGED <<lenient, status, declined>>

\* It answers an attempt with a refusal, and the command takes that for an answer.
Decline(c) ==
    /\ status[c] # "new"
    /\ lenient[c]
    /\ \E a \in Open(c) : declined' = [declined EXCEPT ![c] = @ \cup {a}]
    /\ UNCHANGED <<lenient, status, runs>>

ReportDone(c) ==
    /\ status[c] = "pending"
    /\ runs[c] \cup declined[c] # {}
    /\ status' = [status EXCEPT ![c] = "ok"]
    /\ UNCHANGED <<lenient, runs, declined>>

ReportFailure(c) ==
    /\ status[c] = "pending"
    /\ status' = [status EXCEPT ![c] = "failed"]
    /\ UNCHANGED <<lenient, runs, declined>>

Next ==
    \E c \in Calls :
        Issue(c) \/ CarryOut(c) \/ Decline(c) \/ ReportDone(c) \/ ReportFailure(c)

Spec == Init /\ [][Next]_<<lenient, status, runs, declined>>
=============================================================================
