---------------------------- MODULE MCMiotDevice ----------------------------
(* MiotDevice for TLC: the deployments considered. *)
EXTENDS MiotDevice, TLC

\* Overlapping callers of one process, or of two that share a failing stamp store;
\* and the single user, for which the stamp bookkeeping is exact.
MCModes ==
    {[serial |-> FALSE, store |-> FALSE, storeFails |-> FALSE, strays |-> TRUE,
      clock |-> FALSE, strict |-> FALSE],
     [serial |-> FALSE, store |-> TRUE, storeFails |-> TRUE, strays |-> FALSE,
      clock |-> FALSE, strict |-> FALSE],
     [serial |-> TRUE, store |-> FALSE, storeFails |-> FALSE, strays |-> TRUE,
      clock |-> TRUE, strict |-> FALSE],
     [serial |-> TRUE, store |-> TRUE, storeFails |-> TRUE, strays |-> FALSE,
      clock |-> FALSE, strict |-> TRUE]}

\* A second process matters where a stamp store is shared, and there only its calls do.
FirstNode == CHOOSE n \in Nodes : TRUE
Used(n) == \E c \in Calls : plan[c].node = n

\* The calls are interchangeable: their plans come in one order.
FirstCall == CHOOSE c \in Calls : TRUE
Rank(p) == p.size + (CASE p.op = "discover" -> 0 [] p.op = "property" -> 1 [] OTHER -> 2)

MCInit ==
    /\ Init
    /\ \A c \in Calls : Rank(plan[FirstCall]) <= Rank(plan[c])
    /\ plan[FirstCall].size = 1
    /\ Used(FirstNode)
    /\ devStamp <= 1 /\ \A n \in Nodes : stampState[n] \in {NoStamp, 0}
    /\ store # NoStamp => OneUser /\ store = 0
    /\ ~mode.store => \A n \in Nodes : Used(n) => n = FirstNode
    /\ \A n \in Nodes : ~Used(n) => ~deviceKnown[n] /\ stampState[n] = NoStamp
    /\ (\A n \in Nodes : Used(n)) => \A n \in Nodes : deviceKnown[n]

MCSpec == MCInit /\ [][Next]_vars /\ Fairness
=============================================================================
