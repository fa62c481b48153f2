-------------------------- MODULE MCPropertyPoller --------------------------
EXTENDS PropertyPoller, TLC

\* Subscriptions come and go without commands; commands when every reading is dispatched.
MCModes ==
    {[onChange |-> TRUE, commands |-> FALSE, handlers |-> TRUE],
     [onChange |-> FALSE, commands |-> TRUE, handlers |-> TRUE]}

\* All devices start with one value; which one is immaterial, values are only compared.
MCInit == Init /\ \A d \in Devices, p \in Props : actual[d][p] = CHOOSE v \in Values : TRUE

MCSpec == MCInit /\ [][Next]_vars /\ Fairness
=============================================================================
