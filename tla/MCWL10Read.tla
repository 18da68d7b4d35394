----------------------------- MODULE MCWL10Read -----------------------------
(***************************************************************************)
(* Instances of WL10Read for TLC.                                          *)
(***************************************************************************)
EXTENDS WL10Read, TLC

\* One terminal memory to start from: a user in slot 1, the rest free.
MCInit ==
    /\ Init
    /\ dev.side = {}
    /\ dev.users[1] # NoVal
    /\ \A u \in Uids \ {1} : dev.users[u] = NoVal /\ u \notin dev.tpl

MCSpec == MCInit /\ [][Next]_vars
MCFairSpec == MCSpec /\ Fairness
=============================================================================
