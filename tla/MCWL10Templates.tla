--------------------------- MODULE MCWL10Templates ---------------------------
(***************************************************************************)
(* Instances of WL10Templates for TLC.                                     *)
(***************************************************************************)
EXTENDS WL10Templates, TLC

\* Reserved slots hold no template that command 88 could be asked for.
MCInit == Init /\ \A p \in tmpl : p[1] \in Users

MCSpec == MCInit /\ [][Next]_tvars
MCFairSpec == MCSpec /\ Fairness
=============================================================================
