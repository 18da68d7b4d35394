---------------------------- MODULE MCWL10Mutate ----------------------------
(***************************************************************************)
(* Instances of WL10Mutate for TLC.                                        *)
(***************************************************************************)
EXTENDS WL10MutateRefines, TLC

\* Slot 1 holds a user; slot 2 is free or holds a fingerprint template.
MCInit ==
    /\ MInit
    /\ dev.users = [u \in Uids |-> IF u = 1 THEN CHOOSE v \in Vals : TRUE ELSE NoVal]
    /\ dev.tpl \subseteq {2}
    /\ dev.side = {}

MCSpec == MCInit /\ [][MNext]_mvars
MCFairSpec == MCSpec /\ MFairness
=============================================================================
