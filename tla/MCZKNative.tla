----------------------------- MODULE MCZKNative -----------------------------
(***************************************************************************)
(* Instances of ZKNative for TLC.                                          *)
(***************************************************************************)
EXTENDS ZKNative

\* One user; the other tables are empty, or need two chunks.
MCInit ==
    /\ NInit
    /\ mem["users"] = 1
    /\ mem["templates"] \in {0, 3}
    /\ mem["log"] \in {0, 2}

MCSpec == MCInit /\ [][NNext]_nvars /\ NFairness
=============================================================================
