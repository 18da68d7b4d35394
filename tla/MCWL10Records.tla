---------------------------- MODULE MCWL10Records ----------------------------
(***************************************************************************)
(* Instances of WL10Records for TLC: every pair of short tables.           *)
(***************************************************************************)
EXTENDS WL10Records, SequencesExt, TLC

CONSTANTS MaxRecs, MaxPunches   \* bounds on the lengths of the tables

Named == [uid : Uids, shape : {"named"}, badge : Badges]

\* Longer user tables alone, and shorter ones of named records, which are all
\* that decides who is shown for a punch, with attendance tables.
MCInit ==
    /\ \/ recs \in BoundedSeq(Records, MaxRecs) /\ punches = <<>>
       \/ recs \in BoundedSeq(Named, 2) /\ punches \in BoundedSeq(Punches, MaxPunches)
    /\ Init

MCSpec == MCInit /\ [][Next]_vars
=============================================================================
