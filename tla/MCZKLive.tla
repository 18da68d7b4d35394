------------------------------ MODULE MCZKLive ------------------------------
(***************************************************************************)
(* An instance of ZKLive for TLC.                                          *)
(***************************************************************************)
EXTENDS ZKLive

\* A fault strikes the first call and is the end of the run.  What else a call
\* leaves behind for the next one comes from events that meet its commands and
\* from dropped generators.
MCNext ==
    /\ LNext
    /\ faults' # faults => calls = 1
    /\ calls' # calls => faults = 0
MCSpec == LInit /\ [][MCNext]_lvars /\ LFairness
=============================================================================
