-------------------------- MODULE WL10MutateRefines --------------------------
(***************************************************************************)
(* The mutations of WL10Mutate, with their reads, recoveries and retries,  *)
(* implement what WL10Outcome promises.                                    *)
(***************************************************************************)
EXTENDS WL10Mutate

Mutating == op.cmd \in Mutations

\* Requests of calls that returned and that the terminal may still serve.
Abandoned ==
    {[cmd |-> toDev[i].cmd, uid |-> toDev[i].uid, val |-> toDev[i].val] :
        i \in {j \in DOMAIN toDev : toDev[j].cmd \in {"set", "delete"}
                                      /\ toDev[j].call # callNo}}

Outcome == INSTANCE WL10Outcome WITH
    users  <- dev.users,
    tpl    <- dev.tpl,
    busy   <- pc # "idle" /\ Mutating,
    call   <- IF Mutating THEN op ELSE NoCall,
    fate   <- fate,
    loose  <- Abandoned,
    result <- IF Mutating THEN result ELSE "none"

\* Whatever is lost, refused or retried below it, a mutation sends at most one
\* request, to a slot without templates, and tells its caller nothing that did
\* not happen (wl10_set_user, wl10_delete_user, wl10_reboot).
ImplementsOutcome == Outcome!OutcomeSpec
=============================================================================
