----------------------------- MODULE WL10Outcome -----------------------------
(***************************************************************************)
(* What a guarded mutation of src/pyzk_wl10/zk/base.py promises its        *)
(* caller, without saying how: at most one request, which the terminal may *)
(* serve, refuse or never see; never a fingerprint template slot; and a    *)
(* result that says no more than what happened.  WL10Mutate implements     *)
(* this on a network whose answers come in time (WL10MutateRefines), and   *)
(* the tools are built on it (WL10Tools).                                  *)
(***************************************************************************)
EXTENDS Integers

CONSTANTS
    Uids,    \* user slots
    Vals,    \* what a slot can hold
    NoVal,   \* an empty slot
    Twins    \* groups of values with the same badge, name, privilege and card

VARIABLES
    users,   \* the terminal's user slots
    tpl,     \* slots that hold fingerprint templates
    busy,    \* a mutation is in progress
    call,    \* the current or last one: command, slot, value
    fate,    \* what became of its request
    loose,   \* requests of calls that ended without knowing
    result   \* what the last call told its caller

outcomeVars == <<users, tpl, busy, call, fate, loose, result>>

Outcomes == {"true", "false", "reserved", "rejected", "error", "unknown", "oserror"}

\* Two values nothing in the code tells apart.
Alike(v, w) == v = w \/ \E T \in Twins : {v, w} \subseteq T

\* What serving a request does to the slots.
Served(req) ==
    /\ req.uid \in Uids \ tpl
    /\ users' = [users EXCEPT ![req.uid] = IF req.cmd = "set" THEN req.val ELSE NoVal]

\* A call begins.  A request its predecessor gave up may still be under way.
Begin(c, other) ==
    /\ ~busy
    /\ busy' = ~other
    /\ call' = c
    /\ fate' = "unsent"
    /\ result' = "none"
    /\ \/ loose' \in SUBSET loose
       \/ fate = "sent" /\ call.cmd # "reboot" /\ loose' = loose \cup {call}
    /\ UNCHANGED <<users, tpl>>

\* A delete that names a badge settles on a slot that holds it.
Resolve(u) ==
    /\ busy /\ fate = "unsent" /\ call.uid = 0 /\ call.cmd = "delete"
    /\ Alike(users[u], call.val)
    /\ call' = [call EXCEPT !.uid = u]
    /\ UNCHANGED <<users, tpl, busy, fate, loose, result>>

\* The one request of the call.
Send ==
    /\ busy /\ fate = "unsent"
    /\ fate' = "sent"
    /\ UNCHANGED <<users, tpl, busy, call, loose, result>>

Serve ==
    /\ fate = "sent"
    /\ \/ call.cmd = "reboot" /\ users' = users
       \/ call.cmd # "reboot" /\ Served(call)
    /\ fate' = "applied"
    /\ loose' \in {loose, {}}
    /\ UNCHANGED <<tpl, busy, call, result>>

Refuse ==
    /\ fate = "sent"
    /\ fate' = "refused"
    /\ UNCHANGED <<users, tpl, busy, call, loose, result>>

\* A request of an earlier call is served after all, or lost.
ServeLoose ==
    \E req \in loose :
        /\ Served(req) \/ users' = users
        /\ loose' = loose \ {req}
        /\ UNCHANGED <<tpl, busy, call, fate, result>>

\* Everything the caller may be told, and when.
Truthful(r) ==
    CASE r = "true" ->
            (CASE call.cmd = "set"    -> /\ Alike(users[call.uid], call.val)
                                        /\ fate = "applied" => users[call.uid] = call.val
               [] call.cmd = "delete" -> call.uid \in Uids /\ users[call.uid] = NoVal
               [] OTHER               -> fate = "applied")
      [] r = "rejected"              -> fate = "refused"
      [] r = "false"                 -> call.cmd = "delete" /\ fate \in {"unsent", "refused"}
      [] r \in {"reserved", "error"} -> fate = "unsent"
      [] OTHER                       -> TRUE

Finish(r) ==
    /\ busy
    /\ Truthful(r)
    /\ busy' = FALSE
    /\ result' = r
    /\ UNCHANGED <<users, tpl, call, fate, loose>>

Steps ==
    \/ \E u \in Uids : Resolve(u)
    \/ Send \/ Serve \/ Refuse \/ ServeLoose
    \/ \E r \in Outcomes : Finish(r)

Mutation ==
    [cmd : {"set"}, uid : Uids, val : Vals]
        \cup [cmd : {"delete"}, uid : Uids, val : {NoVal}]
        \cup [cmd : {"delete"}, uid : {0}, val : Vals]
        \cup [cmd : {"reboot"}, uid : {0}, val : {NoVal}]
NoMutation == [cmd |-> "none", uid |-> 0, val |-> NoVal]

OutcomeInit ==
    /\ users \in [Uids -> Vals \cup {NoVal}]
    /\ tpl \in SUBSET Uids
    /\ busy = FALSE
    /\ call = NoMutation
    /\ fate = "unsent"
    /\ loose = {}
    /\ result = "none"

OutcomeNext ==
    \/ \E c \in Mutation : Begin(c, FALSE)
    \/ Begin(NoMutation, TRUE)
    \/ Steps

OutcomeSpec == OutcomeInit /\ [][OutcomeNext]_outcomeVars
=============================================================================
