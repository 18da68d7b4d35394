----------------------------- MODULE WL10Mutate -----------------------------
(***************************************************************************)
(* The guarded mutations of src/pyzk_wl10/zk/base.py: wl10_set_user,       *)
(* wl10_delete_user and wl10_reboot on top of the table reads.  Each reads *)
(* the user table first (reboot does not), refreshes, sends its request    *)
(* exactly once and then believes the acknowledgement; with none it reads  *)
(* the table back to find out.                                             *)
(***************************************************************************)
EXTENDS WL10Read

CONSTANTS
    MutateOps,   \* which mutations a run makes
    Twins        \* groups of values with the same badge, name, privilege and card

ASSUME MutateOpsAssumption == MutateOps \subseteq Mutations
ASSUME TwinsAssumption ==
    /\ \A T \in Twins : T \subseteq Vals
    /\ \A S, T \in Twins : S = T \/ S \cap T = {}

VARIABLES
    stage,   \* what the user table is read for: "preflight" or "verify"
    sent     \* ghost: mutating requests the current call has sent

mutVars == <<stage, sent>>
mvars == <<vars, mutVars>>

AckPcs    == {"ackRefresh", "ackWrite", "ackRefresh2"}
SendPcs   == {"refresh", "write", "refresh2"}
MutatePcs == ReadPcs \cup SendPcs \cup AckPcs
Results   == {"none", "ok", "error", "true", "false", "reserved", "rejected",
              "unknown", "oserror"}

-----------------------------------------------------------------------------
(* Calls whose arguments passed the range checks.  A delete names a slot,  *)
(* or (uid 0) a badge.                                                     *)

Arguments(cmd) ==
    CASE cmd = "set"    -> [cmd : {cmd}, uid : Uids, val : Vals]
      [] cmd = "delete" -> [cmd : {cmd}, uid : Uids, val : {NoVal}]
                             \cup [cmd : {cmd}, uid : {0}, val : Vals]
      [] OTHER          -> {[NoCall EXCEPT !.cmd = cmd]}

\* Fault: a table read by an earlier call serves as the preflight.
StartMutationCached(c) ==
    /\ c.cmd \in MutateOps
    /\ NewCall(c)
    /\ \/ c.cmd # "reboot" /\ BeginTable("users", IF table["users"] # <<>> THEN "parsed" ELSE "raw")
       \/ c.cmd = "reboot" /\ pc' = "refresh"
                           /\ UNCHANGED <<rd, phase, tries, raws, sawAck>>
    /\ stage' = "preflight"
    /\ sent' = 0
    /\ result' = "none"
    /\ got' = <<>>
    /\ UNCHANGED <<dev, toDev, devOut, toCli, conn, path, mss, faults, enrols,
                   lastAck, maxseg, isConnect, timeout, sockTimeout, table>>

StartMutation(c) ==
    /\ c.cmd \in MutateOps
    /\ NewCall(c)
    /\ \/ c.cmd # "reboot" /\ BeginTable("users", "raw")
       \/ c.cmd = "reboot" /\ pc' = "refresh"
                           /\ UNCHANGED <<rd, phase, tries, raws, sawAck>>
    /\ stage' = "preflight"
    /\ sent' = 0
    /\ result' = "none"
    /\ got' = <<>>
    /\ UNCHANGED <<dev, toDev, devOut, toCli, conn, path, mss, faults, enrols,
                   lastAck, maxseg, isConnect, timeout, sockTimeout, table>>

-----------------------------------------------------------------------------
(* After the preflight: the parsed table decides.                          *)

Parsed == table["users"][1].tab

\* Fault: template slots are not looked at.
SlotUnchecked(u) == u \in Uids

\* _wl10_assert_user_slot_safe
SlotSafe(u) == u \notin Parsed.tpl

\* All that is ever compared of a user read back: password, group and verify
\* mode are not.
Alike(v, w) == v = w \/ \E T \in Twins : {v, w} \subseteq T

Preflight == pc = "parsed" /\ op.cmd \in {"set", "delete"} /\ stage = "preflight"

Proceed(u) ==
    /\ SlotSafe(u)
    /\ op' = [op EXCEPT !.uid = u]
    /\ pc' = "refresh"
    /\ result' = result

Decline(r) == Return(r) /\ op' = op

PreflightSet ==
    /\ Preflight /\ op.cmd = "set"
    /\ \/ Proceed(op.uid)
       \/ ~SlotSafe(op.uid) /\ Decline("reserved")
    /\ UNCHANGED <<linkVars, rd, phase, tries, raws, got, lastAck, sawAck, maxseg,
                   isConnect, timeout, sockTimeout, table, start, mutVars>>

Matches ==
    {u \in Uids : IF op.uid = 0 THEN Alike(Parsed.users[u], op.val)
                  ELSE u = op.uid /\ Parsed.users[u] # NoVal}

PreflightDelete ==
    /\ Preflight /\ op.cmd = "delete"
    /\ LET reserved == op.uid # 0 /\ ~SlotSafe(op.uid) IN
       \/ reserved /\ Decline("reserved")
       \/ ~reserved /\ Matches = {} /\ Decline("false")
       \/ ~reserved /\ \E u \in Matches : \/ Proceed(u)
                                          \/ ~SlotSafe(u) /\ Decline("reserved")
    /\ UNCHANGED <<linkVars, rd, phase, tries, raws, got, lastAck, sawAck, maxseg,
                   isConnect, timeout, sockTimeout, table, start, mutVars>>

TableReadFails ==
    /\ pc = "failed" /\ op.cmd \in {"set", "delete"}
    /\ Return(IF stage = "preflight" THEN "error" ELSE "unknown")
    /\ UNCHANGED <<linkVars, op, rd, phase, tries, raws, got, lastAck, sawAck, maxseg,
                   isConnect, timeout, sockTimeout, table, start, mutVars>>

-----------------------------------------------------------------------------
(* Sending a request and reading its acknowledgement.  is_connect is not   *)
(* looked at on this path.                                                 *)

AwaitAck(next) ==
    /\ pc' = next
    /\ got' = <<>>
    /\ sockTimeout' = "clamped"
    /\ UNCHANGED <<dev, devOut, toCli, conn, path, mss, callNo, faults, enrols,
                   op, rd, phase, tries, raws, lastAck, sawAck, maxseg,
                   isConnect, timeout, table, result, start, stage>>

RefreshSend ==
    /\ SendTo(Req("refresh"))
    /\ fate' = fate /\ sent' = sent
    /\ \/ pc = "refresh"  /\ AwaitAck("ackRefresh")
       \/ pc = "refresh2" /\ AwaitAck("ackRefresh2")

\* The one mutating request of the call.
WriteSend ==
    /\ pc = "write"
    /\ SendTo(Req(op.cmd))
    /\ fate' = IF conn = "up" THEN "sent" ELSE fate
    /\ sent' = sent + 1
    /\ AwaitAck("ackWrite")

SendError ==
    /\ pc \in SendPcs /\ conn = "dead"
    /\ Return(IF pc = "refresh2" THEN "true" ELSE "error")
    /\ UNCHANGED <<linkVars, op, rd, phase, tries, raws, got, lastAck, sawAck, maxseg,
                   isConnect, timeout, sockTimeout, table, start, mutVars>>

\* _wl10_read_ack collects whatever arrives until the line is silent.
AckRecv ==
    /\ pc \in AckPcs
    /\ toCli # <<>>
    /\ got' = got \o toCli
    /\ toCli' = <<>>
    /\ UNCHANGED <<dev, toDev, devOut, conn, path, mss, fate, callNo, faults, enrols,
                   op, pc, rd, phase, tries, raws, lastAck, sawAck, maxseg,
                   isConnect, timeout, sockTimeout, table, result, start, mutVars>>

\* What its first 16 bytes are taken for.  Neither the frame's magic nor the
\* reply id is compared: a frame of an earlier answer counts as the answer, and
\* bytes out of step decode to no command or to some other one.
AckValues(q) ==
    IF q = <<>> THEN {"none"}
    ELSE CASE q[1].k = "ok"               -> {"ok"}
           [] q[1].k \in {"err", "prep", "dhead"} -> {"other"}
           [] OTHER                       -> {"none", "other"}

AfterRefresh(a) ==
    /\ IF a = "ok" THEN pc' = "write" /\ result' = result ELSE Return("error")
    /\ UNCHANGED <<rd, phase, tries, raws, sawAck, isConnect, stage>>

\* Fault: without an acknowledgement the request is sent again.
AfterWriteResends(a) ==
    /\ pc' = (IF a = "none" THEN "write" ELSE "refresh2")
    /\ UNCHANGED <<rd, phase, tries, raws, sawAck, result, isConnect, stage>>

\* Fault: no acknowledgement counts as a rejection.
AfterWriteRejects(a) ==
    /\ Return(IF a = "ok" THEN "true" ELSE "rejected")
    /\ UNCHANGED <<rd, phase, tries, raws, sawAck, isConnect, stage>>

AfterWrite(a) ==
    \/ /\ a = "ok" /\ op.cmd # "reboot"
       /\ pc' = "refresh2"
       /\ UNCHANGED <<rd, phase, tries, raws, sawAck, result, isConnect, stage>>
    \/ /\ a = "other"
       /\ Return(IF op.cmd = "delete" THEN "false" ELSE "rejected")
       /\ UNCHANGED <<rd, phase, tries, raws, sawAck, isConnect, stage>>
    \/ /\ a = "none" /\ op.cmd # "reboot"
       /\ BeginTable("users", "raw")
       /\ stage' = "verify"
       /\ UNCHANGED <<result, isConnect>>
    \/ /\ a # "other" /\ op.cmd = "reboot"
       /\ Return(IF a = "ok" THEN "true" ELSE "unknown")
       /\ isConnect' = FALSE
       /\ UNCHANGED <<rd, phase, tries, raws, sawAck, stage>>

AfterRefresh2 ==
    /\ Return("true")
    /\ UNCHANGED <<rd, phase, tries, raws, sawAck, isConnect, stage>>

AckQuiet ==
    /\ pc \in AckPcs
    /\ MayTimeOut
    /\ got' = <<>>
    /\ sockTimeout' = timeout
    /\ \E a \in AckValues(got) :
          \/ pc = "ackRefresh"  /\ AfterRefresh(a)
          \/ pc = "ackWrite"    /\ AfterWrite(a)
          \/ pc = "ackRefresh2" /\ AfterRefresh2
    /\ UNCHANGED <<linkVars, op, lastAck, maxseg, timeout, table, start, sent>>

\* Only a timeout is caught: a reset connection raises through the whole call.
AckRaises ==
    /\ pc \in AckPcs
    /\ conn = "dead" /\ toCli = <<>>
    /\ Return("oserror")
    /\ got' = <<>>
    /\ sockTimeout' = timeout
    /\ UNCHANGED <<linkVars, op, rd, phase, tries, raws, lastAck, sawAck, maxseg,
                   isConnect, timeout, table, start, mutVars>>

\* Fault: reading the table back is taken for a success.
VerifiedUnread ==
    /\ pc = "parsed" /\ op.cmd \in {"set", "delete"} /\ stage = "verify"
    /\ Return("true")
    /\ UNCHANGED <<linkVars, op, rd, phase, tries, raws, got, lastAck, sawAck, maxseg,
                   isConnect, timeout, sockTimeout, table, start, mutVars>>

\* The slot read back shows the user asked for, or nobody after a delete.
Confirmed ==
    IF op.cmd = "set" THEN Alike(Parsed.users[op.uid], op.val)
    ELSE Parsed.users[op.uid] = NoVal

\* No acknowledgement: the table read back decides.
Verified ==
    /\ pc = "parsed" /\ op.cmd \in {"set", "delete"} /\ stage = "verify"
    /\ Return(IF Confirmed THEN "true" ELSE "unknown")
    /\ UNCHANGED <<linkVars, op, rd, phase, tries, raws, got, lastAck, sawAck, maxseg,
                   isConnect, timeout, sockTimeout, table, start, mutVars>>

MutateSteps ==
    \/ PreflightSet \/ PreflightDelete \/ TableReadFails
    \/ RefreshSend \/ WriteSend \/ SendError
    \/ AckRecv \/ AckQuiet \/ AckRaises \/ Verified

MInit ==
    /\ Init
    /\ stage = "preflight"
    /\ sent = 0

ReadPart == (Calls \/ ReadSteps \/ Env) /\ UNCHANGED mutVars
MutationCalls == \E cmd \in MutateOps : \E c \in Arguments(cmd) : StartMutation(c)

MNext == ReadPart \/ MutationCalls \/ MutateSteps

MFairness ==
    /\ WF_mvars((ReadSteps /\ UNCHANGED mutVars) \/ MutateSteps)
    /\ WF_mvars((Serve \/ ServeReboot) /\ UNCHANGED <<readVars, mutVars>>)
    /\ WF_mvars((\E n \in 1..Len(devOut) : Deliver(n)) /\ UNCHANGED <<readVars, mutVars>>)

MSpec == MInit /\ [][MNext]_mvars
MFairSpec == MSpec /\ MFairness

-----------------------------------------------------------------------------
(* Properties.                                                             *)

MTypeOK ==
    /\ ReadTypeOK
    /\ pc \in MutatePcs
    /\ result \in Results
    /\ stage \in {"preflight", "verify"}
    /\ sent \in Nat

\* A call sends its mutating request at most once, whatever is retried below
\* it: no path through the read retries, the recovery or the verification
\* comes back to the send ("sends once").
AtMostOneWrite == sent <= 1

\* A write or delete is only about to be sent for a slot that a table taken
\* during this very call shows not to be a fingerprint template.
GuardedWrite ==
    pc = "write" /\ op.cmd # "reboot" =>
        /\ table["users"] # <<>>
        /\ Parsed.gen >= start
        /\ op.uid \in Uids /\ op.uid \notin Parsed.tpl

\* With nobody enrolling at the terminal, no mutation of this client ever
\* takes a template slot.
TemplateSlotsKept == [][MaxEnrol = 0 => dev.tpl \subseteq dev'.tpl]_mvars

\* True is only returned when the terminal shows what the call asked for: every
\* field of a user written when the request was served, and with no request
\* served at least the badge, name, privilege and card.
TrueMeansShown ==
    pc = "idle" /\ result = "true" =>
        CASE op.cmd = "set"    -> /\ Alike(dev.users[op.uid], op.val)
                                  /\ fate = "applied" => dev.users[op.uid] = op.val
          [] op.cmd = "delete" -> dev.users[op.uid] = NoVal
          [] OTHER             -> fate = "applied"

\* Why AtMostOneWrite holds: until its request is out a mutation has sent none,
\* and a table read it comes back to afterwards is marked as the verification.
WriteOnce ==
    /\ sent <= 1
    /\ pc \in {"refresh", "ackRefresh", "write"} => sent = 0
    /\ pc \in ReadPcs \ {"idle"} /\ op.cmd \in Mutations /\ stage = "preflight" => sent = 0

\* Why TemplateSlotsKept holds: every table the client holds or may yet receive
\* shows at least the terminal's template slots, and no request that waits or is
\* about to be sent names one of them.
Shows(q, slots) == \A i \in DOMAIN q : q[i].k = "body" => slots \subseteq q[i].tab.tpl

Spares(reqs, slots) ==
    \A i \in DOMAIN reqs : reqs[i].cmd \in {"set", "delete"} => reqs[i].uid \notin slots

SlotsGuarded ==
    /\ Shows(devOut, dev.tpl) /\ Shows(toCli, dev.tpl) /\ Shows(got, dev.tpl)
    /\ \A c \in Reads : Shows(table[c], dev.tpl)
    /\ op.cmd \in {"set", "delete"} => rd = "users"
    /\ pc = "parsed" => table[rd] # <<>>
    /\ Spares(toDev, dev.tpl)
    /\ pc \in {"refresh", "ackRefresh", "write"} /\ op.cmd \in {"set", "delete"} =>
            op.uid \notin dev.tpl

\* Every call comes back to its caller.
MutationReturns ==
    pc # "idle" ~> pc = "idle"

-----------------------------------------------------------------------------
(* What the repository says and the code does not keep: TLC refutes these. *)

\* True is only returned when the terminal holds what the call asked for, to the
\* last field ("failing closed on uncertainty", wl10_set_user).
TrueMeansDone ==
    pc = "idle" /\ result = "true" =>
        CASE op.cmd = "set"    -> dev.users[op.uid] = op.val
          [] op.cmd = "delete" -> dev.users[op.uid] = NoVal
          [] OTHER             -> fate = "applied"

\* Nor does one ever take the slot of a nameless sidecar record ("nameless
\* records are protected as _wl10_sidecar_uids", _wl10_parse_users).
SidecarSlotsKept == [][dev.side \subseteq dev'.side]_mvars

\* Once a restart request may have reached the terminal, the call does not
\* return with the connection still marked open ("fail closed on unknown
\* outcome", wl10_reboot).
RebootFailsClosed ==
    pc = "idle" /\ op.cmd = "reboot" /\ fate \in {"sent", "applied"} => ~isConnect
=============================================================================
