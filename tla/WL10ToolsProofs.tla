--------------------------- MODULE WL10ToolsProofs ---------------------------
(***************************************************************************)
(* The runner replaces nobody it could have known of, and what the runner  *)
(* and the read probe report can be relied on: for every terminal, any     *)
(* number of runs and any schedule.                                        *)
(***************************************************************************)
EXTENDS WL10Tools, TLAPS

RunnerRequest(r) == r.cmd = "set" /\ r.val = "residue"

\* A mutation runs only for a runner that waits for it.
BusyForRunner == busy => tool = "runner" /\ step = "writing" /\ call.uid = cand

\* All that is in the network is a runner's request.
OnlyRunnerRequests ==
    /\ busy \/ fate # "unsent" => RunnerRequest(call)
    /\ \A r \in loose : RunnerRequest(r)

\* Whoever is in a slot that a write is bound for came after the decision.
DecidedOnFreeSlots == \A u \in Decided \cap Uids : users[u] \in People => u \in raced

TInv ==
    /\ users \in [Uids -> Vals \cup {NoVal}]
    /\ BusyForRunner
    /\ OnlyRunnerRequests
    /\ DecidedOnFreeSlots

ReplacesOnlyRaced ==
    \A u \in Uids : users[u] \in People /\ users'[u] = "residue" => u \in raced

----------------------------------------------------------------------------
(* Steps that leave the slots alone.                                       *)

\* A step that changes neither slots nor marks, and decides on no new slot.
LEMMA QuietStep ==
    ASSUME DecidedOnFreeSlots, UNCHANGED <<users, raced>>, Decided' \subseteq Decided
    PROVE  DecidedOnFreeSlots'
BY DEF DecidedOnFreeSlots

\* The runner before and after its write: only the stage moves.
LEMMA RunnerStep ==
    ASSUME TInv, UNCHANGED outcomeVars, UNCHANGED <<tool, cand, raced>>,
           tool = "runner", ~busy, step' \notin {"write", "writing"}
    PROVE  TInv'
<1>1. BusyForRunner' /\ OnlyRunnerRequests'
    BY DEF TInv, BusyForRunner, OnlyRunnerRequests, RunnerRequest, outcomeVars
<1>2. Decided' \subseteq Decided
    BY DEF Decided, outcomeVars
<1>3. DecidedOnFreeSlots'
    BY <1>2, QuietStep DEF TInv, outcomeVars
<1> QED
    BY <1>1, <1>3 DEF TInv, outcomeVars

\* Another program than the runner, or none, starts, goes on or ends.
LEMMA OtherStep ==
    ASSUME TInv, UNCHANGED outcomeVars, UNCHANGED <<cand, raced>>,
           tool # "runner", tool' # "runner"
    PROVE  TInv'
<1>1. BusyForRunner' /\ OnlyRunnerRequests'
    BY DEF TInv, BusyForRunner, OnlyRunnerRequests, RunnerRequest, outcomeVars
<1>2. Decided' \subseteq Decided
    BY DEF Decided, outcomeVars
<1>3. DecidedOnFreeSlots'
    BY <1>2, QuietStep DEF TInv, outcomeVars
<1> QED
    BY <1>1, <1>3 DEF TInv, outcomeVars

----------------------------------------------------------------------------
(* The runner.                                                             *)

LEMMA StartRunnerKeeps ==
    ASSUME TInv, NEW u \in Uids \cup {0}, StartRunner(u)
    PROVE  TInv'
<1>1. /\ tool = "idle" /\ tool' = "runner" /\ step' = "connect"
      /\ UNCHANGED <<users, busy, call, fate, loose, raced>>
    BY DEF StartRunner, Enter, outcomeVars
<1>2. BusyForRunner' /\ OnlyRunnerRequests'
    BY <1>1 DEF TInv, BusyForRunner, OnlyRunnerRequests, RunnerRequest
<1>3. Decided' \subseteq Decided
    BY <1>1 DEF Decided
<1>4. DecidedOnFreeSlots'
    BY <1>1, <1>3, QuietStep DEF TInv
<1> QED
    BY <1>1, <1>2, <1>4 DEF TInv

LEMMA BaselineKeeps ==
    ASSUME TInv, Baseline
    PROVE  TInv'
<1>1. /\ tool = "runner" /\ step = "connect" /\ step' \notin {"write", "writing"}
      /\ UNCHANGED outcomeVars /\ UNCHANGED <<tool, cand, raced>>
    BY DEF Baseline, Fails, GoTo, Reach, RunnerOnly
<1>2. ~busy
    BY <1>1 DEF TInv, BusyForRunner
<1> QED
    BY <1>1, <1>2, RunnerStep

\* The write is decided on a slot that the second read shows free.
LEMMA FreshBaselineKeeps ==
    ASSUME TInv, FreshBaseline, ToolsAssumption
    PROVE  TInv'
<1>1. /\ tool = "runner" /\ step = "fresh-baseline"
      /\ UNCHANGED outcomeVars /\ UNCHANGED <<tool, cand, raced>>
    BY DEF FreshBaseline, Fails, GoTo, Reach, RunnerOnly
<1>2. ~busy
    BY <1>1 DEF TInv, BusyForRunner
<1>3. CASE step' = "close"
    BY <1>1, <1>2, <1>3, RunnerStep
<1>4. CASE ~Occupied(cand) /\ step' = "write"
    <2>1. cand \in Uids => users[cand] = NoVal
        BY <1>4 DEF Occupied, Held
    <2>2. NoVal \notin People
        BY DEF People, ToolsAssumption
    <2>3. Decided' \subseteq Decided \cup {cand}
        BY <1>1 DEF Decided, outcomeVars
    <2>4. DecidedOnFreeSlots'
        BY <1>1, <2>1, <2>2, <2>3 DEF TInv, DecidedOnFreeSlots, outcomeVars, People
    <2>5. BusyForRunner' /\ OnlyRunnerRequests'
        BY <1>1, <1>2 DEF TInv, BusyForRunner, OnlyRunnerRequests, RunnerRequest, outcomeVars
    <2> QED
        BY <1>1, <2>4, <2>5 DEF TInv, outcomeVars
<1> QED
    BY <1>3, <1>4 DEF FreshBaseline, Fails, GoTo, Reach

LEMMA WriteKeeps ==
    ASSUME TInv, Write
    PROVE  TInv'
<1> DEFINE req == [cmd |-> "set", uid |-> cand, val |-> "residue"]
<1>1. /\ tool = "runner" /\ step = "write" /\ step' = "writing"
      /\ call' = req /\ fate' = "unsent"
      /\ UNCHANGED <<users, tool, cand, raced>>
    BY DEF Write, Begin, GoTo, RunnerOnly
<1>0. loose' \in SUBSET loose \/ (fate = "sent" /\ loose' = loose \cup {call})
    BY DEF Write, Begin
<1>2. BusyForRunner'
    BY <1>1 DEF BusyForRunner
<1>3. OnlyRunnerRequests'
    BY <1>0, <1>1 DEF TInv, OnlyRunnerRequests, RunnerRequest
<1>4. Decided' \subseteq Decided
    BY <1>0, <1>1 DEF Decided
<1>5. DecidedOnFreeSlots'
    BY <1>1, <1>4, QuietStep DEF TInv
<1> QED
    BY <1>1, <1>2, <1>3, <1>5 DEF TInv

LEMMA LaterStagesKeep ==
    ASSUME TInv, Returned \/ Readback
    PROVE  TInv'
<1>1. /\ tool = "runner" /\ step' \notin {"write", "writing"}
      /\ step = "readback" \/ ~busy
      /\ UNCHANGED outcomeVars /\ UNCHANGED <<tool, cand, raced>>
    BY DEF Returned, Readback, Fails, GoTo, Reach, RunnerOnly
<1>2. ~busy
    BY <1>1 DEF TInv, BusyForRunner
<1> QED
    BY <1>1, <1>2, RunnerStep

LEMMA CloseKeeps ==
    ASSUME TInv, NEW closed \in BOOLEAN, NEW stored \in BOOLEAN, Close(closed, stored)
    PROVE  TInv'
<1>1. /\ step = "close" /\ tool' = "idle"
      /\ UNCHANGED <<users, busy, call, fate, loose, raced>>
    BY DEF Close, outcomeVars
<1>2. BusyForRunner' /\ OnlyRunnerRequests'
    BY <1>1 DEF TInv, BusyForRunner, OnlyRunnerRequests, RunnerRequest
<1>3. Decided' \subseteq Decided
    BY <1>1 DEF Decided
<1>4. DecidedOnFreeSlots'
    BY <1>1, <1>3, QuietStep DEF TInv
<1> QED
    BY <1>1, <1>2, <1>4 DEF TInv

----------------------------------------------------------------------------
(* The mutation under way.                                                 *)

\* A request that is served puts the runner's user into a decided slot.
LEMMA ServedKeeps ==
    ASSUME TInv, ToolsAssumption, NEW req, RunnerRequest(req), req.uid \in Decided,
           Served(req),
           raced' = {u \in raced : users'[u] = users[u]},
           Decided' \subseteq Decided
    PROVE  /\ users' \in [Uids -> Vals \cup {NoVal}]
           /\ DecidedOnFreeSlots'
<1>1. /\ req.uid \in Uids /\ "residue" \in Vals /\ "residue" \notin People
      /\ users' = [users EXCEPT ![req.uid] = "residue"]
    BY DEF Served, RunnerRequest, ToolsAssumption, People
<1>2. users' \in [Uids -> Vals \cup {NoVal}]
    BY <1>1 DEF TInv
<1>3. ASSUME NEW u \in Decided' \cap Uids, users'[u] \in People'
      PROVE  u \in raced'
    <2>1. u # req.uid /\ users'[u] = users[u]
        BY <1>1, <1>3 DEF TInv, People
    <2> QED
        BY <2>1, <1>3 DEF TInv, DecidedOnFreeSlots, People
<1> QED
    BY <1>2, <1>3 DEF DecidedOnFreeSlots

LEMMA ServeKeeps ==
    ASSUME TInv, ToolsAssumption, Serve, raced' = {u \in raced : users'[u] = users[u]},
           UNCHANGED <<tool, step, cand>>
    PROVE  TInv'
<1>1. /\ fate = "sent" /\ fate' = "applied" /\ loose' \in {loose, {}}
      /\ UNCHANGED <<busy, call>> /\ RunnerRequest(call)
    BY DEF Serve, TInv, OnlyRunnerRequests
<1>2. Served(call)
    BY <1>1 DEF Serve, RunnerRequest
<1>3. call.uid \in Decided /\ Decided' \subseteq Decided
    BY <1>1 DEF Decided
<1>4. users' \in [Uids -> Vals \cup {NoVal}] /\ DecidedOnFreeSlots'
    BY <1>1, <1>2, <1>3, ServedKeeps
<1>5. BusyForRunner' /\ OnlyRunnerRequests'
    BY <1>1 DEF TInv, BusyForRunner, OnlyRunnerRequests, RunnerRequest
<1> QED
    BY <1>4, <1>5 DEF TInv

LEMMA ServeLooseKeeps ==
    ASSUME TInv, ToolsAssumption, ServeLoose, raced' = {u \in raced : users'[u] = users[u]},
           UNCHANGED <<tool, step, cand>>
    PROVE  TInv'
<1>1. PICK req \in loose :
            /\ Served(req) \/ users' = users
            /\ loose' = loose \ {req}
            /\ UNCHANGED <<tpl, busy, call, fate, result>>
    BY DEF ServeLoose
<1>2. RunnerRequest(req) /\ req.uid \in Decided /\ Decided' \subseteq Decided
    BY <1>1 DEF TInv, OnlyRunnerRequests, Decided
<1>3. BusyForRunner' /\ OnlyRunnerRequests'
    BY <1>1 DEF TInv, BusyForRunner, OnlyRunnerRequests, RunnerRequest
<1>4. CASE Served(req)
    BY <1>2, <1>3, <1>4, ServedKeeps DEF TInv
<1>5. CASE users' = users
    BY <1>2, <1>3, <1>5 DEF TInv, DecidedOnFreeSlots, People
<1> QED
    BY <1>1, <1>4, <1>5

LEMMA MutatingKeeps ==
    ASSUME TInv, ToolsAssumption, Mutating
    PROVE  TInv'
<1>1. raced' = {u \in raced : users'[u] = users[u]} /\ UNCHANGED <<tool, step, cand>>
    BY DEF Mutating
<1>2. CASE Send
    <2>1. /\ busy /\ fate = "unsent" /\ fate' = "sent"
          /\ UNCHANGED <<users, busy, call, loose>>
        BY <1>2 DEF Send
    <2>2. BusyForRunner' /\ OnlyRunnerRequests'
        BY <1>1, <2>1 DEF TInv, BusyForRunner, OnlyRunnerRequests, RunnerRequest
    <2>3. Decided' \subseteq Decided
        BY <1>1, <2>1 DEF TInv, BusyForRunner, Decided
    <2> QED
        BY <1>1, <2>1, <2>2, <2>3 DEF TInv, DecidedOnFreeSlots, People
<1>3. CASE Serve
    BY <1>1, <1>3, ServeKeeps
<1>4. CASE Refuse \/ \E r \in Outcomes : Finish(r)
    <2>1. /\ UNCHANGED <<users, call, loose>>
          /\ busy' => busy
          /\ fate' = fate \/ (fate = "sent" /\ fate' = "refused")
        BY <1>4 DEF Refuse, Finish
    <2>2. BusyForRunner' /\ OnlyRunnerRequests'
        BY <1>1, <2>1 DEF TInv, BusyForRunner, OnlyRunnerRequests, RunnerRequest
    <2>3. Decided' \subseteq Decided
        BY <1>1, <2>1 DEF Decided
    <2> QED
        BY <1>1, <2>1, <2>2, <2>3 DEF TInv, DecidedOnFreeSlots, People
<1>5. CASE ServeLoose
    BY <1>1, <1>5, ServeLooseKeeps
<1> QED
    BY <1>2, <1>3, <1>4, <1>5 DEF Mutating

----------------------------------------------------------------------------
(* The keypad.                                                             *)

LEMMA EnrolKeeps ==
    ASSUME TInv, NEW u \in Uids, NEW p \in People, Enrol(u, p)
    PROVE  TInv'
<1>1. /\ users' = [users EXCEPT ![u] = p]
      /\ raced' = IF u \in Decided THEN raced \cup {u} ELSE raced
      /\ UNCHANGED <<busy, call, fate, loose, tool, step, cand>>
    BY DEF Enrol
<1>2. BusyForRunner' /\ OnlyRunnerRequests'
    BY <1>1 DEF TInv, BusyForRunner, OnlyRunnerRequests, RunnerRequest
<1>3. Decided' = Decided
    BY <1>1 DEF Decided
<1>4. DecidedOnFreeSlots'
    BY <1>1, <1>3 DEF TInv, DecidedOnFreeSlots, People
<1> QED
    BY <1>1, <1>2, <1>4 DEF TInv, People

LEMMA RemoveKeeps ==
    ASSUME TInv, ToolsAssumption, NEW u \in Uids, Remove(u)
    PROVE  TInv'
<1>1. /\ users' = [users EXCEPT ![u] = NoVal]
      /\ raced' = raced \ {u}
      /\ UNCHANGED <<busy, call, fate, loose, tool, step, cand>>
    BY DEF Remove
<1>2. BusyForRunner' /\ OnlyRunnerRequests'
    BY <1>1 DEF TInv, BusyForRunner, OnlyRunnerRequests, RunnerRequest
<1>3. Decided' = Decided
    BY <1>1 DEF Decided
<1>4. DecidedOnFreeSlots'
    BY <1>1, <1>3 DEF TInv, DecidedOnFreeSlots, People, ToolsAssumption
<1> QED
    BY <1>1, <1>2, <1>4 DEF TInv

----------------------------------------------------------------------------
(* The probes.                                                             *)

LEMMA ReaderKeeps ==
    ASSUME TInv,
           \/ \E connected, settings \in BOOLEAN : StartReader(connected, settings)
           \/ ReadUsers \/ ReadParts
           \/ \E closed \in BOOLEAN : EndReader(closed)
    PROVE  TInv'
<1>1. /\ UNCHANGED outcomeVars /\ UNCHANGED <<cand, raced>>
      /\ tool # "runner" /\ tool' # "runner"
    BY DEF StartReader, Enter, ReadUsers, ReadParts, EndReader, ReadOnly
<1> QED
    BY <1>1, OtherStep

\* The write probe empties slots or puts its own users into them.
LEMMA RawWriteKeeps ==
    ASSUME TInv, ToolsAssumption, NEW slots, NEW v \in {"user", "admin", NoVal},
           RawWrite(slots, v), tool = "probe", tool' = "probe",
           UNCHANGED <<busy, call, fate, loose, cand>>
    PROVE  TInv'
<1>1. PICK served \in SUBSET slots :
            /\ users' = [u \in Uids |-> IF u \in served THEN v ELSE users[u]]
            /\ raced' = raced \ served
    BY DEF RawWrite
<1>2. v \in Vals \cup {NoVal} /\ v \notin People
    BY DEF ToolsAssumption, People
<1>3. BusyForRunner' /\ OnlyRunnerRequests'
    BY DEF TInv, BusyForRunner, OnlyRunnerRequests, RunnerRequest
<1>4. Decided' = Decided
    BY DEF Decided
<1>5. DecidedOnFreeSlots'
    BY <1>1, <1>2, <1>4 DEF TInv, DecidedOnFreeSlots, People
<1> QED
    BY <1>1, <1>2, <1>3, <1>5 DEF TInv

LEMMA ProbeKeeps ==
    ASSUME TInv, ToolsAssumption,
           \/ StartProbe \/ Leftovers
           \/ WriteTest("user", "admin") \/ WriteTest("admin", "readback")
           \/ Verify \/ DeleteTests \/ Summary \/ Abort
    PROVE  TInv'
<1>1. CASE StartProbe
    BY <1>1, OtherStep DEF StartProbe, Enter
<1>2. CASE Verify \/ Summary \/ Abort
    <2>1. /\ UNCHANGED <<users, raced, busy, call, fate, loose, cand>>
          /\ tool # "runner" /\ tool' # "runner"
        BY <1>2 DEF Verify, Summary, Abort, ProbeAt, ProbeOnly
    <2>2. BusyForRunner' /\ OnlyRunnerRequests'
        BY <2>1 DEF TInv, BusyForRunner, OnlyRunnerRequests, RunnerRequest
    <2>3. Decided' \subseteq Decided
        BY <2>1 DEF Decided
    <2> QED
        BY <2>1, <2>2, <2>3, QuietStep DEF TInv
<1>3. CASE Leftovers
    <2>1. PICK reading \in Readings :
              RawWrite({u \in reading : \E t \in Tests : Badge(users[u]) = BadgeOf(t)}, NoVal)
        BY <1>3 DEF Leftovers
    <2>2. tool = "probe" /\ tool' = "probe" /\ UNCHANGED <<busy, call, fate, loose, cand>>
        BY <1>3 DEF Leftovers, ProbeAt, ProbeOnly
    <2> QED
        BY <2>1, <2>2, RawWriteKeeps
<1>4. CASE WriteTest("user", "admin") \/ WriteTest("admin", "readback")
    <2>1. PICK t \in Tests : RawWrite({SlotOf(t)}, t)
        BY <1>4 DEF WriteTest, Tests
    <2>2. tool = "probe" /\ tool' = "probe" /\ UNCHANGED <<busy, call, fate, loose, cand>>
        BY <1>4 DEF WriteTest, ProbeAt, ProbeOnly
    <2> QED
        BY <2>1, <2>2, RawWriteKeeps DEF Tests
<1>5. CASE DeleteTests
    <2>1. tool = "probe" /\ tool' = "probe" /\ UNCHANGED <<busy, call, fate, loose, cand>>
        BY <1>5 DEF DeleteTests, ProbeAt, ProbeOnly
    <2> QED
        BY <1>5, <2>1, RawWriteKeeps DEF DeleteTests
<1> QED
    BY <1>1, <1>2, <1>3, <1>4, <1>5

----------------------------------------------------------------------------
(* The invariant and what follows from it.                                 *)

LEMMA TInvInit ==
    ASSUME ToolsInit
    PROVE  TInv
BY DEF ToolsInit, OutcomeInit, TInv, BusyForRunner, OnlyRunnerRequests, DecidedOnFreeSlots,
       Decided

LEMMA TInvNext ==
    ASSUME TInv, ToolsAssumption, [ToolsNext]_vars
    PROVE  TInv'
<1>1. CASE UNCHANGED vars
    <2>1. UNCHANGED <<users, raced, busy, call, fate, loose, cand, tool, step>>
        BY <1>1 DEF vars, outcomeVars, toolVars
    <2>2. BusyForRunner' /\ OnlyRunnerRequests'
        BY <2>1 DEF TInv, BusyForRunner, OnlyRunnerRequests, RunnerRequest
    <2>3. Decided' \subseteq Decided
        BY <2>1 DEF Decided
    <2> QED
        BY <2>1, <2>2, <2>3, QuietStep DEF TInv
<1>2. CASE ToolsNext
    BY <1>2, StartRunnerKeeps, BaselineKeeps, FreshBaselineKeeps, WriteKeeps, LaterStagesKeep,
       CloseKeeps, MutatingKeeps, EnrolKeeps, RemoveKeeps, ReaderKeeps, ProbeKeeps
    DEF ToolsNext
<1> QED
    BY <1>1, <1>2

\* Only a request that is served makes a person give way to the runner's user.
LEMMA ReplacedWasRaced ==
    ASSUME TInv, ToolsAssumption, [ToolsNext]_vars
    PROVE  ReplacesOnlyRaced
<1> SUFFICES ASSUME NEW u \in Uids, users[u] \in People, users'[u] = "residue"
             PROVE  u \in raced
    BY DEF ReplacesOnlyRaced
<1>1. "residue" \notin People /\ "residue" # NoVal /\ users'[u] # users[u]
    BY DEF People, ToolsAssumption
<1>2. CASE Mutating
    <2>1. CASE Serve
        <3>1. RunnerRequest(call) /\ fate = "sent" /\ call.uid \in Decided
            BY <2>1 DEF Serve, TInv, OnlyRunnerRequests, Decided
        <3>2. users' = [users EXCEPT ![call.uid] = call.val]
            BY <2>1, <3>1 DEF Serve, Served, RunnerRequest
        <3>3. u = call.uid
            BY <3>2, <1>1 DEF TInv
        <3> QED
            BY <3>1, <3>3 DEF TInv, DecidedOnFreeSlots
    <2>2. CASE ServeLoose
        <3>1. PICK req \in loose : Served(req) \/ users' = users
            BY <2>2 DEF ServeLoose
        <3>2. RunnerRequest(req) /\ req.uid \in Decided
            BY DEF TInv, OnlyRunnerRequests, Decided
        <3>3. users' = [users EXCEPT ![req.uid] = req.val]
            BY <3>1, <3>2, <1>1 DEF Served, RunnerRequest
        <3>4. u = req.uid
            BY <3>3, <1>1 DEF TInv
        <3> QED
            BY <3>2, <3>4 DEF TInv, DecidedOnFreeSlots
    <2>3. CASE Send \/ Refuse \/ \E r \in Outcomes : Finish(r)
        BY <2>3, <1>1 DEF Send, Refuse, Finish
    <2> QED
        BY <1>2, <2>1, <2>2, <2>3 DEF Mutating
<1>3. CASE \E w \in Uids, p \in People : Enrol(w, p)
    BY <1>3, <1>1 DEF Enrol, TInv
<1>4. CASE \E w \in Uids : Remove(w)
    BY <1>4, <1>1 DEF Remove, TInv
<1>5. ASSUME NEW slots, NEW v \in {"user", "admin", NoVal}, RawWrite(slots, v)
      PROVE  FALSE
    BY <1>5, <1>1 DEF RawWrite
<1>6. CASE Leftovers \/ DeleteTests
    BY <1>6, <1>5 DEF Leftovers, DeleteTests
<1>7. CASE WriteTest("user", "admin") \/ WriteTest("admin", "readback")
    BY <1>7, <1>5 DEF WriteTest
<1>8. CASE UNCHANGED users
    BY <1>8, <1>1
<1>9. CASE \/ \E w \in Uids \cup {0} : StartRunner(w)
           \/ Baseline \/ FreshBaseline \/ Write \/ Returned \/ Readback
           \/ \E closed, stored \in BOOLEAN : Close(closed, stored)
    BY <1>9, <1>8 DEF StartRunner, Baseline, FreshBaseline, Write, Returned, Readback, Close,
                      Fails, Begin, outcomeVars
<1>10. CASE \/ \E connected, settings \in BOOLEAN : StartReader(connected, settings)
            \/ ReadUsers \/ ReadParts \/ \E closed \in BOOLEAN : EndReader(closed)
            \/ StartProbe \/ Verify \/ Summary \/ Abort
    BY <1>10, <1>8 DEF StartReader, ReadUsers, ReadParts, EndReader, ReadOnly, StartProbe, Verify,
                       Summary, Abort, outcomeVars
<1> QED
    BY <1>2, <1>3, <1>4, <1>6, <1>7, <1>8, <1>9, <1>10 DEF ToolsNext, vars, outcomeVars

\* The runner replaces nobody it could have known of (test_runner_wl10.py, _run_one).
THEOREM OnlyLatecomersAreReplaced == ToolsSpec => NobodySeenIsOverwritten
<1>1. ToolsInit => TInv
    BY TInvInit
<1>2. TInv /\ [ToolsNext]_vars => TInv'
    BY TInvNext, ToolsAssumption
<1>3. TInv /\ [ToolsNext]_vars => [ReplacesOnlyRaced]_vars
    BY ReplacedWasRaced, ToolsAssumption
<1>4. ReplacesOnlyRaced <=>
        \A u \in Uids : users[u] \in People /\ users'[u] = "residue" => u \in raced
    BY DEF ReplacesOnlyRaced
<1> QED
    BY <1>1, <1>2, <1>3, <1>4, PTL DEF ToolsSpec, NobodySeenIsOverwritten

----------------------------------------------------------------------------
(* What the runner's evidence and the read probe's report are worth.       *)

Evidence == [stage : EarlyStages \cup {"write", "readback", "disconnect"},
             outcome : {"success", "failure"}, kept : BOOLEAN]
Parts == {"operations", "users", "attendance", "templates", "stream", "user_templates"}
Report == [failed : SUBSET Parts, outcome : {"none", "ok", "error"}]

\* The stage is the runner's word for its request: it is past the early ones
\* before a mutation can begin, and back among them only where nothing was sent.
StageInv ==
    /\ evidence \in Evidence
    /\ evidence.stage \in EarlyStages => sent = 0
    /\ tool = "runner" /\ step = "connect" => evidence.stage \in EarlyStages
    /\ tool = "runner" /\ step \in {"write", "writing"} => evidence.stage \notin EarlyStages

\* Past the users, what the probe knows is what was there, or it noted a failure.
ReaderInv ==
    /\ report \in Report
    /\ tool = "reader" => report.outcome = "none"
    /\ tool = "reader" /\ step \in {"scan", "summary"} /\ "users" \notin report.failed =>
          known = census
    /\ report.outcome = "ok" => known = census

LEMMA RunnerKeepsStage ==
    ASSUME StageInv,
           \/ \E u \in Uids \cup {0} : StartRunner(u)
           \/ Baseline \/ FreshBaseline \/ Write \/ Returned \/ Readback
           \/ \E closed, stored \in BOOLEAN : Close(closed, stored)
    PROVE  StageInv'
<1>1. CASE \E u \in Uids \cup {0} : StartRunner(u)
    BY <1>1 DEF StageInv, StartRunner, Enter, NoEvidence, EarlyStages, Evidence
<1>2. CASE Baseline
    BY <1>2 DEF StageInv, Baseline, Fails, GoTo, Reach, RunnerOnly, EarlyStages, Evidence
<1>3. CASE FreshBaseline
    BY <1>3 DEF StageInv, FreshBaseline, Fails, GoTo, Reach, RunnerOnly, EarlyStages, Evidence
<1>4. CASE Write
    BY <1>4 DEF StageInv, Write, GoTo, RunnerOnly
<1>5. CASE Returned \/ Readback
    BY <1>5 DEF StageInv, Returned, Readback, Fails, GoTo, Reach, RunnerOnly, EarlyStages, Evidence
<1>6. ASSUME NEW closed \in BOOLEAN, NEW stored \in BOOLEAN, Close(closed, stored)
      PROVE  StageInv'
    <2> DEFINE said == IF closed THEN evidence
                       ELSE [evidence EXCEPT !.stage = "disconnect", !.outcome = "failure"]
    <2>1. /\ said \in Evidence
          /\ said.stage \in EarlyStages => sent = 0
        BY DEF StageInv, EarlyStages, Evidence
    <2>2. /\ evidence' = [said EXCEPT !.kept = cand # 0 /\ stored]
          /\ sent' = sent /\ tool' = "idle"
        BY <1>6 DEF Close
    <2>3. (cand # 0 /\ stored) \in BOOLEAN
        OBVIOUS
    <2> HIDE DEF said
    <2> QED
        BY <2>1, <2>2, <2>3 DEF StageInv, Evidence
<1> QED
    BY <1>1, <1>2, <1>3, <1>4, <1>5, <1>6

\* Only a mutation under way sends, and it runs past the early stages.
LEMMA MutatingKeepsStage ==
    ASSUME StageInv, TInv, Mutating
    PROVE  StageInv'
<1>1. /\ sent' = IF fate = "unsent" /\ fate' = "sent" THEN sent + 1 ELSE sent
      /\ UNCHANGED <<tool, step, evidence>>
    BY DEF Mutating
<1>2. fate = "unsent" /\ fate' = "sent" => busy
    BY DEF Mutating, Send, Serve, Refuse, ServeLoose, Finish
<1>3. busy => evidence.stage \notin EarlyStages
    BY DEF TInv, BusyForRunner, StageInv
<1> QED
    BY <1>1, <1>2, <1>3 DEF StageInv

LEMMA StageInvNext ==
    ASSUME StageInv, TInv, [ToolsNext]_vars
    PROVE  StageInv'
<1>1. CASE UNCHANGED <<evidence, sent, tool, step>>
    BY <1>1 DEF StageInv
<1>2. CASE UNCHANGED <<evidence, sent>> /\ tool' # "runner"
    BY <1>2 DEF StageInv
<1>3. CASE (\E u \in Uids, p \in People : Enrol(u, p)) \/ \E u \in Uids : Remove(u)
    BY <1>1, <1>3 DEF Enrol, Remove
<1>4. CASE \/ \E connected, settings \in BOOLEAN : StartReader(connected, settings)
           \/ ReadUsers \/ ReadParts \/ \E closed \in BOOLEAN : EndReader(closed)
    BY <1>2, <1>4 DEF StartReader, Enter, ReadUsers, ReadParts, EndReader, ReadOnly
<1>5. CASE \/ StartProbe \/ Leftovers
           \/ WriteTest("user", "admin") \/ WriteTest("admin", "readback")
           \/ Verify \/ DeleteTests \/ Summary \/ Abort
    BY <1>2, <1>5 DEF StartProbe, Enter, Leftovers, WriteTest, Verify, DeleteTests, Summary, Abort,
                      ProbeAt, ProbeOnly
<1> QED
    BY <1>1, <1>3, <1>4, <1>5, RunnerKeepsStage, MutatingKeepsStage DEF ToolsNext, vars, toolVars

\* Evidence that names an early stage proves that the slot was not touched, so
\* its operator may run the runner again (test_runner_wl10.py, _run_one, main).
THEOREM EarlyEvidenceIsSafe == ToolsSpec => []EarlyStageMeansUntouched
<1>1. ToolsInit => TInv /\ StageInv
    BY TInvInit DEF ToolsInit, StageInv, NoEvidence, EarlyStages, Evidence
<1>2. TInv /\ StageInv /\ [ToolsNext]_vars => TInv' /\ StageInv'
    BY TInvNext, StageInvNext, ToolsAssumption
<1>3. StageInv => EarlyStageMeansUntouched
    BY DEF StageInv, EarlyStageMeansUntouched
<1> QED
    BY <1>1, <1>2, <1>3, PTL DEF ToolsSpec

LEMMA ReaderInvNext ==
    ASSUME ReaderInv, [ToolsNext]_vars
    PROVE  ReaderInv'
<1>1. CASE UNCHANGED <<report, known, census, tool, step>>
    BY <1>1 DEF ReaderInv, Report, Parts
<1>2. CASE UNCHANGED <<report, known, census>> /\ tool' # "reader"
    BY <1>2 DEF ReaderInv, Report, Parts
<1>3. CASE \/ \E u \in Uids \cup {0} : StartRunner(u)
           \/ Baseline \/ FreshBaseline \/ Write \/ Returned \/ Readback
           \/ \E closed, stored \in BOOLEAN : Close(closed, stored)
    BY <1>2, <1>3 DEF StartRunner, Enter, Baseline, FreshBaseline, Write, Returned, Readback,
                      Close, Fails, RunnerOnly
<1>4. CASE Mutating \/ (\E u \in Uids, p \in People : Enrol(u, p)) \/ \E u \in Uids : Remove(u)
    BY <1>1, <1>4 DEF Mutating, Enrol, Remove
<1>5. CASE \E connected, settings \in BOOLEAN : StartReader(connected, settings)
    BY <1>5 DEF StartReader, Enter, ReaderInv, Report, Parts
<1>6. CASE ReadUsers
    BY <1>6 DEF ReadUsers, ReaderInv, Report, Parts
<1>7. CASE ReadParts
    BY <1>7 DEF ReadParts, ReaderInv, Report, Parts
<1>8. CASE \E closed \in BOOLEAN : EndReader(closed)
    BY <1>8 DEF EndReader, Succeeds, ReaderInv, Report, Parts
<1>9. CASE \/ StartProbe \/ Leftovers
           \/ WriteTest("user", "admin") \/ WriteTest("admin", "readback")
           \/ Verify \/ DeleteTests \/ Summary \/ Abort
    BY <1>2, <1>9 DEF StartProbe, Enter, Leftovers, WriteTest, Verify, DeleteTests, Summary, Abort,
                      ProbeAt, ProbeOnly
<1> QED
    BY <1>1, <1>3, <1>4, <1>5, <1>6, <1>7, <1>8, <1>9 DEF ToolsNext, vars, toolVars

\* A probe that ends well has scanned everybody who was there when it asked for
\* the users, though each part runs whether or not the one before it worked
\* (wl10_probe_read.py, main).
THEOREM GoodReportIsComplete == ToolsSpec => []OkMeansEverybody
<1>1. ToolsInit => ReaderInv
    BY DEF ToolsInit, ReaderInv, Report, Parts
<1>2. ReaderInv /\ [ToolsNext]_vars => ReaderInv'
    BY ReaderInvNext
<1>3. ReaderInv => OkMeansEverybody
    BY DEF ReaderInv, OkMeansEverybody
<1> QED
    BY <1>1, <1>2, <1>3, PTL DEF ToolsSpec
=============================================================================
