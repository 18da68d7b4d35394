------------------------------ MODULE WL10Tools ------------------------------
(***************************************************************************)
(* The programs that use the library against a live terminal: the write   *)
(* runner (test_runner_wl10.py), the read probe (wl10_probe_read.py) and   *)
(* the write probe (wl10_probe_write.py).  They run one at a time, while   *)
(* people come and go at the keypad.  The runner's write is a mutation of  *)
(* WL10Outcome; a read returns the slots as they are, or fails.            *)
(***************************************************************************)
EXTENDS WL10Outcome

CONSTANTS
    UserSlot, AdminSlot,   \* the fixed slots of the write probe, 1000 and 1001
    MaxRuns,               \* programs started
    MaxChanges             \* people enrolled or removed at the keypad

ASSUME ToolsAssumption ==
    /\ {UserSlot, AdminSlot} \subseteq Uids /\ UserSlot # AdminSlot
    /\ {"residue", "user", "admin"} \subseteq Vals /\ NoVal \notin Vals
    /\ MaxRuns \in Nat /\ MaxChanges \in Nat

VARIABLES
    tool,      \* the program that runs
    step,      \* where it is
    cand,      \* the slot the runner was asked to write, 0 in its read-only mode
    evidence,  \* what the runner reports: its stage, its outcome, kept in the file or not
    known,     \* users the read probe read, whose templates it scans
    report,    \* the outcome of the read probe, and the parts that failed
    verdict,   \* what the write probe has found written, and whether it claims success
    runs, changes,
    sent,      \* HISTORY: requests of this run
    raced,     \* HISTORY: people enrolled when a write to their slot was already decided
    census     \* HISTORY: the people there when the read probe asked for its users

toolVars == <<tool, step, cand, evidence, known, report, verdict, runs, changes,
              sent, raced, census>>
vars == <<outcomeVars, toolVars>>

People == Vals \ {"residue", "user", "admin"}
Held == {u \in Uids : users[u] # NoVal}

\* The runner's user and the probe's regular user may carry the same badge, 999950.
Carries999950 == {"residue", "user"}
Badge(v) == IF v \in Carries999950 THEN "999950" ELSE v

EarlyStages == {"connect", "fresh-baseline", "read-only"}
NoEvidence == [stage |-> "connect", outcome |-> "failure", kept |-> FALSE]

----------------------------------------------------------------------------
(* The write runner.                                                       *)

Enter(t, s) ==
    /\ tool = "idle" /\ runs < MaxRuns
    /\ tool' = t /\ step' = s /\ runs' = runs + 1

StartRunner(u) ==
    /\ Enter("runner", "connect")
    /\ cand' = u /\ sent' = 0
    /\ evidence' = NoEvidence
    /\ UNCHANGED <<outcomeVars, known, report, verdict, changes, raced, census>>

GoTo(s) == step' = s
RunnerOnly == UNCHANGED <<tool, cand, known, report, verdict, runs, changes, sent, raced, census>>

\* An exception: whatever the stage, the runner closes and reports failure.
Fails == GoTo("close") /\ UNCHANGED <<evidence, outcomeVars>> /\ RunnerOnly

BadgeTaken == \E w \in Held : Badge(users[w]) = "999950"
OccupiedByBadge(u) == u \in tpl \/ BadgeTaken
Occupied(u) == u \in Held \cup tpl \/ BadgeTaken

\* The stage is noted before it begins.
ReachLate(stage) ==
    GoTo(stage) /\ evidence' = IF stage = "write" THEN evidence ELSE [evidence EXCEPT !.stage = stage]
Reach(stage) == GoTo(stage) /\ evidence' = [evidence EXCEPT !.stage = stage]

\* The baseline, and the second one right before the write.
Baseline ==
    /\ tool = "runner" /\ step = "connect"
    /\ \/ Fails
       \/ /\ cand # 0 /\ ~Occupied(cand)
          /\ Reach("fresh-baseline") /\ UNCHANGED outcomeVars /\ RunnerOnly
       \/ /\ cand = 0 /\ \E u \in Uids : ~Occupied(u)
          /\ GoTo("close")
          /\ evidence' = [evidence EXCEPT !.stage = "read-only", !.outcome = "success"]
          /\ UNCHANGED outcomeVars /\ RunnerOnly

FreshBaseline ==
    /\ tool = "runner" /\ step = "fresh-baseline"
    /\ \/ Fails
       \/ /\ ~Occupied(cand)
          /\ Reach("write") /\ UNCHANGED outcomeVars /\ RunnerOnly

\* wl10_set_user, once.
Write ==
    /\ tool = "runner" /\ step = "write"
    /\ Begin([cmd |-> "set", uid |-> cand, val |-> "residue"], FALSE)
    /\ GoTo("writing") /\ UNCHANGED evidence /\ RunnerOnly

Returned ==
    /\ tool = "runner" /\ step = "writing" /\ ~busy
    /\ \/ result # "true" /\ Fails
       \/ result = "true" /\ Reach("readback") /\ UNCHANGED outcomeVars /\ RunnerOnly

Readback ==
    /\ tool = "runner" /\ step = "readback"
    /\ \/ Fails
       \/ /\ users[cand] = "residue"
          /\ GoTo("close")
          /\ evidence' = [evidence EXCEPT !.outcome = "success"]
          /\ UNCHANGED outcomeVars /\ RunnerOnly

\* The connection is closed and the evidence file, which must not exist, written.
Close(closed, stored) ==
    /\ tool = "runner" /\ step = "close"
    /\ tool' = "idle" /\ GoTo("ended")
    /\ LET said == IF closed THEN evidence
                   ELSE [evidence EXCEPT !.stage = "disconnect", !.outcome = "failure"]
       IN  evidence' = [said EXCEPT !.kept = cand # 0 /\ stored]
    /\ UNCHANGED <<outcomeVars, cand, known, report, verdict, runs, changes, sent, raced, census>>

\* The mutation under way, and requests of earlier runs still in the network.
Mutating ==
    /\ Send \/ Serve \/ Refuse \/ ServeLoose \/ \E r \in Outcomes : Finish(r)
    /\ sent' = IF fate = "unsent" /\ fate' = "sent" THEN sent + 1 ELSE sent
    /\ raced' = {u \in raced : users'[u] = users[u]}
    /\ UNCHANGED <<tool, step, cand, evidence, known, report, verdict, runs, changes, census>>

----------------------------------------------------------------------------
(* The keypad.                                                             *)

\* Slots that some write is already bound for.
Decided ==
    {r.uid : r \in loose} \cup (IF fate = "sent" THEN {call.uid} ELSE {})
        \cup (IF tool = "runner" /\ step \in {"write", "writing"} THEN {cand} ELSE {})

Enrol(u, p) ==
    /\ changes < MaxChanges
    /\ users[u] = NoVal /\ u \notin tpl /\ \A w \in Uids : users[w] # p
    /\ users' = [users EXCEPT ![u] = p]
    /\ changes' = changes + 1
    /\ raced' = IF u \in Decided THEN raced \cup {u} ELSE raced
    /\ UNCHANGED <<tpl, busy, call, fate, loose, result>>
    /\ UNCHANGED <<tool, step, cand, evidence, known, report, verdict, runs, sent, census>>

Remove(u) ==
    /\ changes < MaxChanges
    /\ users[u] # NoVal
    /\ users' = [users EXCEPT ![u] = NoVal]
    /\ changes' = changes + 1
    /\ raced' = raced \ {u}
    /\ UNCHANGED <<tpl, busy, call, fate, loose, result>>
    /\ UNCHANGED <<tool, step, cand, evidence, known, report, verdict, runs, sent, census>>

----------------------------------------------------------------------------
(* The read probe.  A failed part is written down and the next one tried.  *)

ReadOnly == UNCHANGED <<outcomeVars, cand, evidence, verdict, changes, sent, raced>>

\* The connection, without which nothing is read, and the device's settings.
StartReader(connected, settings) ==
    /\ Enter("reader", IF connected THEN "users" ELSE "summary")
    /\ known' = {} /\ census' = {}
    /\ report' = [failed |-> IF connected /\ settings THEN {} ELSE {"operations"},
                  outcome |-> "none"]
    /\ ReadOnly

ReadUsers ==
    /\ tool = "reader" /\ step = "users"
    /\ step' = "scan"
    /\ census' = Held
    /\ \/ known' = Held /\ UNCHANGED report
       \/ UNCHANGED known /\ report' = [report EXCEPT !.failed = @ \cup {"users"}]
    /\ UNCHANGED <<tool, runs>> /\ ReadOnly

\* Attendance, the templates of each known user, the template table, the stream.
\* With no known user there is nothing to scan, and the scan succeeds.
ReadParts ==
    /\ tool = "reader" /\ step = "scan"
    /\ step' = "summary"
    /\ \E parts \in SUBSET ({"attendance", "templates", "stream"} \cup
                            (IF known = {} THEN {} ELSE {"user_templates"})) :
          report' = [report EXCEPT !.failed = @ \cup parts]
    /\ UNCHANGED <<tool, runs, known, census>> /\ ReadOnly

SucceedsForgetful(failed) == failed \ {"users"} = {}
Succeeds(failed) == failed = {}

EndReader(closed) ==
    /\ tool = "reader" /\ step = "summary"
    /\ tool' = "idle" /\ step' = "ended"
    /\ report' = [report EXCEPT !.outcome = IF Succeeds(report.failed) /\ closed THEN "ok" ELSE "error"]
    /\ UNCHANGED <<runs, known, census>> /\ ReadOnly

----------------------------------------------------------------------------
(* The write probe.  It sends its own frames, past the library's checks,   *)
(* and takes a table that does not come for an empty one.                  *)

Tests == {"user", "admin"}
SlotOf(t) == IF t = "user" THEN UserSlot ELSE AdminSlot
ProbeOnly == UNCHANGED <<busy, call, fate, loose, result, cand, evidence, known, report, runs,
                         changes, sent, census>>
ProbeAt(s, next) == tool = "probe" /\ step = s /\ step' = next /\ tool' = tool

StartProbe ==
    /\ Enter("probe", "baseline")
    /\ verdict' = [written |-> {}, passed |-> FALSE]
    /\ UNCHANGED <<outcomeVars, cand, evidence, known, report, changes, sent, raced, census>>

\* The slots a read shows: all that are held, or none when no table comes.
Readings == {Held, {}}
Shows(reading, badge) == \E u \in reading : Badge(users[u]) = badge
BadgeOf(t) == Badge(t)

\* Frames that set or empty slots, of which any may be lost or refused.
RawWrite(slots, v) ==
    \E served \in SUBSET slots :
        /\ users' = [u \in Uids |-> IF u \in served THEN v ELSE users[u]]
        /\ tpl' = tpl \ served
        /\ raced' = raced \ served

\* Users of an earlier run are deleted, as the badge tells.
Leftovers ==
    /\ ProbeAt("baseline", "user")
    /\ \E reading \in Readings :
          RawWrite({u \in reading : \E t \in Tests : Badge(users[u]) = BadgeOf(t)}, NoVal)
    /\ UNCHANGED verdict /\ ProbeOnly

WriteTest(t, next) ==
    /\ ProbeAt(t, next)
    /\ RawWrite({SlotOf(t)}, t)
    /\ UNCHANGED verdict /\ ProbeOnly

Verify ==
    /\ ProbeAt("readback", "delete")
    /\ \E reading \in Readings :
          verdict' = [verdict EXCEPT !.written = {t \in Tests : Shows(reading, BadgeOf(t))}]
    /\ UNCHANGED <<users, tpl, raced>> /\ ProbeOnly

DeleteTests ==
    /\ ProbeAt("delete", "final")
    /\ RawWrite({UserSlot, AdminSlot}, NoVal)
    /\ UNCHANGED verdict /\ ProbeOnly

Summary ==
    /\ tool = "probe" /\ step = "final"
    /\ tool' = "idle" /\ step' = "ended"
    /\ \E reading \in Readings :
          verdict' = [verdict EXCEPT !.passed =
              verdict.written = Tests /\ \A t \in Tests : ~Shows(reading, BadgeOf(t))]
    /\ UNCHANGED <<users, tpl, raced>> /\ ProbeOnly

\* A refresh without its acknowledgement, or a broken connection, ends the probe
\* with an exception.
Abort ==
    /\ tool = "probe"
    /\ tool' = "idle" /\ step' = "ended"
    /\ UNCHANGED <<users, tpl, verdict, raced>> /\ ProbeOnly

----------------------------------------------------------------------------
ToolsInit ==
    /\ OutcomeInit
    /\ \A u \in Uids : users[u] \in People \cup {NoVal}
    /\ \A u, w \in Held : users[u] = users[w] => u = w
    /\ tpl \cap Held = {}
    /\ tool = "idle" /\ step = "ended"
    /\ cand = 0 /\ evidence = NoEvidence
    /\ known = {} /\ report = [failed |-> {}, outcome |-> "none"]
    /\ verdict = [written |-> {}, passed |-> FALSE]
    /\ runs = 0 /\ changes = 0 /\ sent = 0 /\ raced = {} /\ census = {}

ToolsNext ==
    \/ \E u \in Uids \cup {0} : StartRunner(u)
    \/ Baseline \/ FreshBaseline \/ Write \/ Returned \/ Readback
    \/ \E closed, stored \in BOOLEAN : Close(closed, stored)
    \/ Mutating
    \/ \E u \in Uids, p \in People : Enrol(u, p)
    \/ \E u \in Uids : Remove(u)
    \/ \E connected, settings \in BOOLEAN : StartReader(connected, settings)
    \/ ReadUsers \/ ReadParts \/ \E closed \in BOOLEAN : EndReader(closed)
    \/ StartProbe \/ Leftovers \/ WriteTest("user", "admin") \/ WriteTest("admin", "readback")
    \/ Verify \/ DeleteTests \/ Summary \/ Abort

ToolsSpec == ToolsInit /\ [][ToolsNext]_vars

----------------------------------------------------------------------------
(* Properties.                                                             *)

\* The runner replaces nobody it could have known of: whoever loses a slot to its
\* user came to the slot after the write was decided, in this run or in an
\* earlier one that gave up on its answer (_run_one, main).
NobodySeenIsOverwritten ==
    [][\A u \in Uids : users[u] \in People /\ users'[u] = "residue" => u \in raced]_vars

\* A run whose evidence names a stage before the write has sent no request, so
\* its operator may run it again as if it had not been; any other stage is a
\* warning that the slot may have been written (_run_one).
EarlyStageMeansUntouched ==
    tool = "idle" /\ evidence.kept /\ evidence.stage \in EarlyStages => sent = 0

\* A read probe that ends well has scanned the templates of everybody who was
\* there, though each part runs whether or not the one before it worked (main).
OkMeansEverybody == report.outcome = "ok" => known = census

----------------------------------------------------------------------------
(* What the tools do not guarantee; TLC refutes each of these.             *)

\* Step 7 of the write probe "reads back and verifies deletion": a table that
\* does not come reads as one without the test users (parse_users, main).
PassMeansGone == verdict.passed => \A u \in Uids : users[u] \notin Tests

\* The write probe harms nobody: its slots are not looked at before they are
\* written and deleted.
ProbeHarmsNobody ==
    [][tool = "probe" => \A u \in Uids : users[u] \in People => users'[u] # NoVal]_vars

\* A success is due to the run that reports it: the slot may hold what the late
\* request of an earlier run with the same slot and badge wrote.
SuccessIsOwn ==
    tool = "idle" /\ cand # 0 /\ evidence.outcome = "success" => sent = 1

\* A failed runner may be run again with another slot and the same badge: the
\* first request may still be served, and the badge is then held twice.
BadgeHeldOnce ==
    \A u, w \in Held : users[u] = "residue" /\ users[w] = "residue" => u = w
=============================================================================
