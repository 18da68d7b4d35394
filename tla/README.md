# A verification model of pyzk-wl10

`pyzk_wl10` is a Python client for ZKTeco attendance terminals, with a raw
protocol path of its own for the WL10 / AK3750 family: it reads users,
attendance and fingerprint templates over TCP, and writes or deletes single
users.  Around it are the older pyzk calls for other terminals, which the WL10
path falls back to, and three programs that run the library against a live
terminal.  These modules model all of that in TLA+, check it with TLC on small
instances, and prove the facts that matter most with TLAPS for all instances.

Line numbers below are those of `src/pyzk_wl10/zk/base.py` unless another file
is named.

## 1. The system

The client is one `ZK` object with one socket and no threads of its own (only
`end_live_capture` is meant to be set from elsewhere).  A call is a
sequence of blocking sends and receives, each of which may end with data, with
silence (a timeout) or with an exception.  What makes it hard lies on the other
side of the socket:

- answers come late, after the client has stopped waiting for them, and there
  is nothing in the client that tells a late answer from a fresh one: reply ids
  are copied into the next request (lines 204-206, 961, 2179) and never compared;
- TCP cuts and joins frames anywhere, and the client's receive calls take a
  fixed or a maximal number of bytes wherever the stream happens to be;
- the connection dies in the middle of a call, or of a restart;
- on some VPN paths full-size segments never arrive (PMTUD blackhole), so a
  connection can be up, answer every short command and lose every table;
- the terminal's memory mixes people with fingerprint template slots and
  nameless sidecar slots, under uids that look alike, and someone may enrol a
  fingerprint at its keypad at any time;
- during a capture or an enrolment the terminal sends events on the same
  connection as replies, and one receive may bring several of them;
- the terminal has one bulk buffer: while a table is announced and not released
  it answers no template read, and this looks like "no template".

### Inventory

| Component | State it keeps | Operations | What makes it correct | Model |
|---|---|---|---|---|
| Terminal and connection (external) | user, template and sidecar slots; requests, pieces in flight and received; path and MSS | serve, restart, refuse, answer nothing, enrol; deliver, break | it is the environment | `WL10Link` |
| Raw table reads (845-1245, 2018-2039) | `_wl10_last_ack`, `tcp_maxseg`, `__timeout`, socket timeout, `is_connect`, last tables | `wl10_get_users`, `wl10_get_attendance`: raw command with 3 sends, drain, completeness gate, `free_data` between attempts, MSS recovery | a table returned is complete, of the right kind, taken during the call; nothing is left on the wire; one adversity is survived; recovery only when needed; every call returns | `WL10Read` |
| Guarded mutations (2049-2289) | the preflight table, the stage of the call | `wl10_set_user`, `wl10_delete_user`, `wl10_reboot`: preflight, refresh, one request, acknowledgement, verification | at most one request; never into a template slot; what the caller is told is what the terminal shows | `WL10Mutate` |
| Fingerprint templates (1292-1803, 2041-2047) | `_wl10_stream_safe`, the terminal's announced buffer | `wl10_scan_user_templates`, `wl10_user_fingerprints`, `wl10_get_templates`: command 88 per finger, announced table in chunks, release | a template is reported for its own user and finger; a report is true or refused; the buffer is released; a table is of one fetch | `WL10Templates` |
| Record parsing (1279-1290, 1821-2014) | `_wl10_template_uids`, `_wl10_sidecar_uids`, the users map, seen punches | `_wl10_parse_users`, `_wl10_build_users_map`, `_wl10_parse_attendance` | no person or punch is lost or doubled; every slot is accounted for; a punch is shown for its owner | `WL10Records` |
| Connection lifecycle (171-193, 349-418, 845-875) | session and reply id, `is_connect`, `wl10`, platform | `connect` with three attempts on a WL10, authentication, platform and name queries, `disconnect`, `_wl10_reconnect` | a connected object is in step with the terminal | one action each in `WL10Read` and `WL10Templates` |
| Framing (778-843, 1060-1133) | none | payload extraction, acknowledgement scan, header stripping, the gate | no payload is invented or lost | on sequences of frames in `WL10Read`, `WL10Templates` |
| Standard reads (601-660, 2457-2542, 2752-3046) | `wl10` while falling back, counts of `read_sizes`, chunk position and attempt | `read_sizes`, `read_with_buffer` and its chunks, native `get_users`, `get_templates`, `get_attendance` | a table is whole and of one moment; the mode is restored; the buffer is released; loops end | `ZKNative` |
| Standard writes (681-721, 2293-2430) | `next_uid`, `next_user_id` | `set_user`, `delete_user`, `restart`, `poweroff` | a write without uid takes a free slot | `ZKUsers` |
| Enrolment, live capture (418-432, 2544-2740) | registered events, `is_enabled`, socket timeout, `end_live_capture`, the receive being parsed | `enroll_user`, `live_capture` and the commands around their loops | events neither lost nor taken for replies; what was changed is put back; an enrolment reported is one | `ZKLive` |
| Write runner (`test_runner_wl10.py`) | stage and outcome of its evidence | two baselines, one `wl10_set_user`, readback, evidence file | nobody it could have seen loses a slot; the evidence tells whether a write may have happened | `WL10Tools` |
| Read probe (`wl10_probe_read.py`) | users found, failed parts | each read in turn, failures collected | a good outcome means everything was read | `WL10Tools` |
| Write probe (`wl10_probe_write.py`) | what it found written | two writes to fixed slots, readback, two deletes | it says what it did | `WL10Tools` |
| Device information, settings, UDP, command line tools | `is_enabled` | one request, one reply; printing | little | not modelled, but `read_sizes` (`ZKNative`) and enabling (`ZKLive`) |

How they interact: everything sits on one socket and shares `toCli`, the bytes
that wait in it.  The mutations call the table reads (preflight and
verification), the attendance read calls the user read first, the reads call
`free_data` and the reconnection, the parsers run on accepted tables, and the
template reads share only the socket, `is_connect` and their own safety flag
with the rest.  The hazards listed in `PROJECT.json` are mostly at these seams:
what one exchange leaves in the socket is what the next one reads first.

## 2. The modules

    WL10Link  <-  WL10Read  <-  WL10Mutate  <-  WL10MutateProofs
                     ^              ^
                  MCWL10Read    WL10MutateRefines  <-  MCWL10Mutate
                                    :
                                    :  implements
                                    v
                                WL10Outcome  <-  WL10Tools  <-  WL10ToolsProofs

    WL10MutateRefines, WL10MutateProofs  <-  WL10TimelyProofs

    WL10Templates  <-  WL10TemplatesProofs, MCWL10Templates
    WL10Records    <-  WL10RecordsProofs, MCWL10Records
    ZKNative       <-  ZKNativeProofs, MCZKNative
    ZKUsers        <-  ZKUsersProofs
    ZKLive         <-  ZKLiveProofs, MCZKLive

`A <- B` means that B extends A.  Definitions commented `Fault:` are wrong
variants of the definition that follows them; no specification uses them, they
serve to show that each property can fail.

**WL10Link** is the terminal and the network.  The stream towards the client is
a sequence of pieces, cut where the client's receive calls can cut it: whole
acknowledgements, whole `CMD_PREPARE_DATA` frames, the head and the body of a
`CMD_DATA` frame, and the 8-byte halves that a misaligned `recv(16)` leaves
behind.  `Timely` chooses between two networks: with `TRUE` no wait times out
while its answer is on the way; with `FALSE` any wait may.  A narrow path
(`path`) holds back full-size segments until the socket has the small MSS.

**WL10Read** has one action per socket call.  `RawSend`, `DrainRecv` and
`DrainQuiet` are the loop of `_wl10_read_raw_command`; `BulkDone` is the end of
one bulk read with the gate (`Complete`) and what follows it: the next attempt,
the recovery, or giving up.  `FreeSend`..`FreeQuiet` are `free_data` through
`__send_command`, which takes 16 bytes wherever the stream is (`AfterRecv16`).
`Reconnect` is `_wl10_reconnect` inside a recovery cycle.  The accepted tables
are snapshots of the terminal's memory, with a ghost counter `gen` that orders
them.

**WL10Mutate** adds the calls that change the terminal.  Its preflight and
verification *are* the reads of WL10Read, with `stage` to tell them apart; the
acknowledgement (`AckRecv`, `AckQuiet`) is what `_wl10_read_ack` makes of
whatever comes first.  The ghost `fate` follows the current call's request.

**WL10Outcome** is what a mutation promises, with no network in it: a call begins, sends
at most one request, which is served, refused or lost, perhaps after the call has ended,
and finishes with a result that `Truthful` allows: True only if the slot shows what was
asked for, a rejection only if the terminal refused, an early error only if nothing was
sent, and "outcome unknown" always. What a slot "shows" is what the readback of lines
2197-2199 compares: badge, name, privilege and card. `Twins` groups the values that
agree in these and differ in password, group or verify mode; `Alike` is that comparison.
If the request was served, True means the whole value. **WL10MutateRefines** maps
WL10Mutate to it: the slots are the terminal's, a call is busy until `pc` is idle again,
`fate` is the ghost of that name, and `loose` are the requests of earlier calls that are
still in the network. Reads, retries, recoveries and reconnections map to stutters.

**WL10Tools** puts the three programs on the terminal of WL10Outcome, one at a
time, with people who enrol and leave.  The runner's write is a call of
WL10Outcome, so a request that outlives the run that sent it is in the model.
The write probe has a protocol stack of its own, without checks, and its frames
act on the slots directly.

**ZKNative** has one action per answer.  `Start` is the call, with the mode
switch of `get_attendance`; `SizesRead`, `TableRead`, `NextChunk`, `ChunkMissed`
are what follows an answer in the function that waits for it.  Tables are
sequences of record numbers, so a gap, an overlap or a mixture shows.  The raw
receive loop is a state of its own (`rest`, `chunkRest`), in which the end of
the stream makes no progress.

**ZKUsers** has one step per call: it is about the two counters that outlive
calls.  `Sync` is what both `get_users` leave.

**ZKLive** has one action per receive and one per resumption of the generator.
Packets have sizes, because the capture loop splits a receive by the number of
bytes left; `StartOf`, `Take` and `Hits` are that arithmetic.  A stream whose
first header was taken for a reply is `skew`.

**WL10Templates** is a second client of the same kind of link, with an alphabet of its
own: command 88 is answered by a `CMD_DATA` frame or, on other firmware, pushed as an
announcement and a body. `StartScan` is given the users or reads them first (1654-1655),
over the same connection; `GetUsers` is that read as a call of its own. Both are one
step here (`TableComes`, `TableFails`; WL10Read has the steps), with what it may leave
behind when answers are late: the acknowledgement that follows the table, and requests
it gave up on. `Reconnect` is `connect()` with the two queries whose timeouts it
swallows (388-395). `owed` is a history variable: the scan found the flag set and a line
with answers still to come. `Await` takes the first frame and drops the rest, as
`recv(65536)` with one parse does. `ChunkRecv` and `Leftovers` are the bounded receive
of the chunk loop.

**WL10Records** runs the parsers over arbitrary tables, one record per step.

## 3. The runs

| Run | Instance | Question |
|---|---|---|
| `read_timely` | 3 sends, 3 attempts, 3 cycles (as in the code), 2 calls, 2 faults, 1 enrolment, clear and narrow path | is a read clean, fresh and resilient when answers are in time |
| `read_slow` | 2/2/2, 1 call, any wait may time out, fair | do late answers confuse the gate, is the clamp undone, does every call return |
| `mutate_timely` | 2/2/2, 2 calls, 2 faults, both paths, fair | is the caller told what the terminal shows; at most one write; no template slot taken; is WL10Outcome implemented |
| `templates_timely` | 2 users and a reserved slot, 2 fingers, 2 chunks, 2 calls, 2 faults, fair | do scans begin clean; are reports true, scans complete, buffers released, tables current |
| `templates_slow` | 2 users, 2 chunks, 3 calls, any wait may time out | does the safety flag keep a scan's late answers out of its later exchanges, is a table of one fetch |
| `records` | all user tables of at most 3 records; all pairs of at most 2 named users and 2 punches | is anything lost, doubled or shown for the wrong person |
| `native` | tables of up to 3 records in chunks of 2, 2 attempts per chunk, 2 calls, 2 faults, 1 record that is added meanwhile, either mode, fair | are tables whole, is the mode restored, does every call return |
| `users` | 4 slots, 3 badges, 6 calls, either mode | is the automatic slot free |
| `live` | each event size, 3 punches, 2 calls, 1 fault, fair | is everything put back, is every event accounted for, are enrolments true |
| `tools` | 3 slots, 2 runs of any of the tools, 1 change at the keypad | who is overwritten, what do evidence and reports say |
| `late_ack`, `mode_lost` | smallest instance that shows it | section 6 |

Bounds and why they suffice. Two slots are enough because every decision is about one
slot against the rest: slot 1 has a user, slot 2 is free or a template. Two values tell
a kept slot from an overwritten one; they are twins, so that a lost change of the fields
not compared is among the cases (a different value is the empty slot). Two calls let
what the first leaves behind meet the second, three do it with a reconnection in
between. Two faults cover a fault during the recovery from the first;
`ReadsSurviveOneFault` and `BufferReleased` speak about one. The slow runs need no
faults: an early timeout is the fault. Retry counts are those of the code where the
state space allows it and 2 elsewhere, which still has a first, a later and a last try.
Two chunks have an order, a last chunk and a short one, and two fingers and two users
have every kind of neighbour. User tables of three records hold two of a uid with
something between them. A table of three records in chunks of two has a full chunk and a
short one, one of two has a full one only, and each answer may come in two pieces. Six
calls on four slots reach every relation between a written slot and `next_uid`. Three
punches fill a receive with up to three events; a second capture meets what the first
left. Two runs of the tools are one and its repetition. Calls end when `MaxCalls` is
reached, so the runs do not check for deadlock; that no call hangs is checked as
liveness instead.

`MaxLate` bounds the requests that one users read gives up on and leaves behind; one is
enough to put a line out of step. In `live` a fault strikes the first call and ends the
run (`MCZKLive`): after it the object is to be reconnected. `native` starts from one
user and empty or two-chunk tables (`MCZKNative`). In `native`, `live` and
`mutate_timely` a state without successor is one whose bounds are used up.

### Fairness

Weak fairness of the client's steps (it is a running program that is not
suspended for ever, and each wait ends by data or by its timeout), of the
terminal's serving and of TCP's delivery on a connection that is up.  None for
faults, enrolments, restarts of the connection or new calls.  Liveness does
not depend on answers: `DrainQuiet`, `AwaitQuiet` and their like become
possible when nothing is coming, and a mutant that waits without a timeout
breaks it.  In `ZKLive` the consumer of the generator also comes back
(`Resume`): the code cannot make it, and a generator that nobody resumes does
wait for ever.  In `ZKNative` a connection that is closed in the middle of an
answer is excepted, because there the code does not end.

## 4. Properties

Each property is stated above its definition, at the end of its module.  Those
that took the most thought:

- `RightTable`, `CleanAfterRead`: three nested loops of retries may have two or
  three answers under way, of different tables, cut by a `recv(16)` that met
  the wrong bytes.  The gate has to refuse every mixture, and does: an
  announcement and a body that belong together carry their own size.
- `ReadsSurviveOneFault`: that the loops in four functions together outlast any
  one fault or a narrow path.
- `TrueMeansShown`, `ImplementsOutcome`: what the caller is told against what the
  terminal has, over lost requests, lost answers, restarts and requests that are
  served after their call has ended.
- `GuardedWrite`: the slot check before a write uses a table of this very call.
- `OwnTemplates`: a scan that begins on a silent line records no template for another
  user or finger, on a network where every answer may be late: after one failed
  exchange nothing more is asked.
- `ScansBeginClean`: when answers are in time, every scan does begin on such a line:
  no release, users read, reconnection or failed fetch leaves an answer behind that
  the flag does not know of.
- `BufferReleased`, `ReportIsTrue`: a terminal that refuses looks exactly like
  one that has no templates, so a report is only given with positive evidence.
- `NoPunchLost`, `BadgeDecides`: which distinctions the parsers keep.
- `WholeTable`: a native table is one state of the terminal's table during the
  call, whatever grew between `read_sizes`, the announcement and the chunks;
  with short records this needs a table that does not grow, since the record
  length is a quotient of two sizes read at different times.
- `AutoSlotFree`: the exact condition under which a write without uid is safe.
- `EventsAccounted`: receives split a stream of events anywhere between packets,
  the loop splits a receive by sizes, and no event may fall between.
- `EnrolReported`: True means this call's finger, over touches whose events
  share receives; it holds as long as every call came to its regular end.
- `CleanEnd`: four pieces of state, changed by seven commands, put back on each
  regular way out of two calls.
- `NobodySeenIsOverwritten`: over repeated runs whose requests may be served
  late.
- `OkMeansEverybody`: each part of the read probe runs whether or not the one
  before worked, and a scan of nobody succeeds.

## 5. What is proved

`WL10MutateProofs`, for every number of slots, values, attempts, calls, faults
and enrolments, on both kinds of network and path:

- `TypeCorrect`: `MSpec => []MTypeOK`.  The work is in the pieces: that what a
  misaligned receive leaves (`Recv16Type`), what TCP delivers (`OutsideType`)
  and what the gate accepts (`BulkDoneType`) is again what the types say.  The
  invariant is strengthened with `MutatingOp`: while a mutation's own program
  counters are active the call is a mutation.
- `OneWritePerCall`: `MSpec => []AtMostOneWrite`.  Not inductive alone: nothing
  in `sent <= 1` says that a retry does not lead back to the send.  `WriteOnce`
  adds that up to the send nothing was sent, and that a table read after it is
  marked as the verification, which never proceeds to a send.
- `TemplatesAreKept`: `MSpec => TemplateSlotsKept`, the guard's purpose: with
  nobody enrolling meanwhile, no write or delete ever takes a template slot.
  The invariant `SlotsGuarded` says that every table the client holds or may
  yet receive, in whichever buffer, shows at least the slots that are template
  slots now, and that no request waiting to be sent or served names one.  The
  second part needs the first (the guard trusts a table) and the first needs
  the second (nothing but a served request changes the slots).  Late and
  repeated answers are covered: they are in the buffers it speaks about.
- `ClampEnds`: `MSpec => []TimeoutRestored`, and `ReadClampEnds` for a program
  that only reads.  `ClampInRecovery` adds where the clamp may be: inside a
  recovery cycle, between its reconnection and the end of its bulk read, and
  only a recovery gets to reconnect.  So no path out of the three nested loops
  has to be tried one by one.

`WL10TimelyProofs`, for the same instances on a network whose answers come
before their timeout or never (`Timely`), with everything else allowed that the
model has: requests and answers lost, tables refused, connections reset, any
number of attempts, cycles, calls and earlier failures.  `MSpec` contains the
reads of WL10Read, which end in the same states, so its theorems hold for a
program that only reads as well (`MutateOps` = {}):

- `TablesAreFresh` (`FreshTable`), `ReadsLeaveNothing` (`CleanAfterRead`),
  `TablesAreNotMixedUp` (`RightTable`), `WritesAreGuarded` (`GuardedWrite`) and
  `TrueIsShown` (`TrueMeansShown`), all from one invariant, `TimelyInv`.  None of
  the five is inductive.  What makes them true is that the stream never holds
  more than the answer that is waited for, and `Stream` says so: a client that
  waits for nothing has nothing waiting (`Resting`); one that waits has its one
  request out, or a beginning of the answer to it, in order and never two
  answers (`Awaiting`).  `Queue` says where a mutating request can be, `Known`
  what the tables the client holds are worth, `Progress` how far the call has
  come and what the result may say.  A full-size segment on a narrow path is
  held up in front of its answer; `Stuck` and `Flowing` are that case.
- `MutationsKeepTheirPromise`: `MSpec => ImplementsOutcome`, the refinement, step
  by step, for a terminal at which nobody enrols meanwhile (`MaxEnrol` = 0: an
  enrolment between the preflight and the write may turn the slot into a
  template's, which WL10Outcome rules out).  It needs `TimelyInv` for the results
  and `SlotsGuarded` of `TemplatesAreKept` for the slots.
- `ReadsSurvive` (`ReadsSurviveOneFault`) and `RecoveryIsNotNeedless`
  (`NoNeedlessRecovery`), from `BudgetInv`, which is `TimelyInv` with an account.
  What has gone wrong so far is `Adversities`: the faults, and one more for a narrow
  path.  `Budget` says what each point of the three nested loops must have cost:
  `Connection`, what the state of the connection (dead, refused, its MSS, an
  acknowledgement seen) has; `Normal`, that on an unhindered connection there was a
  fault for each try and each send used up, and one more when the answer awaited is
  a refusal or will not come (`Troubled`); `Recovery`, that a cycle beyond the first
  cost two; `Failure`, that a failed call did.  Three hypotheses: no restart among
  the operations (it breaks the connection without a fault being counted), a caller
  who did not set `tcp_maxseg`, since that disables the recovery (`ReadsSurvive`
  only), and at least two attempts (`ReadsSurvive` only; the code has three, and with
  one the first refusal would end the read).

`WL10TemplatesProofs`, for any users, fingers, parts, attempts, calls and faults:

- `NoForeignTemplates`: `Spec => []OwnTemplates`, with any timing.  `ScanInv` says what
  `_wl10_stream_safe` stands for in a scan that began on a silent line: while it may
  still ask, nothing is sent, served or waiting on the line; one that waits has asked one
  question, and all that the line can bring is the answer to it, in order, of
  which the closing frame (a bare acknowledgement or a `CMD_DATA`) is the last.
  The lemmas `EndsConcat` and `EndsCut` say that this survives every cut that TCP
  or the client's receives can make.
- `TypeCorrect`: `Spec => []TTypeOK`, with any timing.  `TypeInv` adds that a scan
  stays at places it wants and that a part is only asked for while one is missing.
- `TablesAreCurrent` (`TableIsCurrent`), on a timely network, from `TurnInv`: one
  request is under way at a time and what arrives is a beginning of the answer to
  the last one (`InTurn`), and the parts taken so far are this call's, in order
  (`InOrder`).
- `ScansAreClean` (`ScansBeginClean`), on a timely network, from `TurnInv` as well: an
  idle client whose flag is set has a line on which nothing is under way.  With
  `NoForeignTemplates` it follows that on such a network no template is ever
  recorded for another place.
- `TablesAreOfOneFetch` (`TableIsOfOneFetch`), on a timely network with any faults
  from `TurnInv`, and on any network without faults from `FetchInv`, where earlier
  parts may well be on the line.  There the order of TCP does it: between parts of
  two fetches, wherever they are, stands an announcement or a request for one, which
  ends the fetch (`Apart`), and after each part of an earlier fetch the
  announcement or the parts of the present one are still to come (`Renewed`).
- `BufferIsReleased` (`BufferReleased`), on a timely network with at least two sends of
  the announcement request (the code has three), from `FreedInv`: what the sends
  used up have cost, and that a read that gives up before its announcement has met
  two faults or leaves no buffer.
- `ReportsAreTrue` (`ReportIsTrue`) and `ScansAreComplete` (`ScanIsComplete`), on a timely
  network, from `TruthInv`: either the terminal refuses reads and nothing was
  recorded, or what was recorded is exactly what is stored at the places passed so
  far (`Recorded`, `Passed`); the first frame awaited tells the truth about the place
  it was asked for (`Told`); and nothing still to be served changes the buffer
  (`OnlyProbes`), so a place is not refused at one time and answered at another.

`WL10RecordsProofs`, for tables of any length over any uids, badges and times:
`ParsersTyped`, `PersonsAreListed` (`PersonsListedOnce`), `SlotsAreAccounted`,
`PunchesAreKept` and `BadgeIsDecisive`, from one invariant `RecordsInv`. It ties the two
sets that the code consults to the lists it returns (`seen` is exactly the uids of the
users, every key in `keys` is a punch kept) and records that punches are only shown once
the user table is complete, so that their owners are final. `LastPosition` (a non-empty
set of positions has a greatest one) justifies the "later users overwrite earlier ones"
of the users map.

`ZKNativeProofs`, for tables, chunks, pieces, attempts, calls and faults of any
number: `NativeTyped`, `ListsAreWhole` (`WholeTable`) and `CleanUnlessFault`
(`CleanWithoutFault`), from `NInv`.  One request is under way at a time, so `NInv`
says for each program counter which request that is (`Asking`), what its answer
looks like on the way, whole, in two pieces or cut (`Arriving`), and which
records have been put together so far (`Reading`).  That chunks join without gap
or overlap is the lemmas about runs of records; `Faultless` says which steps a
call without a fault cannot have taken.

`ZKLiveProofs`, for every event size and any number of punches, receives, calls
and faults: `RegularEndsAreClean` (`CleanEnd`), `NoEventIsLost`
(`EventsAccounted`) and `DoneMeansStored` (`EnrolReported`), from `LInv`.  As long
as every call came to its regular end, at most one request is under way, and
`LInv` says for each place of a call what else the terminal may have sent.
`Registering` and `Unregistering` are the two ends of a capture, where an event
and an answer may change places.  `Listening` is its loop: of the receive, `k`
records are behind the parser, the next starts at byte 52 k, and `left` is what
remains; with the four sizes this says which receives the loop takes apart and
which it drops after one record.  `Enrolling` counts touches: the events taken are
at least two for each attempt used up, and a terminal that has said its last word
says nothing more.  After a call that failed nothing is claimed, and one claim
made of it was false: that True is always about this call's finger
(`DoneIsOwnEnrolment`, section 6).

`ZKUsersProofs`, for every number of slots, badges and calls:
`AutoSlotStaysFree`, `USpec => []AutoSlotFree`, from `UInv`, which adds the
types; it speaks about all slots from `next_uid` on, not just that one, because
the next write goes one further.  There is one lemma per kind of call: `SyncFrees`
and `ListingKeeps` for what a listing leaves, `WriteKeeps` and `DeleteKeeps` for
the two ways `next_uid` moves.

`WL10ToolsProofs`, for every terminal and any number of runs and changes:
`OnlyLatecomersAreReplaced`, `ToolsSpec => NobodySeenIsOverwritten`.  The
invariant `TInv` has three parts: a mutation is busy only while the runner
writes; every request under way or given up is the runner's, with its value;
and a slot that such a request or a decided write names is free or its holder
is in `raced`.  The last part is what the two baselines establish and every
enrolment keeps; it needs the first two to know which requests there are.
`EarlyEvidenceIsSafe` (`EarlyStageMeansUntouched`) adds `StageInv`, which ties the
stage that the evidence would name to whether something was sent, and
`GoodReportIsComplete` (`OkMeansEverybody`) adds `ReaderInv`: past the users, the
probe knows everybody or has noted a failure.

Assumptions used: those named `...Assumption` in the modules, all checked by
TLC: the empty slot is not a value, there are finitely many slots, record sizes and
attempt counts are positive, 0 is a uid, a badge and a time.  What single theorems
assume beyond that is in their `ASSUME` and named above; each of these cases is
one that a run instantiates.

Only model-checked:

- liveness (`CallReturns`, `MutationReturns`, `TemplateCallReturns`,
  `NativeReturns`, `LiveEnds`): it is about ENABLED, which is out of the prover's reach;
- `RightTable` when answers may be late: it is not a theorem then.  A user table of
  eleven slots is 792 bytes and a whole number of attendance records too, and the
  gate lets it pass; the instance has tables that do not coincide;
- what the timely theorems say, on a network whose answers may be late: most of it is
  false there (section 6).  `TableIsOfOneFetch` held on the
  instances tried with late answers (table and users reads with one fault, table reads
  with two), and is proved for none of these.

## 6. Where the code and what it says differ

With a run that shows it:

| Run | What happens |
|---|---|
| `late_ack` | a late acknowledgement shifts all later ones by a command; `wl10_set_user` returns True for a write that was lost |
| `mode_lost` | a request of the native fallback fails after a WL10 log was found empty; `self.wl10` stays False and every later call of the WL10 terminal takes the native path, which the review of the library rules out |

Stated at the end of the modules and refuted by TLC on the instances of their
module's runs (for `WL10Templates`, where it says slow: with `Timely` FALSE), without a
run of their own:

| Module | Statement | What happens |
|---|---|---|
| `WL10Read` | `SocketTimeoutRestored` | the socket keeps the clamped timeout after a recovery |
| | `RecoveryUnlessOptedOut` | `tcp_maxseg` set by a recovery disables the next one |
| `WL10Mutate` | `TrueMeansDone`, also with answers in time | a write that changes only a password, a group or a verify mode is lost with its acknowledgement; the readback does not compare these fields (2197-2199), and `wl10_set_user` returns True |
| | `SidecarSlotsKept` | sidecar slots are collected and not protected |
| | `RebootFailsClosed` | a reset during a restart escapes `wl10_reboot` with the connection still marked open |
| `WL10Templates` | `PushIsRead` | a pushed template that arrives in one segment with its announcement is dropped |
| | `ReconnectRecovers` | after a failed template read no reconnection makes the object read templates again, although the error message says so (1590) |
| | `ReportIsTrue`, slow | the late acknowledgement of the users read that a report begins with (1655) answers its first command 88; every answer counts for the user or finger after its own, in a report that counts as certified |
| | `ScansBeginClean`, slow | the late acknowledgement of a release or of a users read, or a late answer to the queries of `connect()`, is there when a scan begins, with the flag set |
| | `BufferReleased`, slow | a table read that gives up before its announcement arrives leaves the buffer announced |
| | `TableIsCurrent`, slow | with a single chunk a late chunk of an earlier read can be returned as the table of the next |
| | `TableIsOfOneFetch`, slow, with three lost answers | a late second announcement of an earlier call starts the fetch, a late part of that call fits, and the lost answers keep the new announcements from interrupting it |
| `WL10Records` | `BadgeBeforeUid` | a user whose uid equals an earlier user's badge takes over that badge |
| | `DistinctPunchesKept` | two employees with empty badge fields who punch in the same second become one |
| `ZKUsers` | `NeverOverwrites` | before a listing, after a restart, a lost acknowledgement or an enrolment, a write without uid takes a slot in use |
| | `NeverRepeatsBadge` | the second write without badge may repeat a badge |
| `ZKLive` | `AlwaysPutBack` | an exception or a dropped generator leaves timeout, registration and keypad as they are |
| | `StoredIsReported` | a stored finger is reported as failed when two events share a receive |
| | `DoneIsOwnEnrolment` | after a call that failed, an enrolment takes the answers and events of an earlier one for its own and returns True for a finger that was not stored (needs three calls) |
| | `StopIsKept` | a stop asked for during the set-up is overwritten |
| `WL10Tools` | `PassMeansGone` | the write probe takes a table that does not come for one without its users |
| | `ProbeHarmsNobody` | the write probe overwrites and deletes whoever holds slots 1000 and 1001 |
| | `SuccessIsOwn` | a repeated run succeeds by the late request of the first |
| | `BadgeHeldOnce` | a repetition with another slot may leave the badge twice |

Two plain errors need no model: `clear_data` passes a `str` where bytes are
concatenated (2744) and always raises, and `delete_user_template` uses a variable
that only one branch assigns (2398-2401).

## 7. Abstractions

- Reply and session ids are left out, since nothing compares them.  Requests of
  an old connection are gone after a reconnection.
- `recv(65536)` takes all that waits.  Payload bytes that happen to decode as
  an acknowledgement header are ignored.
- A slot's badge, name, privilege, password, group, verify mode and card are one value;
  that the readback and the search by badge see only a part of it is `Alike`. In the
  initial states template and sidecar slots are nobody's slots.
- `next_uid` and `next_user_id` are left out of WL10Mutate, where any slot may be
  named, and modelled in ZKUsers, where calls are single steps.
- Templates: what the terminal stores does not change during a run; an absent template
  is answered by an error; a second announcement replaces the first; the buffer may or
  may not survive a reconnection; the user list is the same throughout and has somebody;
  a users read is one step, and its late requests reach the terminal before those of the
  next call. Entries inside the table are abstracted to "all parts in order".
- Records: a record is told apart by what the decoder looks at; badges are
  numbers, because badges and `str(uid)` meet as keys of one dictionary.
- ZKNative: one request is under way, and an answer comes before its timeout or never; a
  short answer counts as one whose payload is missing; the WL10 reads that a call starts
  with are one step, and a log of which every record is filtered out counts as empty (it
  may fall through to the standard path like one); of record layouts only whether the
  length is computed from the count (`wide` or not) is kept.
- ZKLive: packets arrive whole, and in the enrolment loop what the terminal
  sends per touch is taken from the comments and codes of the loop; the reading
  of the user list is one command; acknowledgements of events are not answered.
- WL10Tools: a read returns the slots as they are or fails, which is what
  `FreshTable` and the gate give on a timely network; programs do not overlap;
  the evidence file is either kept or not; the runner is always given the same
  badge, and the clock and contents of the read gate are left out.
- A terminal that violates its own framing is not modelled.

## 8. Not modelled, and what is left

- `connect` in detail: its attempts and clamp, and authentication.  The late answers
  of its platform and name queries are in WL10Templates; in WL10Read and WL10Mutate
  they are not, where the shift itself has another source (`late_ack`).
- The byte arithmetic of `_wl10_extract_tcp_payloads`, `_wl10_strip_header` and
  `__recieve_tcp_data`, and with it the branch of the chunk receiver for
  `CMD_PREPARE_DATA` (2842-2894): it reassembles frames from bytes, which would
  need positions in the stream instead of pieces.  The sizes at which a user and
  an attendance table coincide (792 bytes) belong there too.
- `save_user_template`, `delete_user_template`, `get_user_template`,
  `clear_attendance`, and the information and settings commands: one request and
  one reply (two for the first), with no state in the client.
- UDP: refused by all WL10 operations.
- Command line tools, value classes and constants: no behaviour over time.

Every safety and action property of the passing runs and the refinement are
theorems now, some on a timely network only.  `RightTable` is the one among these
that a run also checks with late answers, where no theorem covers it (section 5).
Liveness is not in the prover's reach.  Open is where the exact
bound for `TableIsOfOneFetch` with late answers lies: proved without faults, refuted
with three.
