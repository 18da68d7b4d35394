---------------------------- MODULE WL10Templates ----------------------------
(***************************************************************************)
(* Fingerprint templates over the WL10 raw path, src/pyzk_wl10/zk/base.py: *)
(* one exchange of command 88 per user and finger (wl10_scan_user_templates*)
(* and wl10_user_fingerprints), and the whole table through an announced   *)
(* buffer and a chunk loop (wl10_get_templates).                           *)
(*                                                                         *)
(* These reads are synchronous: they take the next frame for the answer.   *)
(* What keeps them from taking a frame of an earlier template request is   *)
(* the flag _wl10_stream_safe, which other requests do not set; and what   *)
(* keeps the terminal able to answer them is that its single bulk buffer   *)
(* is released after every announcement.                                   *)
(*                                                                         *)
(* The terminal, external to the repository, serves requests in order.     *)
(* Pieces of the stream towards the client:                                *)
(*    ok, err    a bare acknowledgement frame                              *)
(*    data       a CMD_DATA frame with the template stored at `of'         *)
(*    prep, body an announced template, or the user table (`of' <<>>): the *)
(*               announcement, and the data in a frame of their own, which *)
(*               an ok frame follows                                       *)
(*    announce   the ACK_OK frame with the 13-byte announcement            *)
(*    chunk      a CMD_DATA frame with part `i' of the announced table     *)
(*    setting    the ACK_OK frame with the value of a device setting       *)
(*    tail       what is left of a frame whose first bytes were consumed   *)
(***************************************************************************)
EXTENDS Integers, Sequences, FiniteSets

CONSTANTS
    Uids,         \* uids of the real users the caller asks about
    Reserved,     \* _wl10_template_uids: slots that are template storage
    MaxFid,       \* WL10_MAX_FID: the last finger index (9 in the code)
    Chunks,       \* parts of the announced table (its size / WL10_MAX_CHUNK)
    RawAttempts,  \* sends of the announcement request (3 in the code)
    TemplateOps,  \* which calls a run makes
    Timely,       \* TRUE: no read times out while an answer is on its way
    MaxLate,      \* bound on the requests a users read gives up on
    MaxCalls,     \* bound on the calls of a run
    MaxFaults     \* bound on broken connections, refusals and lost answers

ASSUME UidsAssumption ==
    Uids \subseteq Nat /\ IsFiniteSet(Uids) /\ Uids \ Reserved # {}
ASSUME FidsAssumption == MaxFid \in Nat
ASSUME CountsAssumption == Chunks \in Nat \ {0} /\ RawAttempts \in Nat \ {0}
ASSUME TimelyAssumption == Timely \in BOOLEAN /\ MaxLate \in Nat

VARIABLES
    tmpl,       \* where the terminal stores templates
    stuck,      \* its firmware refuses every command 88 until a restart
    shape,      \* how it answers command 88: "data" or "push"
    buffer,     \* a table is announced and not yet released
    toDev,      \* requests sent and not yet served
    devOut,     \* pieces on their way to the client
    toCli,      \* pieces waiting in the client's socket
    conn,       \* the TCP connection: "up" or "dead"
    faults,     \* faults so far
    op,         \* the call in progress, or the last one
    callNo,     \* calls made so far
    pc,         \* where the client is
    at,         \* user and finger being asked about
    found,      \* what the scan recorded: `of' reported as the template at `at'
    owed,       \* HISTORY: the scan began on a line held safe with answers to come
    raws,       \* sends of the announcement request
    got,        \* pieces drained so far
    parts,      \* chunks fetched so far
    streamSafe, \* _wl10_stream_safe
    isConnect,  \* is_connect
    result      \* outcome of the last call

devVars  == <<tmpl, stuck, shape, buffer>>
netVars  == <<toDev, devOut, toCli, conn, faults>>
scanVars == <<at, found, owed>>
tabVars  == <<raws, parts>>
cliVars  == <<op, callNo, pc, scanVars, tabVars, got, streamSafe, isConnect, result>>
tvars    == <<devVars, netVars, cliVars>>

-----------------------------------------------------------------------------
Fids    == 0..MaxFid
Scans   == {"scan", "fingerprints", "uncertified"}
AllOps  == Scans \cup {"templates", "users", "connect"}
Places  == Uids \X Fids
Request == [cmd : {"probe"}, at : Places]
              \cup [cmd : {"chunk"}, i : 1..Chunks, call : Nat]
              \cup [cmd : {"wrapped", "free", "users", "setting"}]
Chunk   == [k : {"chunk"}, i : 1..Chunks, call : Nat]
Piece   == [k : {"ok", "err", "announce", "setting", "tail"}]
              \cup [k : {"data", "prep", "body"}, of : Places \cup {<<>>}] \cup Chunk
Pcs     == {"idle", "probe", "await", "push", "wrap", "drain", "fetch",
            "awaitChunk", "free", "freeAck"}

P(kind) == [k |-> kind]
IsAck(p) == p.k \in {"ok", "err", "announce", "setting"}

\* Fault: a push is over with its data.
EndsAtBody(q) == \E i \in DOMAIN q : IsAck(q[i]) \/ q[i].k = "body"

HasAck(q) == \E i \in DOMAIN q : IsAck(q[i])

\* _wl10_extract_tcp_payloads: where in the stream the frames that carry one are.
Carries(p) == p.k \notin {"ok", "err", "tail"}
Payloads(q) == {j \in DOMAIN q : Carries(q[j])}

\* They are one template, or one announcement, in piece `i'.
IsTemplate(q, i)     == q[i].k \in {"data", "body"} /\ Payloads(q) = {i}
IsAnnouncement(q, i) == q[i].k = "announce" /\ Payloads(q) = {i}

\* They are a whole table: its parts, each once and in order.
HoldsTable(q) ==
    /\ \A j \in Payloads(q) : q[j].k = "chunk"
    /\ \A i, j \in Payloads(q) : i < j => q[i].i < q[j].i
    /\ {q[j].i : j \in Payloads(q)} = 1..Chunks
TableIn(q) == [n \in 1..Chunks |-> q[CHOOSE j \in Payloads(q) : q[j].i = n]]

Users == Uids \ Reserved
After(u) == {v \in Users : v > u}
Lowest(S) == CHOOSE u \in S : \A v \in S : u <= v

-----------------------------------------------------------------------------
(* The terminal and the network.                                           *)

Coming == conn = "up" /\ (toDev # <<>> \/ devOut # <<>>)
MayTimeOut == toCli = <<>> /\ (Timely => ~Coming)

\* Nothing is left to read, and nothing will come.
Silent == toCli = <<>> /\ devOut = <<>> /\ (conn = "up" => toDev = <<>>)

SendTo(req) == toDev' = IF conn = "up" THEN Append(toDev, req) ELSE toDev

Pushed(what) == <<[k |-> "prep", of |-> what], [k |-> "body", of |-> what], P("ok")>>

Answer(req) ==
    CASE req.cmd = "probe" ->
            IF stuck \/ buffer \/ req.at \notin tmpl THEN <<P("err")>>
            ELSE IF shape = "data" THEN <<[k |-> "data", of |-> req.at]>>
            ELSE Pushed(req.at)
      [] req.cmd = "users"   -> Pushed(<<>>)
      [] req.cmd = "setting" -> <<P("setting")>>
      [] req.cmd = "wrapped" -> <<P("announce")>>
      [] req.cmd = "chunk" ->
            IF buffer THEN <<[k |-> "chunk", i |-> req.i, call |-> req.call]>> ELSE <<P("err")>>
      [] OTHER -> <<P("ok")>>

TakeRequest ==
    /\ toDev # <<>>
    /\ toDev' = Tail(toDev)
    /\ LET cmd == Head(toDev).cmd IN
       buffer' = (cmd = "wrapped" \/ (buffer /\ cmd # "free"))
    /\ UNCHANGED <<tmpl, stuck, shape, toCli, conn, cliVars>>

Serve ==
    /\ TakeRequest
    /\ devOut' = IF conn = "up" THEN devOut \o Answer(Head(toDev)) ELSE devOut
    /\ UNCHANGED faults

Fault == faults < MaxFaults /\ faults' = faults + 1

ServeMute == Fault /\ TakeRequest /\ UNCHANGED devOut

\* A table request or a chunk request is refused.
Refuse ==
    /\ Fault
    /\ toDev # <<>> /\ Head(toDev).cmd \in {"wrapped", "chunk"}
    /\ toDev' = Tail(toDev)
    /\ devOut' = IF conn = "up" THEN Append(devOut, P("err")) ELSE devOut
    /\ UNCHANGED <<devVars, toCli, conn, cliVars>>

Deliver(n) ==
    /\ conn = "up"
    /\ toCli' = toCli \o SubSeq(devOut, 1, n)
    /\ devOut' = SubSeq(devOut, n + 1, Len(devOut))
    /\ UNCHANGED <<devVars, toDev, conn, faults, cliVars>>

Break ==
    /\ Fault
    /\ conn = "up" /\ conn' = "dead"
    /\ \E n \in 0..Len(toDev) : toDev' = SubSeq(toDev, 1, n)
    /\ toCli' \in {toCli, <<>>}
    /\ devOut' = <<>>
    /\ UNCHANGED <<devVars, cliVars>>

-----------------------------------------------------------------------------
(* Calls.                                                                  *)

NewCall(o) ==
    /\ pc = "idle" /\ callNo < MaxCalls /\ o \in TemplateOps
    /\ op' = o
    /\ callNo' = callNo + 1

Return(r) == pc' = "idle" /\ result' = r

\* Requests given up after a timeout that the terminal has yet to answer.
Late(cmds, n) ==
    IF Timely THEN {<<>>} ELSE UNION {[1..m -> [cmd : cmds]] : m \in 0..n}

\* wl10_get_users in one step (WL10Read has its own).  A table that came, here or
\* over the recovery connection, came after the answers to all earlier requests
\* and before those to its repeats.
TableComes ==
    /\ \/ conn = "up" /\ toDev = <<>> /\ devOut = <<>> /\ isConnect' = isConnect
       \/ isConnect' = TRUE
    /\ conn' = "up"
    /\ toCli' = <<>>
    /\ devOut' \in {<<>>} \cup (IF Timely THEN {} ELSE {<<P("ok")>>})
    /\ toDev' \in Late({"users", "free"}, MaxLate)
    /\ buffer' \in {buffer, FALSE}
    /\ UNCHANGED faults

Adversity == Fault \/ (~Timely /\ UNCHANGED faults)

\* None came: without recovery, after a recovery, or because that found no way back.
TableFails ==
    /\ \/ /\ Adversity \/ (conn = "dead" /\ UNCHANGED faults)
          /\ toCli' \in IF conn = "up" THEN {<<>>} ELSE {<<>>, toCli}
          /\ \E late \in Late({"users", "free"}, MaxLate) :
                toDev' = IF conn = "up" THEN toDev \o late ELSE toDev
          /\ UNCHANGED <<devOut, conn, isConnect>>
       \/ /\ Adversity
          /\ conn' = "up" /\ isConnect' = TRUE
          /\ toCli' = <<>> /\ devOut' = <<>>
          /\ toDev' \in Late({"setting", "users", "free"}, MaxLate)
       \/ /\ Fault
          /\ conn' = "dead" /\ isConnect' = FALSE
          /\ toCli' = <<>> /\ devOut' = <<>> /\ toDev' = <<>>
    /\ buffer' \in {buffer, FALSE}

GetUsers ==
    /\ NewCall("users")
    /\ \/ TableComes /\ Return("ok")
       \/ TableFails /\ Return("error")
    /\ UNCHANGED <<tmpl, stuck, shape, scanVars, tabVars, got, streamSafe>>

\* A scan begins with the first user's first finger.  The users are given, or
\* wl10_user_fingerprints reads them first, on the same connection.
StartScan(o) ==
    /\ o \in Scans
    /\ NewCall(o)
    /\ \/ pc' = "probe" /\ result' = "none" /\ UNCHANGED <<netVars, buffer, isConnect>>
       \/ o # "scan" /\ TableComes /\ pc' = "probe" /\ result' = "none"
       \/ o # "scan" /\ TableFails /\ Return("error")
    /\ found' = {}
    /\ at' = <<Lowest(Users), 0>>
    /\ owed' = (streamSafe /\ ~Silent')
    /\ UNCHANGED <<tmpl, stuck, shape, tabVars, got, streamSafe>>

\* Fault: the chunks of an earlier fetch are kept.
StartTemplatesResuming ==
    /\ NewCall("templates")
    /\ pc' = "wrap" /\ raws' = 1 /\ result' = "none"
    /\ parts' = IF Len(parts) < Chunks THEN parts ELSE <<>>
    /\ UNCHANGED <<devVars, netVars, scanVars, got, streamSafe, isConnect>>

StartTemplates ==
    /\ NewCall("templates")
    /\ pc' = "wrap" /\ raws' = 1 /\ parts' = <<>> /\ result' = "none"
    /\ UNCHANGED <<devVars, netVars, scanVars, got, streamSafe, isConnect>>

\* connect() resets the session and reply ids, and no other state of a read.  It
\* swallows a timeout of its two queries, the platform and the device name.
\* What the terminal held in its buffer for the old session may stay there.
Reconnect(up) ==
    /\ NewCall("connect")
    /\ toDev' \in (IF up THEN Late({"setting"}, 2) ELSE {<<>>})
    /\ devOut' = <<>> /\ toCli' = <<>>
    /\ conn' = IF up THEN "up" ELSE "dead"
    /\ isConnect' = (up \/ isConnect)
    /\ Return(IF up THEN "ok" ELSE "error")
    /\ buffer' \in {buffer, FALSE}
    /\ UNCHANGED <<tmpl, stuck, shape, scanVars, tabVars, got, streamSafe>>

-----------------------------------------------------------------------------
(* One exchange of command 88 (_wl10_read_user_template), in a scan.       *)

ProbeFails == streamSafe' = FALSE /\ Return("error") /\ UNCHANGED scanVars

\* Fault: a scan that found nothing is accepted.
CertifiedAnyway(f) == TRUE

\* wl10_user_fingerprints believes a scan that found at least one template.
Certified(f) == op = "fingerprints" => f # {}

\* Fault: every scan stops at a user's first template.
EnoughOnceFound(f) == \E x \in f : x.at = at

\* Only wl10_scan_user_templates asks about the remaining fingers.
Enough(f) == op # "scan" /\ \E x \in f : x.at = at

\* The scan goes on to the next finger, unless it only wants to know whether
\* the user has any, then to the next user.
Advance(f) ==
    /\ found' = f /\ owed' = owed
    /\ streamSafe' = streamSafe
    /\ LET next == <<at[1], at[2] + 1>>
           over == Enough(f) \/ next \notin Places
       IN  \/ ~over
              /\ at' = next /\ pc' = "probe" /\ result' = result
           \/ over /\ After(at[1]) # {}
              /\ at' = <<Lowest(After(at[1])), 0>> /\ pc' = "probe" /\ result' = result
           \/ over /\ After(at[1]) = {}
              /\ at' = at /\ Return(IF Certified(f) THEN "ok" ELSE "error")

Present(p) == Advance(found \cup {[at |-> at, of |-> IF p.k = "chunk" THEN <<>> ELSE p.of]})
Absent     == Advance(found)

\* Fault: the flag is not looked at.
MayProbeAnyway == TRUE

MayProbe == streamSafe

ProbeRefused ==
    /\ pc = "probe" /\ ~MayProbe
    /\ Return("error")
    /\ UNCHANGED <<devVars, netVars, op, callNo, scanVars, tabVars, got, streamSafe, isConnect>>

Probe ==
    /\ pc = "probe" /\ MayProbe
    /\ isConnect
    /\ SendTo([cmd |-> "probe", at |-> at])
    /\ pc' = "await"
    /\ UNCHANGED <<devVars, devOut, toCli, conn, faults, op, callNo, scanVars, tabVars, got,
                   streamSafe, isConnect, result>>

ProbeSendError ==
    /\ pc = "probe" /\ MayProbe
    /\ ~isConnect \/ conn = "dead"
    /\ ProbeFails
    /\ UNCHANGED <<devVars, netVars, op, callNo, tabVars, got, isConnect>>

\* Only the first frame of what recv(65536) took is looked at; the rest of
\* the segment is dropped with it.
Await ==
    /\ pc = "await"
    /\ toCli # <<>>
    /\ toCli' = <<>>
    /\ LET first == Head(toCli) IN
       \/ IsAck(first) /\ Absent /\ UNCHANGED got
       \/ first.k \in {"data", "body", "chunk"} /\ Present(first) /\ UNCHANGED got
       \/ first.k = "prep" /\ pc' = "push" /\ got' = <<>>
          /\ UNCHANGED <<scanVars, streamSafe, result>>
       \/ first.k = "tail" /\ ProbeFails /\ UNCHANGED got
    /\ UNCHANGED <<devVars, toDev, devOut, conn, faults, op, callNo, tabVars, isConnect>>

\* The rest of a frame does not come in time, or never.
AwaitCut ==
    /\ pc = "await"
    /\ ~Timely
    /\ Len(toCli) = 1 /\ toCli[1].k \notin {"ok", "err", "tail"}
    /\ toCli' = <<P("tail")>>
    /\ ProbeFails
    /\ UNCHANGED <<devVars, toDev, devOut, conn, faults, op, callNo, tabVars, got, isConnect>>

\* Fault: the receive blocks for as long as the connection lives.
AwaitQuietBlocking ==
    /\ pc = "await"
    /\ toCli = <<>> /\ conn = "dead"
    /\ ProbeFails
    /\ UNCHANGED <<devVars, netVars, op, callNo, tabVars, got, isConnect>>

AwaitQuiet ==
    /\ pc = "await"
    /\ MayTimeOut
    /\ ProbeFails
    /\ UNCHANGED <<devVars, netVars, op, callNo, tabVars, got, isConnect>>

\* _wl10_read_prepared_body: the drained payload must be the announced one.
PushRecv ==
    /\ pc = "push"
    /\ toCli # <<>>
    /\ toCli' = <<>>
    /\ LET all == got \o toCli IN
       \/ ~HasAck(all) /\ got' = all /\ UNCHANGED <<pc, scanVars, streamSafe, result>>
       \/ /\ HasAck(all) /\ got' = <<>>
          /\ \/ \E i \in DOMAIN all : IsTemplate(all, i) /\ Present(all[i])
             \/ (\A i \in DOMAIN all : ~IsTemplate(all, i)) /\ ProbeFails
    /\ UNCHANGED <<devVars, toDev, devOut, conn, faults, op, callNo, tabVars, isConnect>>

PushQuiet ==
    /\ pc = "push"
    /\ MayTimeOut
    /\ got' = <<>>
    /\ ProbeFails
    /\ UNCHANGED <<devVars, netVars, op, callNo, tabVars, isConnect>>

-----------------------------------------------------------------------------
(* The table (_wl10_get_templates): the announcement through the raw       *)
(* command, one synchronous exchange per chunk, the release.               *)

WrapSend ==
    /\ pc = "wrap"
    /\ SendTo([cmd |-> "wrapped"])
    /\ pc' = "drain" /\ got' = <<>>
    /\ UNCHANGED <<devVars, devOut, toCli, conn, faults, op, callNo, scanVars, tabVars,
                   streamSafe, isConnect, result>>

WrapSendError ==
    /\ pc = "wrap"
    /\ conn = "dead"
    /\ Return("error")
    /\ UNCHANGED <<devVars, netVars, op, callNo, scanVars, tabVars, got, streamSafe, isConnect>>

\* The declared total of a table is its size: all parts, in order.
IsTable(q) == Len(q) = Chunks /\ \A i \in DOMAIN q : q[i].k = "chunk" /\ q[i].i = i

\* The payload of the answer is an announcement, or already a table, or wrong.
Announced(q) ==
    \/ /\ \E i \in DOMAIN q : IsAnnouncement(q, i)
       /\ pc' = "fetch"
       /\ UNCHANGED <<parts, result>>
    \/ /\ HoldsTable(q)
       /\ parts' = TableIn(q)
       /\ Return("ok")
    \/ /\ \A i \in DOMAIN q : ~IsAnnouncement(q, i)
       /\ ~HoldsTable(q)
       /\ Return("error")
       /\ UNCHANGED parts

WrapRecv ==
    /\ pc = "drain"
    /\ toCli # <<>>
    /\ toCli' = <<>>
    /\ got' = got \o toCli
    /\ \/ HasAck(got') /\ Announced(got')
       \/ ~HasAck(got') /\ UNCHANGED <<pc, parts, result>>
    /\ UNCHANGED <<devVars, toDev, devOut, conn, faults, op, callNo, scanVars, raws,
                   streamSafe, isConnect>>

\* Fault: one send too many.
WrapQuietOnceMore ==
    /\ pc = "drain"
    /\ MayTimeOut
    /\ raws' = raws + 1 /\ pc' = "wrap"
    /\ UNCHANGED <<parts, result>>
    /\ UNCHANGED <<devVars, netVars, op, callNo, scanVars, got, streamSafe, isConnect>>

\* Without an acknowledgement any payload will do, else the request goes out again.
WrapQuiet ==
    /\ pc = "drain"
    /\ MayTimeOut
    /\ \/ Payloads(got) # {} /\ Announced(got) /\ UNCHANGED raws
       \/ /\ Payloads(got) = {} /\ raws < RawAttempts
          /\ raws' = raws + 1 /\ pc' = "wrap"
          /\ UNCHANGED <<parts, result>>
       \/ /\ Payloads(got) = {} /\ raws = RawAttempts
          /\ Return("error")
          /\ UNCHANGED <<raws, parts>>
    /\ UNCHANGED <<devVars, netVars, op, callNo, scanVars, got, streamSafe, isConnect>>

\* Fault: the buffer is released only after a complete fetch.
ReleaseOnSuccess(outcome) ==
    IF outcome = "ok" THEN pc' = "free" /\ result' = outcome ELSE Return("error")

\* The release is in a finally clause: it follows a failed fetch as well.
Release(outcome) == pc' = "free" /\ result' = outcome

ChunkFails == streamSafe' = FALSE /\ Release("error") /\ UNCHANGED parts

ChunkSend ==
    /\ pc = "fetch"
    /\ isConnect
    /\ SendTo([cmd |-> "chunk", i |-> Len(parts) + 1, call |-> callNo])
    /\ pc' = "awaitChunk"
    /\ UNCHANGED <<devVars, devOut, toCli, conn, faults, op, callNo, scanVars, tabVars, got,
                   streamSafe, isConnect, result>>

ChunkSendError ==
    /\ pc = "fetch"
    /\ ~isConnect \/ conn = "dead"
    /\ ChunkFails
    /\ UNCHANGED <<devVars, netVars, op, callNo, scanVars, raws, got, isConnect>>

\* All chunks but the last have the same size, and only the size is compared.
SameSize(i, j) == i = j \/ (i < Chunks /\ j < Chunks)

ChunkFits(p) == p.k = "chunk" /\ SameSize(p.i, Len(parts) + 1)

\* What a receive that took too much, or stopped inside a frame, leaves.
Leftovers(q) ==
    LET from(i) == SubSeq(q, i, Len(q)) IN
    {from(i) : i \in 2..(Len(q) + 1)} \cup {<<P("tail")>> \o from(i) : i \in 3..(Len(q) + 1)}

\* recv(size + 32) takes 16 bytes more than the chunk when they are there.
ChunkRecv ==
    /\ pc = "awaitChunk"
    /\ toCli # <<>>
    /\ \/ /\ Len(toCli) = 1 /\ ChunkFits(toCli[1])
          /\ parts' = Append(parts, toCli[1])
          /\ toCli' = <<>>
          /\ streamSafe' = streamSafe
          /\ IF Len(parts') < Chunks THEN pc' = "fetch" /\ result' = result
             ELSE Release(IF IsTable(parts') THEN "ok" ELSE "error")
       \/ /\ ~(Len(toCli) = 1 /\ ChunkFits(toCli[1]))
          /\ toCli' \in Leftovers(toCli)
          /\ ChunkFails
    /\ UNCHANGED <<devVars, toDev, devOut, conn, faults, op, callNo, scanVars, raws, got,
                   isConnect>>

ChunkCut ==
    /\ pc = "awaitChunk"
    /\ ~Timely
    /\ Len(toCli) = 1 /\ toCli[1].k \notin {"ok", "err", "tail"}
    /\ toCli' = <<P("tail")>>
    /\ ChunkFails
    /\ UNCHANGED <<devVars, toDev, devOut, conn, faults, op, callNo, scanVars, raws, got,
                   isConnect>>

ChunkQuiet ==
    /\ pc = "awaitChunk"
    /\ MayTimeOut
    /\ ChunkFails
    /\ UNCHANGED <<devVars, netVars, op, callNo, scanVars, raws, got, isConnect>>

\* free_data() in the finally clause; its own failure is swallowed.
FreeSend ==
    /\ pc = "free"
    /\ isConnect
    /\ SendTo([cmd |-> "free"])
    /\ pc' = "freeAck"
    /\ UNCHANGED <<devVars, devOut, toCli, conn, faults, op, callNo, scanVars, tabVars, got,
                   streamSafe, isConnect, result>>

FreeSendError ==
    /\ pc = "free"
    /\ ~isConnect \/ conn = "dead"
    /\ Return(result)
    /\ UNCHANGED <<devVars, netVars, op, callNo, scanVars, tabVars, got, streamSafe, isConnect>>

\* __send_command receives one header and leaves the rest of a longer frame.
FreeRecv ==
    /\ pc = "freeAck"
    /\ toCli # <<>>
    /\ toCli' = (IF toCli[1].k \in {"ok", "err"} THEN <<>> ELSE <<P("tail")>>) \o Tail(toCli)
    /\ Return(result)
    /\ UNCHANGED <<devVars, toDev, devOut, conn, faults, op, callNo, scanVars, tabVars, got,
                   streamSafe, isConnect>>

FreeQuiet ==
    /\ pc = "freeAck"
    /\ MayTimeOut
    /\ Return(result)
    /\ UNCHANGED <<devVars, netVars, op, callNo, scanVars, tabVars, got, streamSafe, isConnect>>

-----------------------------------------------------------------------------
Init ==
    /\ tmpl \in SUBSET Places
    /\ stuck \in BOOLEAN
    /\ shape \in {"data", "push"}
    /\ buffer = FALSE
    /\ toDev = <<>> /\ devOut = <<>> /\ toCli = <<>>
    /\ conn = "up"
    /\ faults = 0
    /\ op = "connect" /\ callNo = 0
    /\ pc = "idle"
    /\ at = <<0, 0>> /\ found = {} /\ owed = FALSE
    /\ raws = 1 /\ got = <<>> /\ parts = <<>>
    /\ streamSafe = TRUE
    /\ isConnect = TRUE
    /\ result = "none"

Calls ==
    \/ \E o \in Scans : StartScan(o)
    \/ StartTemplates
    \/ GetUsers
    \/ Reconnect(TRUE) /\ UNCHANGED faults
    \/ Reconnect(FALSE) /\ Fault

ScanSteps ==
    \/ ProbeRefused \/ Probe \/ ProbeSendError
    \/ Await \/ AwaitCut \/ AwaitQuiet
    \/ PushRecv \/ PushQuiet

TableSteps ==
    \/ WrapSend \/ WrapSendError \/ WrapRecv \/ WrapQuiet
    \/ ChunkSend \/ ChunkSendError \/ ChunkRecv \/ ChunkCut \/ ChunkQuiet
    \/ FreeSend \/ FreeSendError \/ FreeRecv \/ FreeQuiet

Outside ==
    \/ Serve \/ ServeMute \/ Refuse \/ Break
    \/ \E n \in 1..Len(devOut) : Deliver(n)

Next == Calls \/ ScanSteps \/ TableSteps \/ Outside

\* The client is a running program, the terminal and the network make progress.
Fairness ==
    /\ WF_tvars(ScanSteps \/ TableSteps)
    /\ WF_tvars(Serve)
    /\ WF_tvars(\E n \in 1..Len(devOut) : Deliver(n))

Spec == Init /\ [][Next]_tvars
FairSpec == Spec /\ Fairness

-----------------------------------------------------------------------------
TTypeOK ==
    /\ tmpl \subseteq Places /\ stuck \in BOOLEAN /\ shape \in {"data", "push"}
    /\ buffer \in BOOLEAN
    /\ toDev \in Seq(Request) /\ devOut \in Seq(Piece) /\ toCli \in Seq(Piece)
    /\ conn \in {"up", "dead"} /\ faults \in Nat
    /\ op \in AllOps /\ callNo \in Nat /\ pc \in Pcs
    /\ at \in Places \cup {<<0, 0>>}
    /\ found \subseteq [at : Places, of : Places \cup {<<>>}] /\ owed \in BOOLEAN
    /\ raws \in 1..RawAttempts /\ got \in Seq(Piece) /\ parts \in Seq(Chunk)
    /\ streamSafe \in BOOLEAN /\ isConnect \in BOOLEAN
    /\ result \in {"none", "ok", "error"}

Done(o) == pc = "idle" /\ op = o /\ result = "ok"

\* A scan begun on a silent line never records a template for another user or
\* finger than its own, however late the answers come: one failed exchange ends
\* all of them.
OwnTemplates == ~owed => \A x \in found : x.at = x.of

\* No scan takes a stream for safe that owes answers to an earlier call: to a
\* fetch or a users read that failed, to connect()'s queries, or to a push.
ScansBeginClean == ~owed

\* A certified report names exactly the users with a stored template, also on a
\* terminal that refuses every read or whose buffer was left announced.  When
\* answers come late it may name others: the ACK of the users read is then taken
\* for the answer to the first exchange, and each answer for that to the next.
ReportIsTrue ==
    Done("fingerprints") =>
        {u \in Users : \E x \in found : x.at[1] = u} = {u \in Users : \E f \in Fids : <<u, f>> \in tmpl}

\* A full scan that succeeds on a terminal that answers has every template.
ScanIsComplete ==
    Done("scan") /\ ~stuck /\ ~buffer => {x.of : x \in found} = {p \in tmpl : p[1] \in Users}

\* A table read that meets at most one fault never leaves the terminal with an
\* announced table, whether it succeeds or not ("every announced fetch ends with
\* this command", tests/test_wl10_templates.py): until the buffer is released
\* the terminal answers no template read.
BufferReleased ==
    [][op = "templates" /\ pc # "idle" /\ pc' = "idle" /\ conn = "up" /\ faults <= 1
          => ~buffer']_tvars

\* The table returned was fetched by the call that returns it.
TableIsCurrent == Done("templates") => \A i \in DOMAIN parts : parts[i].call = callNo

\* The parts of a table come from one and the same fetch, however late they are.
TableIsOfOneFetch ==
    Done("templates") => \A i, j \in DOMAIN parts : parts[i].call = parts[j].call

\* Every call comes back to its caller.
TemplateCallReturns == pc # "idle" ~> pc = "idle"

-----------------------------------------------------------------------------
(* What the repository says and the code does not keep: TLC refutes these. *)

\* A stored template that the terminal pushes is read ("the template arrived in
\* the frames that followed, ended by the terminal ACK", tests/test_wl10_templates.py).
PushIsRead == pc = "idle" /\ op = "scan" /\ faults = 0 /\ ~stuck => result = "ok"

\* A new connection serves template reads again ("reconnect before reading
\* again", _wl10_read_user_template).
ReconnectRecovers == Done("connect") => streamSafe
=============================================================================
