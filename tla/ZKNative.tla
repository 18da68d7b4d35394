------------------------------ MODULE ZKNative ------------------------------
(***************************************************************************)
(* The reads of src/pyzk_wl10/zk/base.py that are not of the WL10 family:  *)
(* read_sizes, get_users, get_templates and get_attendance over            *)
(* read_with_buffer and its chunks, and the step from a WL10 read to them  *)
(* that get_attendance takes by clearing self.wl10 for a while.            *)
(*                                                                         *)
(* One request is under way at a time and an answer comes before its       *)
(* timeout or never.  A table of n records is the sequence 1..n; the WL10  *)
(* reads (WL10Read, WL10Templates) are one step here.                      *)
(***************************************************************************)
EXTENDS Integers, Sequences, FiniteSets

CONSTANTS
    MaxRecs,     \* records of the largest table
    MaxChunk,    \* MAX_CHUNK, in records
    Tries,       \* attempts per chunk (3)
    NativeOps,   \* calls a run makes
    MaxCalls, MaxGrowth, MaxFaults

ASSUME NativeAssumption ==
    /\ MaxRecs \in Nat /\ MaxChunk \in Nat \ {0} /\ Tries \in Nat \ {0}
    /\ NativeOps \subseteq {"sizes", "users", "templates", "log"}
    /\ MaxCalls \in Nat /\ MaxGrowth \in Nat /\ MaxFaults \in Nat

VARIABLES
    mem,         \* the terminal's tables
    buffer,      \* the table it announced and has not been told to free
    link,        \* "up", "reset", or "closed" by the terminal
    asked,       \* request the terminal has not served
    wire,        \* pieces of its answer the client has not received
    wl10,        \* self.wl10
    saved,       \* saved_wl10: self.wl10 when the call began
    configured,  \* ghost: self.wl10 as the caller set it
    wide,        \* records too long to be taken for the short layouts
    op,          \* the call: its table, "sizes", or "none"
    pc,          \* the answer that is awaited
    tab,         \* table being read
    counts,      \* self.users, self.fingers, self.records
    total,       \* size announced
    start,       \* offset of the chunk being read
    tries,       \* attempt at that chunk
    data,        \* parts joined so far
    result,      \* what the call returned
    lo,          \* ghost: records in the table when the call began
    trouble,     \* ghost: what may have touched the call: nothing, a loss or
                 \* refusal, or an answer without its payload
    calls, growth, faults

terminal == <<mem, buffer>>
conn   == <<link, asked, wire>>
reader == <<tab, counts, total, start, tries, data>>
bounds == <<calls, growth, faults>>
nvars  == <<terminal, conn, wl10, saved, configured, wide, op, pc, reader, result, lo,
            trouble, bounds>>

Kinds == {"users", "templates", "log"}
Upto(a, b) == [i \in 1..(b - a) |-> a + i]      \* records a+1 .. b
NoReq    == [cmd |-> "none", tab |-> "none", from |-> 0, size |-> 0]
NoBuffer == [tab |-> "none", n |-> 0]
Nothing  == [k |-> "none", data |-> <<>>]
Misread  == <<0>>                               \* records cut at the wrong length

Request(c, t, f, s) == [cmd |-> c, tab |-> t, from |-> f, size |-> s]

-----------------------------------------------------------------------------
(* The terminal: an external partner that serves one request at a time.    *)

\* A bulk answer: in one piece, or a head and what the raw receive loop gets.
Bulk(recs) ==
    {<<[k |-> "data", part |-> recs, more |-> FALSE]>>}
      \cup {<<[k |-> "data", part |-> SubSeq(recs, 1, i), more |-> TRUE],
              [k |-> "rest", part |-> SubSeq(recs, i + 1, Len(recs)), more |-> FALSE]>> :
                i \in 0..(Len(recs) - 1)}
Short(k) == <<[k |-> k, part |-> <<>>, more |-> FALSE]>>

Serve ==
    /\ link = "up" /\ asked # NoReq
    /\ asked' = NoReq
    /\ \/ /\ asked.cmd = "sizes"
          /\ wire' = <<[k |-> "sizes", part |-> mem, more |-> FALSE]>>
          /\ UNCHANGED buffer
       \/ /\ asked.cmd = "table"
          /\ wire' \in Bulk(Upto(0, mem[asked.tab]))
          /\ UNCHANGED buffer
       \/ /\ asked.cmd = "table"
          /\ buffer' = [tab |-> asked.tab, n |-> mem[asked.tab]]
          /\ wire' = <<[k |-> "announce", part |-> mem[asked.tab], more |-> FALSE]>>
       \/ /\ asked.cmd = "chunk"
          /\ wire' \in Bulk(Upto(asked.from, asked.from + asked.size))
          /\ UNCHANGED buffer
       \/ /\ asked.cmd = "free"
          /\ buffer' = NoBuffer
          /\ wire' = Short("ok")
    /\ UNCHANGED <<mem, link, wl10, saved, configured, wide, op, pc, reader, result, lo,
                   trouble, bounds>>

\* Punches and enrolments, at any time.
Grow ==
    /\ growth < MaxGrowth
    /\ \E t \in Kinds :
        /\ mem[t] < MaxRecs
        /\ mem' = [mem EXCEPT ![t] = @ + 1]
    /\ growth' = growth + 1
    /\ UNCHANGED <<buffer, conn, wl10, saved, configured, wide, op, pc, reader, result, lo,
                   trouble, calls, faults>>

\* A request is refused, answered without its payload, or never answered; a
\* connection is reset, or closed after some pieces arrived.
Worse(t) == IF trouble = "curt" THEN "curt" ELSE t

Fault ==
    /\ faults < MaxFaults
    /\ link = "up"
    /\ \/ /\ asked # NoReq
          /\ wire' \in {Short("refused"), <<>>}
          /\ trouble' = Worse("lost")
          /\ link' = "up"
       \/ /\ asked # NoReq
          /\ wire' \in {Short("ok"), Short("bare")}
          /\ trouble' = "curt"
          /\ link' = "up"
       \/ /\ link' = "reset" /\ wire' = <<>>
          /\ trouble' = Worse("lost")
       \/ /\ link' = "closed"
          /\ \E i \in 0..Len(wire) : wire' = SubSeq(wire, 1, i)
          /\ trouble' = Worse("lost")
    /\ asked' = NoReq
    /\ faults' = faults + 1
    /\ UNCHANGED <<terminal, wl10, saved, configured, wide, op, pc, reader, result, lo,
                   calls, growth>>

-----------------------------------------------------------------------------
(* How calls end and go on.                                                *)

\* Sends a request of __send_command; a connection that is gone swallows it.
Ask(next, req) ==
    /\ pc' = next
    /\ asked' = IF link = "up" THEN req ELSE NoReq

Return(k, recs) ==
    /\ pc' = "idle"
    /\ asked' = NoReq
    /\ result' = [k |-> k, data |-> recs]

\* An exception nobody catches: self.wl10 stays as it is.
Raise == Return("error", <<>>) /\ UNCHANGED <<wl10, tab, start, tries, data, total>>

\* Fault: the mode is not put back.
RestoreForgets == wl10' = wl10
Restore == wl10' = saved

\* read_with_buffer asks for a table.
OpenTable(t) ==
    /\ Ask("table", Request("table", t, 0, 0))
    /\ tab' = t
    /\ data' = <<>>
    /\ UNCHANGED <<total, start, tries>>

\* Records parsed: cut by table size over the count of read_sizes.
Parsed(recs) ==
    IF tab = "templates" \/ wide \/ recs = <<>> \/ Len(recs) = counts[tab] THEN recs ELSE Misread

\* read_with_buffer returned recs; bare: not even the size was there.
TableRead(recs, bare) ==
    \/ /\ op = "log" /\ tab = "users"
       /\ OpenTable("log")
       /\ UNCHANGED <<wl10, result>>
    \/ /\ tab = op
       /\ Return("list", Parsed(recs))
       /\ IF op = "log" /\ ~bare THEN Restore ELSE UNCHANGED wl10
       /\ UNCHANGED <<tab, start, tries, data, total>>

\* Fault: every chunk is a full one.
ChunkSizeFull(at, size) == MaxChunk
ChunkSize(at, size) == IF size - at < MaxChunk THEN size - at ELSE MaxChunk
AskChunk(at, size) == Ask("chunk", Request("chunk", tab, at, ChunkSize(at, size)))

\* Fault: the last, shorter chunk is left out.
NextChunkWhole(at, size) ==
    /\ tries' = 1 /\ start' = at
    /\ IF at + MaxChunk <= size THEN AskChunk(at, size) ELSE Ask("free", Request("free", tab, 0, 0))

\* The next chunk of the buffer, or its release.
NextChunk(at, size) ==
    /\ tries' = 1 /\ start' = at
    /\ IF at < size THEN AskChunk(at, size) ELSE Ask("free", Request("free", tab, 0, 0))

\* __read_chunk: what was asked for is there.
ChunkRead(recs) ==
    /\ data' = data \o recs
    /\ NextChunk(start + ChunkSize(start, total), total)
    /\ UNCHANGED <<wl10, tab, total, result>>

\* __recieve_chunk returned None: asked again.
ChunkAgain ==
    /\ tries < Tries
    /\ tries' = tries + 1
    /\ AskChunk(start, total)
    /\ UNCHANGED <<wl10, tab, start, data, total, result>>

\* Fault: after the last attempt the table goes on without the chunk.
ChunkMissedSkips == ChunkAgain \/ (tries = Tries /\ ChunkRead(<<>>))

ChunkMissed == ChunkAgain \/ (tries = Tries /\ Raise)

-----------------------------------------------------------------------------
(* The calls.                                                              *)

\* A call of the WL10 family goes to the raw reads, all others ask for sizes.
Start(c) ==
    /\ pc = "idle" /\ calls < MaxCalls
    /\ op' = c
    /\ IF wl10 /\ c # "sizes"
       THEN pc' = "raw" /\ asked' = NoReq
       ELSE Ask(IF wl10 THEN "quiet" ELSE IF c = "log" THEN "probe" ELSE "sizes",
                Request("sizes", "none", 0, 0))
    /\ tab' = IF c = "log" THEN "users" ELSE c
    /\ result' = Nothing
    /\ lo' = IF c \in Kinds THEN mem[c] ELSE 0
    /\ trouble' = IF link = "up" THEN "none" ELSE "lost"
    /\ calls' = calls + 1
    /\ saved' = wl10
    /\ UNCHANGED <<terminal, link, wire, wl10, configured, wide, counts, total, start,
                   tries, data, growth, faults>>

\* wl10_get_users, wl10_get_templates, _wl10_get_attendance.  A log that is empty,
\* or none of whose records the parser keeps (deleted users, dates out of range),
\* makes get_attendance go on with the standard method.
RawRead ==
    /\ pc = "raw"
    /\ \/ /\ link = "up"
          /\ op # "log" \/ mem["log"] > 0
          /\ Return("list", Upto(0, mem[op]))
          /\ counts' = [counts EXCEPT ![op] = mem[op]]
          /\ UNCHANGED <<wl10, faults, trouble>>
       \/ /\ link = "up"
          /\ op = "log"
          /\ wl10' = FALSE
          /\ Ask("probe", Request("sizes", "none", 0, 0))
          /\ UNCHANGED <<counts, result, faults, trouble>>
       \/ /\ link # "up" \/ faults < MaxFaults
          /\ Return("error", <<>>)
          /\ faults' = IF link = "up" THEN faults + 1 ELSE faults
          /\ trouble' = "lost"
          /\ UNCHANGED <<counts, wl10>>
    /\ UNCHANGED <<terminal, link, wire, saved, configured, wide, op, tab, total, start, tries,
                   data, lo, calls, growth>>

\* What follows read_sizes in get_attendance, get_users and get_templates.
SizesRead ==
    IF pc = "probe" /\ counts'["log"] = 0 THEN
        /\ Return("list", <<>>) /\ Restore
        /\ UNCHANGED <<tab, start, tries, data, total>>
    ELSE IF pc = "probe" THEN      \* get_users, which reads the sizes again
        /\ Ask("sizes", Request("sizes", "none", 0, 0))
        /\ UNCHANGED <<wl10, tab, start, tries, data, total, result>>
    ELSE IF op = "sizes" THEN
        /\ Return("ok", <<>>)
        /\ UNCHANGED <<wl10, tab, start, tries, data, total>>
    ELSE IF counts'[tab] > 0 THEN
        OpenTable(tab) /\ UNCHANGED <<wl10, result>>
    ELSE IF op = "log" THEN
        OpenTable("log") /\ UNCHANGED <<wl10, result>>
    ELSE
        /\ Return("list", <<>>)
        /\ UNCHANGED <<wl10, tab, start, tries, data, total>>

\* _wl10_read_sizes gives way to the standard request; get_attendance answers
\* with an empty list; the others raise.
SizesFailed ==
    \/ /\ pc = "quiet"
       /\ Ask("sizes", Request("sizes", "none", 0, 0))
       /\ UNCHANGED <<wl10, tab, start, tries, data, total, result>>
    \/ /\ pc = "probe"
       /\ Return("list", <<>>) /\ Restore
       /\ UNCHANGED <<tab, start, tries, data, total>>
    \/ pc = "sizes" /\ Raise

SizePcs == {"quiet", "probe", "sizes"}

\* An answer.  A payload shorter than the fields leaves the counts of an
\* earlier call; _wl10_read_sizes takes that for a failure.
Answered(p) ==
    \/ /\ pc \in SizePcs
       /\ \/ /\ p.k = "sizes"
             /\ counts' = p.part
             /\ SizesRead
          \/ /\ p.k \in {"ok", "bare"} /\ pc # "quiet"
             /\ counts' = counts
             /\ SizesRead
          \/ /\ p.k = "refused" \/ (pc = "quiet" /\ p.k # "sizes")
             /\ counts' = counts
             /\ SizesFailed
    \/ /\ pc = "table"
       /\ counts' = counts
       /\ \/ p.k = "data" /\ ~p.more /\ TableRead(p.part, FALSE)
          \/ p.k = "bare" /\ TableRead(<<>>, TRUE)
          \/ /\ p.k = "data" /\ p.more
             /\ pc' = "rest" /\ data' = p.part
             /\ UNCHANGED <<asked, wl10, tab, total, start, tries, result>>
          \/ /\ p.k = "announce"
             /\ total' = p.part /\ data' = <<>>
             /\ NextChunk(0, p.part)
             /\ UNCHANGED <<wl10, tab, result>>
          \/ p.k \in {"refused", "ok"} /\ Raise
    \/ /\ pc = "chunk"
       /\ counts' = counts
       /\ \/ p.k = "data" /\ ~p.more /\ ChunkRead(p.part)
          \/ /\ p.k = "data" /\ p.more
             /\ pc' = "chunkRest" /\ data' = data \o p.part
             /\ UNCHANGED <<asked, wl10, tab, total, start, tries, result>>
          \/ p.k = "bare" /\ ChunkRead(<<>>)
          \/ p.k \in {"refused", "ok"} /\ ChunkMissed
    \/ /\ pc = "free"
       /\ counts' = counts
       /\ \/ p.k \in {"ok", "bare"} /\ TableRead(data, FALSE)
          \/ p.k = "refused" /\ Raise
    \/ /\ pc = "rest" /\ p.k = "rest"
       /\ counts' = counts
       /\ TableRead(data \o p.part, FALSE)
    \/ /\ pc = "chunkRest" /\ p.k = "rest"
       /\ counts' = counts
       /\ ChunkRead(p.part)

Awaiting == pc \notin {"idle", "raw"}

Recv ==
    /\ Awaiting /\ wire # <<>>
    /\ Answered(Head(wire))
    /\ wire' = Tail(wire)
    /\ UNCHANGED <<terminal, link, saved, configured, wide, op, lo, trouble, bounds>>

\* Fault: the raw receive loop takes a timeout for an empty piece.
SpinningOnSilence == pc \in {"rest", "chunkRest"} /\ wire = <<>>

\* The raw receive loop does not see the end of the stream: recv returns
\* nothing for ever.
Spinning == pc \in {"rest", "chunkRest"} /\ link = "closed" /\ wire = <<>>

\* Timeout, reset, or end of the stream.
RecvFails ==
    /\ Awaiting /\ wire = <<>> /\ asked = NoReq /\ ~Spinning
    /\ IF pc \in SizePcs THEN SizesFailed ELSE Raise
    /\ UNCHANGED <<terminal, link, wire, saved, configured, wide, op, counts, lo, trouble, bounds>>

ClientStep == RawRead \/ Recv \/ RecvFails
NInit ==
    /\ mem \in [Kinds -> 0..MaxRecs]
    /\ buffer = NoBuffer
    /\ link = "up" /\ asked = NoReq /\ wire = <<>>
    /\ wl10 \in BOOLEAN /\ saved = wl10 /\ configured = wl10
    /\ wide \in BOOLEAN
    /\ op = "none" /\ pc = "idle" /\ tab = "none"
    /\ counts = [t \in Kinds |-> 0]
    /\ total = 0 /\ start = 0 /\ tries = 1 /\ data = <<>>
    /\ result = Nothing
    /\ lo = 0 /\ trouble = "none"
    /\ calls = 0 /\ growth = 0 /\ faults = 0

NNext == (\E c \in NativeOps : Start(c)) \/ ClientStep \/ Serve \/ Grow \/ Fault

\* The client runs when it can and the terminal answers or stays silent, which
\* ends with the timeout of the socket: a served request is the fair case.
NFairness == WF_nvars(ClientStep) /\ WF_nvars(Serve)

NSpec == NInit /\ [][NNext]_nvars /\ NFairness

-----------------------------------------------------------------------------
(* What holds.                                                             *)

Records == Seq(0..MaxRecs)
NTypeOK ==
    /\ mem \in [Kinds -> 0..MaxRecs]
    /\ buffer.tab \in Kinds \cup {"none"} /\ buffer.n \in 0..MaxRecs
    /\ link \in {"up", "reset", "closed"}
    /\ asked.cmd \in {"none", "sizes", "table", "chunk", "free"}
    /\ asked.from \in 0..MaxRecs /\ asked.size \in 0..MaxChunk
    /\ Len(wire) <= 2
    /\ wl10 \in BOOLEAN /\ saved \in BOOLEAN /\ configured \in BOOLEAN /\ wide \in BOOLEAN
    /\ op \in NativeOps \cup {"none"} /\ tab \in Kinds \cup {"sizes", "none"}
    /\ pc \in SizePcs \cup {"idle", "raw", "table", "rest", "chunk", "chunkRest", "free"}
    /\ counts \in [Kinds -> 0..MaxRecs]
    /\ total \in 0..MaxRecs /\ start \in 0..MaxRecs /\ tries \in 1..Tries
    /\ data \in Records
    /\ result.k \in {"none", "ok", "list", "error"} /\ result.data \in Records
    /\ lo \in 0..MaxRecs /\ trouble \in {"none", "lost", "curt"}

\* A list is one state of the terminal's table during the call, from its first
\* to its last record, whatever grew meanwhile and wherever the table was cut
\* into chunks and pieces; or it is empty, and then the table was or a request
\* of the call failed (get_attendance answers [] when read_sizes raises).
\* Short records (8, 16, 28 bytes) need a table that does not grow between
\* read_sizes and the announcement; an answer without payload voids all this.
WholeTable ==
    pc = "idle" /\ result.k = "list" /\ trouble # "curt" =>
        \/ result.data = <<>> /\ (lo = 0 \/ trouble # "none")
        \/ \E n \in lo..mem[op] : result.data = Upto(0, n)
        \/ ~wide /\ mem[op] # lo

\* As long as nothing is lost or refused no call fails, no call leaves the
\* terminal with an announced table, and get_attendance leaves self.wl10 as it
\* found it on each of its ways out.
CleanWithoutFault ==
    pc = "idle" /\ faults = 0 =>
        result.k # "error" /\ buffer = NoBuffer /\ wl10 = configured

\* Every call comes back, unless the terminal closes the connection in the
\* middle of a bulk answer (__recieve_raw_data).
NativeReturns ==
    (pc # "idle") ~> (pc = "idle" \/ (pc \in {"rest", "chunkRest"} /\ link = "closed"))

-----------------------------------------------------------------------------
(* What does not hold.                                                     *)

\* The review of the library says that every path of get_attendance restores
\* saved_wl10, exceptions included.  An exception of get_users or of
\* read_with_buffer, and a table without its size, leave it cleared: all later
\* calls of a WL10 terminal go to the standard method.
ModeRestored == pc = "idle" => wl10 = configured
=============================================================================
