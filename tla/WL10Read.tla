------------------------------ MODULE WL10Read ------------------------------
(***************************************************************************)
(* The resilient table reads of src/pyzk_wl10/zk/base.py: wl10_get_users   *)
(* and wl10_get_attendance with everything they are built from, which is   *)
(* the raw command with its three sends, the drain that ends on a terminal *)
(* acknowledgement or on silence, the completeness gate, CMD_FREE_DATA     *)
(* between attempts, and the recovery that reconnects with a small MSS.    *)
(*                                                                         *)
(* Operators commented "Fault:" are wrong variants of the definition after *)
(* them, which the runs use to show that a property can fail.              *)
(***************************************************************************)
EXTENDS WL10Link

CONSTANTS
    RawAttempts,   \* sends per raw command (3 in the code)
    Attempts,      \* bulk reads per table (3)
    Cycles,        \* recovery cycles (3)
    ExplicitMss,   \* TRUE: the caller set tcp_maxseg itself
    ReadOps,       \* which read calls a run makes
    MaxCalls       \* bound on the calls of a run

ASSUME AttemptsAssumption ==
    /\ RawAttempts \in Nat \ {0} /\ Attempts \in Nat \ {0} /\ Cycles \in Nat \ {0}
    /\ ExplicitMss \in BOOLEAN
    /\ ReadOps \subseteq Reads \cup {"connect"}
    /\ MaxCalls \in Nat

VARIABLES
    op,          \* the call in progress: command, slot, value
    pc,          \* where the client is
    rd,          \* the table being read
    phase,       \* "normal" attempts, or "recovery" cycles
    tries,       \* attempt or cycle number
    raws,        \* send number within the raw command
    got,         \* pieces drained so far
    lastAck,     \* _wl10_last_ack is set
    sawAck,      \* saw_ack
    maxseg,      \* tcp_maxseg is set
    isConnect,   \* is_connect
    timeout,     \* __timeout: the caller's own, or clamped to 5 s
    sockTimeout, \* the timeout of the socket itself
    table,       \* last parsed user table and last accepted attendance log
    result,      \* outcome of the last call
    start        \* ghost: the terminal's change count when the call began

readVars == <<op, pc, rd, phase, tries, raws, got, lastAck, sawAck, maxseg,
              isConnect, timeout, sockTimeout, table, result, start>>
vars == <<linkVars, readVars>>

Call == [cmd : Requests \cup {"connect", "none"}, uid : Uids \cup {0},
         val : Vals \cup {NoVal}]
NoCall == [cmd |-> "none", uid |-> 0, val |-> NoVal]
Req(c) == [cmd |-> c, uid |-> op.uid, val |-> op.val, call |-> callNo]

ReadPcs == {"idle", "raw", "drain", "free", "freeAck", "reconnect", "parsed", "failed"}
Clamps  == {"own", "clamped"}
Bodies  == [k : {"body"}, cmd : Reads, tab : Memory]
Tables  == {t \in Seq(Bodies) : Len(t) <= 1}

-----------------------------------------------------------------------------
(* What the client makes of the pieces it drained.                         *)

\* Fault: the drain ends with the data frame.
EndsAtData(q) == \E i \in DOMAIN q : q[i].k = "body"

HasAck(q) == \E i \in DOMAIN q : IsAck(q[i])

\* Payloads survive extraction only behind their own frame header.
Whole(q) ==
    LET headed(i) == q[i].k = "body" /\ i > 1 /\ q[i - 1].k = "dhead"
    IN  {i \in DOMAIN q : q[i].k = "prep" \/ headed(i)}

Records(cmd, m) ==
    IF cmd = "users"
    THEN UserSize * Cardinality({u \in Uids : m.users[u] # NoVal} \cup m.tpl \cup m.side)
    ELSE AttSize * m.log

RecordSize(cmd) == IF cmd = "users" THEN UserSize ELSE AttSize

\* The length threshold of 8 bytes: only an empty section alone stays below it.
BigEnough(q) ==
    /\ Whole(q) # {}
    /\ \A i \in DOMAIN q : Whole(q) = {i} /\ q[i].k = "body" =>
                                Records(q[i].cmd, q[i].tab) > 0

\* Fault: whatever was extracted is parsed.
GateSkipped(q, j, cmd) == j \in Whole(q)

\* Fault: the gate compares lengths only.
GateLengthOnly(q, j, cmd) ==
    q[j].k = "body" /\ \E i \in 1..(j - 1) : q[i].k = "prep" /\ Whole(q) = {i, j}

\* The section header at offset 8 accounts for every byte after it, and the
\* section is a whole number of records of the table that was asked for.
Complete(q, j, cmd) ==
    /\ q[j].k = "body"
    /\ \E i \in 1..(j - 1) : q[i].k = "prep" /\ Whole(q) = {i, j}
    /\ Records(q[j].cmd, q[j].tab) % RecordSize(cmd) = 0

-----------------------------------------------------------------------------
(* Starting a table read: shared by every call that needs one.             *)

BeginTable(cmd, first) ==
    /\ rd' = cmd
    /\ phase' = "normal"
    /\ tries' = 1
    /\ raws' = 1
    /\ sawAck' = FALSE
    /\ pc' = first

NewCall(c) ==
    /\ pc = "idle" /\ callNo < MaxCalls
    /\ callNo' = callNo + 1
    /\ fate' = "unsent"
    /\ start' = dev.gen
    /\ op' = c

\* Fault: a table read by an earlier call is returned again.
StartReadCached(cmd) ==
    /\ cmd \in ReadOps \cap Reads
    /\ NewCall([NoCall EXCEPT !.cmd = cmd])
    /\ BeginTable("users", IF table["users"] # <<>> THEN "parsed" ELSE "raw")
    /\ result' = "none"
    /\ got' = <<>>
    /\ UNCHANGED <<dev, toDev, devOut, toCli, conn, path, mss, faults, enrols,
                   lastAck, maxseg, isConnect, timeout, sockTimeout, table>>

StartRead(cmd) ==
    /\ cmd \in ReadOps \cap Reads
    /\ NewCall([NoCall EXCEPT !.cmd = cmd])
    /\ BeginTable("users", "raw")
    /\ result' = "none"
    /\ got' = <<>>
    /\ UNCHANGED <<dev, toDev, devOut, toCli, conn, path, mss, faults, enrols,
                   lastAck, maxseg, isConnect, timeout, sockTimeout, table>>

\* The caller reconnects by hand; the handshake has a module of its own.  A
\* retried handshake leaves the clamped timeout on the socket, and one that
\* fails leaves is_connect as it was.
Connect(up) ==
    /\ "connect" \in ReadOps
    /\ NewCall([NoCall EXCEPT !.cmd = "connect"])
    /\ toDev' = <<>> /\ devOut' = <<>> /\ toCli' = <<>>
    /\ conn' = IF up THEN "up" ELSE "dead"
    /\ mss' = maxseg
    /\ isConnect' = (up \/ isConnect)
    /\ sockTimeout' \in {timeout, "clamped"}
    /\ result' = IF up THEN "ok" ELSE "error"
    /\ UNCHANGED <<dev, path, enrols, pc, rd, phase, tries, raws, got,
                   lastAck, sawAck, maxseg, timeout, table>>

ConnectSucceeds == Connect(TRUE) /\ UNCHANGED faults
ConnectFails    == Connect(FALSE) /\ Fault

-----------------------------------------------------------------------------
(* Leaving one bulk read with the pieces q, and whether an ACK was seen.    *)

\* Fault: a recovery cycle that fails leaves the clamp in place.
NextCycleClamped ==
    /\ timeout' = timeout
    /\ IF tries < Cycles THEN tries' = tries + 1 /\ pc' = "reconnect"
                         ELSE tries' = tries /\ pc' = "failed"
    /\ UNCHANGED <<phase, raws>>

NextCycle ==
    /\ timeout' = "own"
    /\ IF tries < Cycles THEN tries' = tries + 1 /\ pc' = "reconnect"
                         ELSE tries' = tries /\ pc' = "failed"
    /\ UNCHANGED <<phase, raws>>

\* Fault: the attempts are not counted.
NextAttemptForever(saw) ==
    pc' = "free" /\ UNCHANGED <<phase, tries, raws>>

NextAttempt(saw) ==
    \/ /\ tries < Attempts
       /\ tries' = tries + 1 /\ pc' = "free"
       /\ UNCHANGED <<phase, raws>>
    \/ /\ tries = Attempts /\ ~saw /\ ~maxseg
       /\ phase' = "recovery" /\ tries' = 1 /\ pc' = "reconnect"
       /\ UNCHANGED raws
    \/ /\ tries = Attempts /\ (saw \/ maxseg)
       /\ pc' = "failed"
       /\ UNCHANGED <<phase, tries, raws>>

BulkDone(q, acked) ==
    /\ lastAck' = acked
    /\ got' = <<>>
    /\ \/ \E j \in DOMAIN q :
             /\ Complete(q, j, rd)
             /\ pc' = "parsed"
             /\ table' = [table EXCEPT ![rd] = <<q[j]>>]
             /\ timeout' = "own"
             /\ UNCHANGED <<phase, tries, raws, sawAck>>
       \/ /\ \A j \in DOMAIN q : ~Complete(q, j, rd)
          /\ phase = "normal"
          /\ sawAck' = (sawAck \/ acked)
          /\ NextAttempt(sawAck \/ acked)
          /\ UNCHANGED <<timeout, table>>
       \/ /\ \A j \in DOMAIN q : ~Complete(q, j, rd)
          /\ phase = "recovery"
          /\ NextCycle
          /\ UNCHANGED <<sawAck, table>>

-----------------------------------------------------------------------------
(* _wl10_read_raw_command.                                                 *)

RawSend ==
    /\ pc = "raw"
    /\ SendTo(Req(rd))
    /\ pc' = "drain"
    /\ got' = <<>>
    /\ lastAck' = FALSE
    /\ sockTimeout' = "clamped"
    /\ UNCHANGED <<dev, devOut, toCli, conn, path, mss, fate, callNo, faults, enrols,
                   op, rd, phase, tries, raws, sawAck, maxseg, isConnect, timeout,
                   table, result, start>>

RawSendError ==
    /\ pc = "raw"
    /\ conn = "dead"
    /\ BulkDone(<<>>, FALSE)
    /\ UNCHANGED <<linkVars, op, rd, maxseg, isConnect, sockTimeout, result, start>>

\* recv(65536) takes everything in the socket; a terminal ACK ends the drain.
DrainRecv ==
    /\ pc = "drain"
    /\ toCli # <<>>
    /\ toCli' = <<>>
    /\ LET all == got \o toCli IN
       \/ /\ HasAck(all)
          /\ BulkDone(all, TRUE)
          /\ sockTimeout' = timeout
       \/ /\ ~HasAck(all)
          /\ got' = all
          /\ UNCHANGED <<pc, phase, tries, raws, lastAck, sawAck, timeout,
                         sockTimeout, table>>
    /\ UNCHANGED <<dev, toDev, devOut, conn, path, mss, fate, callNo, faults, enrols,
                   op, rd, maxseg, isConnect, result, start>>

\* Fault: the first chunk is not waited for.
DrainImpatient ==
    /\ pc = "drain"
    /\ toCli = <<>>
    /\ sockTimeout' = timeout
    /\ \/ /\ ~BigEnough(got) /\ raws < RawAttempts
          /\ raws' = raws + 1 /\ pc' = "raw" /\ got' = <<>>
          /\ UNCHANGED <<phase, tries, lastAck, sawAck, timeout, table>>
       \/ /\ BigEnough(got) \/ raws = RawAttempts
          /\ BulkDone(IF BigEnough(got) THEN got ELSE <<>>, FALSE)
    /\ UNCHANGED <<linkVars, op, rd, maxseg, isConnect, result, start>>

\* Silence, a closed socket or a socket error ends the drain without an ACK.
DrainQuiet ==
    /\ pc = "drain"
    /\ MayTimeOut
    /\ sockTimeout' = timeout
    /\ \/ /\ ~BigEnough(got) /\ raws < RawAttempts
          /\ raws' = raws + 1 /\ pc' = "raw" /\ got' = <<>>
          /\ UNCHANGED <<phase, tries, lastAck, sawAck, timeout, table>>
       \/ /\ BigEnough(got) \/ raws = RawAttempts
          /\ BulkDone(IF BigEnough(got) THEN got ELSE <<>>, FALSE)
    /\ UNCHANGED <<linkVars, op, rd, maxseg, isConnect, result, start>>

-----------------------------------------------------------------------------
(* free_data through __send_command: its first recv takes 16 bytes of      *)
(* whatever the stream holds.                                              *)

FreeDone(ok) ==
    \/ /\ ok \/ phase = "normal"
       /\ pc' = "raw" /\ raws' = 1
       /\ UNCHANGED <<phase, tries, timeout>>
    \/ /\ ~ok /\ phase = "recovery"
       /\ NextCycle

FreeSend ==
    /\ pc = "free"
    /\ isConnect
    /\ SendTo(Req("free"))
    /\ pc' = "freeAck"
    /\ UNCHANGED <<dev, devOut, toCli, conn, path, mss, fate, callNo, faults, enrols,
                   op, rd, phase, tries, raws, got, lastAck, sawAck, maxseg,
                   isConnect, timeout, sockTimeout, table, result, start>>

FreeSendError ==
    /\ pc = "free"
    /\ ~isConnect \/ conn = "dead"
    /\ FreeDone(FALSE)
    /\ UNCHANGED <<linkVars, op, rd, got, lastAck, sawAck, maxseg, isConnect,
                   sockTimeout, table, result, start>>

FreeRecv ==
    /\ pc = "freeAck"
    /\ toCli # <<>>
    /\ toCli' = AfterRecv16(toCli)
    /\ FreeDone(Recv16Status(toCli))
    /\ UNCHANGED <<dev, toDev, devOut, conn, path, mss, fate, callNo, faults, enrols,
                   op, rd, got, lastAck, sawAck, maxseg, isConnect, sockTimeout,
                   table, result, start>>

FreeQuiet ==
    /\ pc = "freeAck"
    /\ MayTimeOut
    /\ FreeDone(FALSE)
    /\ UNCHANGED <<linkVars, op, rd, got, lastAck, sawAck, maxseg, isConnect,
                   sockTimeout, table, result, start>>

-----------------------------------------------------------------------------
(* Recovery: a new connection with a small MSS, clamped timeouts.          *)

\* Fault: the new socket is opened without the small MSS.
NewSocketFullMss(up) ==
    /\ toDev' = <<>> /\ devOut' = <<>> /\ toCli' = <<>>
    /\ conn' = IF up THEN "up" ELSE "dead"
    /\ mss' = mss
    /\ isConnect' = up
    /\ maxseg' = TRUE
    /\ sockTimeout' = "clamped"

NewSocket(up) ==
    /\ toDev' = <<>> /\ devOut' = <<>> /\ toCli' = <<>>
    /\ conn' = IF up THEN "up" ELSE "dead"
    /\ mss' = TRUE
    /\ isConnect' = up
    /\ maxseg' = TRUE
    /\ sockTimeout' = "clamped"

Reconnect ==
    /\ pc = "reconnect"
    /\ NewSocket(TRUE)
    /\ timeout' = "clamped"
    /\ pc' = "free"
    /\ UNCHANGED <<dev, path, fate, callNo, faults, enrols, op, rd, phase, tries,
                   raws, got, lastAck, sawAck, table, result, start>>

ReconnectFails ==
    /\ pc = "reconnect"
    /\ Fault
    /\ NewSocket(FALSE)
    /\ NextCycle
    /\ UNCHANGED <<dev, path, fate, callNo, enrols, op, rd, got, lastAck, sawAck,
                   table, result, start>>

-----------------------------------------------------------------------------
(* Returning to the caller.                                                *)

Return(r) ==
    /\ pc' = "idle"
    /\ result' = r

ReadReturns ==
    /\ pc = "parsed"
    /\ op.cmd = rd
    /\ Return("ok")
    /\ UNCHANGED <<linkVars, op, rd, phase, tries, raws, got, lastAck, sawAck, maxseg,
                   isConnect, timeout, sockTimeout, table, start>>

\* _wl10_get_attendance frees the device before each attempt, the first included.
AttendanceNext ==
    /\ pc = "parsed"
    /\ op.cmd = "attendance" /\ rd = "users"
    /\ BeginTable("attendance", "free")
    /\ UNCHANGED <<linkVars, op, got, lastAck, maxseg, isConnect, timeout,
                   sockTimeout, table, result, start>>

ReadFails ==
    /\ pc = "failed"
    /\ op.cmd \in Reads
    /\ Return("error")
    /\ UNCHANGED <<linkVars, op, rd, phase, tries, raws, got, lastAck, sawAck, maxseg,
                   isConnect, timeout, sockTimeout, table, start>>

TableSteps ==
    \/ RawSend \/ RawSendError \/ DrainRecv \/ DrainQuiet
    \/ FreeSend \/ FreeSendError \/ FreeRecv \/ FreeQuiet
    \/ Reconnect \/ ReconnectFails

ReadSteps == TableSteps \/ ReadReturns \/ AttendanceNext \/ ReadFails

Calls == (\E cmd \in ReadOps \cap Reads : StartRead(cmd)) \/ ConnectSucceeds \/ ConnectFails

Env == Outside /\ UNCHANGED readVars

Init ==
    /\ LinkInit
    /\ op = NoCall
    /\ pc = "idle"
    /\ rd = "users"
    /\ phase = "normal"
    /\ tries = 1
    /\ raws = 1
    /\ got = <<>>
    /\ lastAck = FALSE
    /\ sawAck = FALSE
    /\ maxseg = ExplicitMss
    /\ isConnect = TRUE
    /\ timeout = "own"
    /\ sockTimeout = "own"
    /\ table = [c \in Reads |-> <<>>]
    /\ result = "none"
    /\ mss = ExplicitMss
    /\ start = 0

Next == Calls \/ ReadSteps \/ Env

\* The client is a running program and the terminal and the network make
\* progress; faults, enrolments and new calls need not happen.
Fairness ==
    /\ WF_vars(ReadSteps)
    /\ WF_vars(Serve /\ UNCHANGED readVars)
    /\ WF_vars((\E n \in 1..Len(devOut) : Deliver(n)) /\ UNCHANGED readVars)

Spec == Init /\ [][Next]_vars
FairSpec == Spec /\ Fairness

-----------------------------------------------------------------------------
(* Properties.                                                             *)

ReadTypeOK ==
    /\ LinkTypeOK
    /\ op \in Call
    /\ rd \in Reads
    /\ phase \in {"normal", "recovery"}
    /\ tries \in Nat \ {0} /\ raws \in Nat \ {0}
    /\ got \in Seq(Piece)
    /\ lastAck \in BOOLEAN /\ sawAck \in BOOLEAN /\ maxseg \in BOOLEAN /\ isConnect \in BOOLEAN
    /\ timeout \in Clamps /\ sockTimeout \in Clamps
    /\ table \in [Reads -> Tables]
    /\ start \in Nat

\* A table the client accepts was taken by the terminal during the call that
\* returns it, never left over from an earlier one.
FreshTable ==
    pc = "parsed" => table[rd][1].tab.gen >= start

\* The completeness gate never takes the user table for the attendance log or
\* the other way round.
RightTable ==
    \A c \in Reads : table[c] # <<>> => table[c][1].cmd = c

\* A read that succeeded leaves nothing of its answers behind for the next
\* command to trip over.
CleanAfterRead ==
    pc = "parsed" => toDev = <<>> /\ devOut = <<>> /\ toCli = <<>>

\* The retries and the MSS recovery together outlast any single adversity: a
\* read fails only after two of them (a narrow path, a fault).
ReadsSurviveOneFault ==
    pc = "failed" => faults + (IF path = "narrow" THEN 1 ELSE 0) > 1

\* On a clear path without faults the reconnection with a small MSS is never
\* tried ("LAN devices that drain cleanly never reach this path").
NoNeedlessRecovery ==
    path = "clear" /\ faults = 0 /\ ~ExplicitMss => ~maxseg

\* The clamp on __timeout never outlives the recovery that set it.
TimeoutRestored ==
    pc \in {"idle", "parsed", "failed"} => timeout = "own"

\* Every call comes back to its caller.
CallReturns ==
    pc # "idle" ~> pc = "idle"

-----------------------------------------------------------------------------
(* What the repository says and the code does not keep: TLC refutes these. *)

\* The socket's own timeout is the caller's again once a call has returned
\* ("the original timeout is restored afterwards", _wl10_reconnect).
SocketTimeoutRestored ==
    pc = "idle" => sockTimeout = timeout

\* A read that never saw an acknowledgement gives up only after the MSS
\* recovery, unless the caller opted out with a tcp_maxseg of its own
\* ("the caller did not opt out via an explicit tcp_maxseg", _wl10_get_users).
RecoveryUnlessOptedOut ==
    pc = "failed" /\ ~sawAck /\ ~ExplicitMss => phase = "recovery"
=============================================================================
