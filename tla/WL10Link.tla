------------------------------ MODULE WL10Link ------------------------------
(***************************************************************************)
(* The WL10 terminal and the TCP connection to it, as the client in        *)
(* src/pyzk_wl10/zk/base.py sees them.                                     *)
(*                                                                         *)
(* The terminal is not in the repository: it is modelled from what the     *)
(* client relies on.  It serves one request at a time, in the order in     *)
(* which they were sent.  A table read is answered by three frames:        *)
(* CMD_PREPARE_DATA with an 8-byte payload, CMD_DATA with a section size   *)
(* and the records, and a terminal CMD_ACK_OK; everything else by one      *)
(* acknowledgement, which is a 16-byte frame.                              *)
(*                                                                         *)
(* The byte stream towards the client is a sequence of pieces, cut where   *)
(* the client's reads can cut it:                                          *)
(*    ok, err   a whole acknowledgement frame (16 bytes)                   *)
(*    prep      a whole CMD_PREPARE_DATA frame (24 bytes)                  *)
(*    dhead     the first 16 bytes of a CMD_DATA frame                     *)
(*    body      the rest of it: section size and records                   *)
(*    half      8 bytes that a misaligned read left of a frame             *)
(* Reply ids are left out: the client copies the echoed id into its next   *)
(* request and never compares it with anything.                            *)
(***************************************************************************)
EXTENDS Integers, Sequences, FiniteSets

CONSTANTS
    Uids,        \* user slots of the terminal (1..1000 in the code)
    Vals,        \* what a slot can hold: every field of a user record as one
    NoVal,       \* an empty slot
    UserSize,    \* WL10_USER_RECORD_SIZE
    AttSize,     \* WL10_ATT_RECORD_SIZE
    Timely,      \* TRUE: no read times out while an answer is on its way
    Paths,       \* path kinds explored: "clear" or "narrow" (PMTUD blackhole)
    MaxFaults,   \* bound: broken connections, refusals and unanswered requests
    MaxEnrol     \* bound: fingerprints enrolled at the terminal itself

ASSUME NoValAssumption == NoVal \notin Vals
ASSUME UidsAssumption == IsFiniteSet(Uids)
ASSUME SizeAssumption == UserSize \in Nat \ {0} /\ AttSize \in Nat \ {0}
ASSUME BoundAssumption == MaxFaults \in Nat /\ MaxEnrol \in Nat
ASSUME TimelyAssumption == Timely \in BOOLEAN
ASSUME PathAssumption == Paths \subseteq {"clear", "narrow"}

VARIABLES
    dev,     \* the terminal's memory
    toDev,   \* requests sent and not yet served
    devOut,  \* pieces the terminal has written and the network still carries
    toCli,   \* pieces waiting in the client's socket
    conn,    \* the TCP connection: "up" or "dead"
    path,    \* "clear", or "narrow": full-size segments never arrive
    mss,     \* TRUE when the socket was opened with tcp_maxseg
    fate,    \* ghost: what became of the current call's mutating request
    callNo,  \* number of calls made so far (only the bound and the ghost use it)
    faults,  \* faults injected so far
    enrols   \* enrolments made so far

linkVars == <<dev, toDev, devOut, toCli, conn, path, mss, fate, callNo, faults, enrols>>

-----------------------------------------------------------------------------
Reads     == {"users", "attendance"}
Mutations == {"set", "delete", "reboot"}
Requests  == Reads \cup Mutations \cup {"free", "refresh"}

\* A slot is a user, a fingerprint template slot or a nameless sidecar record.
\* gen is a ghost: it counts the changes, so that two snapshots can be ordered.
Memory == [users : [Uids -> Vals \cup {NoVal}], tpl : SUBSET Uids,
           side : SUBSET Uids, log : Nat, gen : Nat]

Request == [cmd : Requests, uid : Uids \cup {0}, val : Vals \cup {NoVal}, call : Nat]

Piece == [k : {"ok", "err", "prep", "dhead", "half"}]
            \cup [k : {"body"}, cmd : Reads, tab : Memory]

Fates == {"unsent", "sent", "applied", "refused"}

P(kind) == [k |-> kind]
Ack(ok) == <<P(IF ok THEN "ok" ELSE "err")>>
IsAck(p) == p.k \in {"ok", "err"}

LinkTypeOK ==
    /\ dev \in Memory
    /\ toDev \in Seq(Request)
    /\ devOut \in Seq(Piece)
    /\ toCli \in Seq(Piece)
    /\ conn \in {"up", "dead"}
    /\ path \in {"clear", "narrow"}
    /\ mss \in BOOLEAN
    /\ fate \in Fates
    /\ callNo \in Nat
    /\ faults \in Nat
    /\ enrols \in Nat

-----------------------------------------------------------------------------
(* The client's socket calls, as operators on the pieces in the socket.    *)

\* What recv(16) leaves behind: it takes one header, wherever the stream is.
DropEight(q) ==
    CASE q = <<>>                   -> <<>>
      [] q # <<>> /\ q[1].k = "prep" -> <<P("half"), P("half")>> \o Tail(q)
      [] q # <<>> /\ q[1].k = "body" -> q
      [] q # <<>> /\ q[1].k = "half" -> Tail(q)
      [] OTHER                      -> <<P("half")>> \o Tail(q)

AfterRecv16(q) ==
    CASE q[1].k = "prep" -> <<P("half")>> \o Tail(q)
      [] q[1].k = "half" -> DropEight(Tail(q))
      [] q[1].k = "body" -> q
      [] OTHER           -> Tail(q)

\* __send_command accepts the 16 bytes as an answer and sees a good status.
Recv16Status(q) == q[1].k \in {"ok", "prep", "dhead"}

\* A dead connection: the request may also vanish without an error.
SendTo(req) ==
    IF conn = "up" THEN toDev' = Append(toDev, req) ELSE toDev' = toDev

\* A full-size segment does not cross a narrow path unless the MSS is lowered.
Stuck == path = "narrow" /\ ~mss /\ devOut # <<>> /\ Head(devOut).k = "body"

Coming == conn = "up" /\ (toDev # <<>> \/ devOut # <<>>) /\ ~Stuck

\* When a read with nothing in the socket may run into its timeout.
MayTimeOut == toCli = <<>> /\ (Timely => ~Coming)

-----------------------------------------------------------------------------
(* The terminal.                                                           *)

Snapshot(cmd) ==
    <<P("prep"), P("dhead"), [k |-> "body", cmd |-> cmd, tab |-> dev], P("ok")>>

Reply(pieces) == devOut' = IF conn = "up" THEN devOut \o pieces ELSE devOut

Applied(req) ==
    CASE req.cmd = "set" ->
            [dev EXCEPT !.users[req.uid] = req.val, !.tpl = @ \ {req.uid},
                        !.side = @ \ {req.uid}, !.gen = @ + 1]
      [] req.cmd = "delete" ->
            [dev EXCEPT !.users[req.uid] = NoVal, !.tpl = @ \ {req.uid},
                        !.side = @ \ {req.uid}, !.gen = @ + 1]
      [] OTHER -> dev

SetFate(req, f) ==
    fate' = IF req.cmd \in Mutations /\ req.call = callNo THEN f ELSE fate

\* The terminal serves the oldest request and answers it.
Serve ==
    /\ toDev # <<>>
    /\ LET req == Head(toDev) IN
       /\ req.cmd # "reboot"
       /\ dev' = Applied(req)
       /\ Reply(IF req.cmd \in Reads THEN Snapshot(req.cmd) ELSE Ack(TRUE))
       /\ SetFate(req, "applied")
    /\ toDev' = Tail(toDev)
    /\ UNCHANGED <<toCli, conn, path, mss, callNo, faults, enrols>>

\* It restarts: the connection dies, with or without the acknowledgement out.
ServeReboot ==
    /\ toDev # <<>>
    /\ LET req == Head(toDev) IN
       /\ req.cmd = "reboot"
       /\ SetFate(req, "applied")
    /\ \/ toCli' = toCli
       \/ conn = "up" /\ ~Stuck /\ toCli' = toCli \o devOut \o Ack(TRUE)
    /\ conn' = "dead"
    /\ toDev' = <<>>
    /\ devOut' = <<>>
    /\ UNCHANGED <<dev, path, mss, callNo, faults, enrols>>

Fault == faults < MaxFaults /\ faults' = faults + 1

\* It answers ACK_ERROR and changes nothing (out-of-step reply id, busy buffer).
Refuse ==
    /\ Fault
    /\ toDev # <<>>
    /\ Reply(Ack(FALSE))
    /\ SetFate(Head(toDev), "refused")
    /\ toDev' = Tail(toDev)
    /\ UNCHANGED <<dev, toCli, conn, path, mss, callNo, enrols>>

\* It serves the request and never answers.
ServeMute ==
    /\ Fault
    /\ toDev # <<>>
    /\ Head(toDev).cmd # "reboot"
    /\ dev' = Applied(Head(toDev))
    /\ SetFate(Head(toDev), "applied")
    /\ toDev' = Tail(toDev)
    /\ UNCHANGED <<devOut, toCli, conn, path, mss, callNo, enrols>>

\* A fingerprint is enrolled at the terminal and takes a free slot.
Enrol(u) ==
    /\ enrols < MaxEnrol
    /\ enrols' = enrols + 1
    /\ dev.users[u] = NoVal /\ u \notin dev.tpl \cup dev.side
    /\ dev' = [dev EXCEPT !.tpl = @ \cup {u}, !.gen = @ + 1]
    /\ UNCHANGED <<toDev, devOut, toCli, conn, path, mss, fate, callNo, faults>>

-----------------------------------------------------------------------------
(* The network.                                                            *)

\* A segment reaches the client's socket: TCP keeps the order and may cut anywhere.
Deliver(n) ==
    /\ conn = "up"
    /\ ~Stuck
    /\ n \in 1..Len(devOut)
    /\ path = "narrow" /\ ~mss => \A i \in 1..n : devOut[i].k # "body"
    /\ toCli' = toCli \o SubSeq(devOut, 1, n)
    /\ devOut' = SubSeq(devOut, n + 1, Len(devOut))
    /\ UNCHANGED <<dev, toDev, conn, path, mss, fate, callNo, faults, enrols>>

\* The connection dies: what is in flight is lost, requests from some point on.
Break ==
    /\ Fault
    /\ conn = "up"
    /\ conn' = "dead"
    /\ \E n \in 0..Len(toDev) : toDev' = SubSeq(toDev, 1, n)
    /\ toCli' \in {toCli, <<>>}
    /\ devOut' = <<>>
    /\ UNCHANGED <<dev, path, mss, fate, callNo, enrols>>

Outside ==
    \/ Serve
    \/ ServeReboot
    \/ Refuse
    \/ ServeMute
    \/ Break
    \/ \E n \in 1..Len(devOut) : Deliver(n)
    \/ \E u \in Uids : Enrol(u)

LinkInit ==
    /\ dev \in {m \in [users : [Uids -> Vals \cup {NoVal}], tpl : SUBSET Uids,
                       side : SUBSET Uids, log : {1}, gen : {0}] :
                  /\ m.tpl \cap m.side = {}
                  /\ \A u \in m.tpl \cup m.side : m.users[u] = NoVal}
    /\ toDev = <<>>
    /\ devOut = <<>>
    /\ toCli = <<>>
    /\ conn = "up"
    /\ path \in Paths
    /\ fate = "unsent"
    /\ callNo = 0
    /\ faults = 0
    /\ enrols = 0
=============================================================================
