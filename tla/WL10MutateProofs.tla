-------------------------- MODULE WL10MutateProofs --------------------------
(***************************************************************************)
(* Proofs about WL10Mutate, and so about the link and the reads under it.  *)
(***************************************************************************)
EXTENDS WL10Mutate, SequenceTheorems, TLAPS

\* Cutting a sequence anywhere gives sequences over the same set.
LEMMA SubSeqType ==
    ASSUME NEW S, NEW q \in Seq(S), NEW n \in 0..Len(q)
    PROVE  SubSeq(q, 1, n) \in Seq(S) /\ SubSeq(q, n + 1, Len(q)) \in Seq(S)
<1>1. Len(q) \in Nat /\ \A i \in 1..Len(q) : q[i] \in S
  BY LenProperties, ElementOfSeq
<1>2. (\A i \in 1..n : q[i] \in S) /\ (\A i \in n + 1..Len(q) : q[i] \in S)
  BY <1>1
<1>3. QED
  BY <1>1, <1>2, SubSeqProperties

\* What recv(16) leaves of a stream of pieces is a stream of pieces.
LEMMA Recv16Type ==
    ASSUME NEW q \in Seq(Piece), q # <<>>
    PROVE  AfterRecv16(q) \in Seq(Piece)
<1>1. P("half") \in Piece
  BY DEF P, Piece
<1>2. <<P("half")>> \in Seq(Piece) /\ <<P("half"), P("half")>> \in Seq(Piece)
  BY <1>1
<1>3. ASSUME NEW r \in Seq(Piece)
      PROVE  /\ <<P("half")>> \o r \in Seq(Piece)
             /\ <<P("half"), P("half")>> \o r \in Seq(Piece)
  BY <1>2, ConcatProperties
<1>4. Tail(q) \in Seq(Piece)
  BY HeadTailProperties
<1>5. ASSUME NEW r \in Seq(Piece) PROVE DropEight(r) \in Seq(Piece)
  <2>1. CASE r = <<>>
    BY <2>1 DEF DropEight
  <2>2. CASE r # <<>>
    <3>1. Tail(r) \in Seq(Piece)
      BY <2>2, HeadTailProperties
    <3>2. /\ <<P("half")>> \o Tail(r) \in Seq(Piece)
          /\ <<P("half"), P("half")>> \o Tail(r) \in Seq(Piece)
      BY <1>3, <3>1
    <3>3. \/ DropEight(r) = <<P("half"), P("half")>> \o Tail(r)
          \/ DropEight(r) = r
          \/ DropEight(r) = Tail(r)
          \/ DropEight(r) = <<P("half")>> \o Tail(r)
      BY <2>2 DEF DropEight
    <3>4. QED
      BY <3>1, <3>2, <3>3
  <2>3. QED
    BY <2>1, <2>2
<1>6. \/ AfterRecv16(q) = <<P("half")>> \o Tail(q)
      \/ AfterRecv16(q) = DropEight(Tail(q))
      \/ AfterRecv16(q) = q
      \/ AfterRecv16(q) = Tail(q)
  BY DEF AfterRecv16
<1>7. QED
  BY <1>3, <1>4, <1>5, <1>6

\* A request changes the terminal's memory into a memory.
LEMMA AppliedType ==
    ASSUME dev \in Memory, NEW req \in Request
    PROVE  Applied(req) \in Memory
<1>1. /\ dev.users \in [Uids -> Vals \cup {NoVal}]
      /\ dev.tpl \in SUBSET Uids /\ dev.side \in SUBSET Uids
      /\ dev.log \in Nat /\ dev.gen \in Nat
      /\ dev = [users |-> dev.users, tpl |-> dev.tpl, side |-> dev.side,
                log |-> dev.log, gen |-> dev.gen]
  BY DEF Memory
<1>2. req.val \in Vals \cup {NoVal}
  BY DEF Request
<1>3. CASE req.cmd = "set"
  <2>1. Applied(req) = [users |-> [dev.users EXCEPT ![req.uid] = req.val],
                        tpl |-> dev.tpl \ {req.uid}, side |-> dev.side \ {req.uid},
                        log |-> dev.log, gen |-> dev.gen + 1]
    BY <1>1, <1>3 DEF Applied
  <2>2. [dev.users EXCEPT ![req.uid] = req.val] \in [Uids -> Vals \cup {NoVal}]
    BY <1>1, <1>2
  <2>3. QED
    BY <1>1, <2>1, <2>2 DEF Memory
<1>4. CASE req.cmd = "delete"
  <2>1. Applied(req) = [users |-> [dev.users EXCEPT ![req.uid] = NoVal],
                        tpl |-> dev.tpl \ {req.uid}, side |-> dev.side \ {req.uid},
                        log |-> dev.log, gen |-> dev.gen + 1]
    BY <1>1, <1>4 DEF Applied
  <2>2. [dev.users EXCEPT ![req.uid] = NoVal] \in [Uids -> Vals \cup {NoVal}]
    BY <1>1
  <2>3. QED
    BY <1>1, <2>1, <2>2 DEF Memory
<1>5. CASE req.cmd \notin {"set", "delete"}
  BY <1>5 DEF Applied
<1>6. QED
  BY <1>3, <1>4, <1>5

LEMMA SnapshotType ==
    ASSUME dev \in Memory, NEW cmd \in Reads
    PROVE  Snapshot(cmd) \in Seq(Piece)
<1>1. [k |-> "body", cmd |-> cmd, tab |-> dev] \in Piece
  BY DEF Piece
<1>2. P("prep") \in Piece /\ P("dhead") \in Piece /\ P("ok") \in Piece
  BY DEF P, Piece
<1>3. QED
  BY <1>1, <1>2 DEF Snapshot

LEMMA AckType == ASSUME NEW ok \in BOOLEAN PROVE Ack(ok) \in Seq(Piece)
<1>1. P("ok") \in Piece /\ P("err") \in Piece
  BY DEF P, Piece
<1>2. QED
  BY <1>1 DEF Ack

-----------------------------------------------------------------------------
(* Type correctness: the terminal and the network.                         *)

LEMMA OutsideType ==
    ASSUME LinkTypeOK, Outside
    PROVE  LinkTypeOK'
<1> USE DEF LinkTypeOK
<1>1. CASE Serve
  <2> DEFINE req == Head(toDev)
  <2>1. toDev # <<>> /\ req \in Request /\ Tail(toDev) \in Seq(Request)
    BY <1>1 DEF Serve
  <2>2. dev' \in Memory
    BY <1>1, <2>1, AppliedType DEF Serve
  <2>3. devOut' \in Seq(Piece)
    <3>1. Ack(TRUE) \in Seq(Piece)
      BY AckType
    <3>2. req.cmd \in Reads => Snapshot(req.cmd) \in Seq(Piece)
      BY SnapshotType
    <3>3. /\ devOut \o Ack(TRUE) \in Seq(Piece)
          /\ req.cmd \in Reads => devOut \o Snapshot(req.cmd) \in Seq(Piece)
      BY <3>1, <3>2, ConcatProperties
    <3>4. QED
      BY <1>1, <3>3 DEF Serve, Reply
  <2>4. fate' \in Fates
    BY <1>1 DEF Serve, SetFate, Fates
  <2>5. QED
    BY <1>1, <2>1, <2>2, <2>3, <2>4 DEF Serve
<1>2. CASE ServeReboot
  <2>1. toCli' \in Seq(Piece)
    <3>1. devOut \o Ack(TRUE) \in Seq(Piece) /\ toCli \o devOut \in Seq(Piece)
      BY AckType, ConcatProperties
    <3>2. (toCli \o devOut) \o Ack(TRUE) \in Seq(Piece)
      BY <3>1, AckType, ConcatProperties
    <3>3. QED
      BY <1>2, <3>2 DEF ServeReboot
  <2>2. fate' \in Fates
    BY <1>2 DEF ServeReboot, SetFate, Fates
  <2>3. QED
    BY <1>2, <2>1, <2>2 DEF ServeReboot
<1>3. CASE Refuse
  <2>1. devOut' \in Seq(Piece)
    <3>1. devOut \o Ack(FALSE) \in Seq(Piece)
      BY AckType, ConcatProperties
    <3>2. QED
      BY <1>3, <3>1 DEF Refuse, Reply
  <2>2. fate' \in Fates
    BY <1>3 DEF Refuse, SetFate, Fates
  <2>3. toDev' \in Seq(Request)
    BY <1>3 DEF Refuse
  <2>4. QED
    BY <1>3, <2>1, <2>2, <2>3 DEF Refuse, Fault
<1>4. CASE ServeMute
  <2>1. Head(toDev) \in Request /\ toDev' \in Seq(Request)
    BY <1>4 DEF ServeMute
  <2>2. dev' \in Memory
    BY <1>4, <2>1, AppliedType DEF ServeMute
  <2>3. fate' \in Fates
    BY <1>4 DEF ServeMute, SetFate, Fates
  <2>4. faults' \in Nat
    BY <1>4 DEF ServeMute, Fault
  <2>5. QED
    BY <1>4, <2>1, <2>2, <2>3, <2>4 DEF ServeMute
<1>5. CASE Break
  <2>1. toDev' \in Seq(Request)
    <3>1. PICK n \in 0..Len(toDev) : toDev' = SubSeq(toDev, 1, n)
      BY <1>5 DEF Break
    <3>2. QED
      BY <3>1, SubSeqType
  <2>2. toCli' \in Seq(Piece) /\ devOut' \in Seq(Piece)
    <3>1. (toCli' = toCli \/ toCli' = <<>>) /\ devOut' = <<>>
      BY <1>5 DEF Break
    <3>2. <<>> \in Seq(Piece)
      OBVIOUS
    <3>3. QED
      BY <3>1, <3>2
  <2>3. faults' \in Nat
    BY <1>5 DEF Break, Fault
  <2>4. QED
    BY <1>5, <2>1, <2>2, <2>3 DEF Break
<1>6. CASE \E n \in 1..Len(devOut) : Deliver(n)
  <2>1. PICK n \in 1..Len(devOut) : Deliver(n)
    BY <1>6
  <2>2. SubSeq(devOut, 1, n) \in Seq(Piece) /\ SubSeq(devOut, n + 1, Len(devOut)) \in Seq(Piece)
    BY SubSeqType
  <2>3. toCli \o SubSeq(devOut, 1, n) \in Seq(Piece)
    BY <2>2, ConcatProperties
  <2>4. QED
    BY <2>1, <2>2, <2>3 DEF Deliver
<1>7. CASE \E u \in Uids : Enrol(u)
  <2>1. PICK u \in Uids : Enrol(u)
    BY <1>7
  <2>2. dev' = [dev EXCEPT !.tpl = dev.tpl \cup {u}, !.gen = dev.gen + 1]
    BY <2>1 DEF Enrol
  <2>3. dev' \in Memory
    <3>1. dev' = [users |-> dev.users, tpl |-> dev.tpl \cup {u}, side |-> dev.side,
                  log |-> dev.log, gen |-> dev.gen + 1]
      BY <2>2 DEF Memory
    <3>2. QED
      BY <3>1 DEF Memory
  <2>4. enrols' \in Nat
    BY <2>1 DEF Enrol
  <2>5. QED
    BY <2>1, <2>3, <2>4 DEF Enrol
<1>8. QED
  BY <1>1, <1>2, <1>3, <1>4, <1>5, <1>6, <1>7 DEF Outside

-----------------------------------------------------------------------------
(* Type correctness: the client.                                           *)

\* The part of the read state that leaving a bulk read can set.
BulkTyped(q) ==
    /\ lastAck' \in BOOLEAN
    /\ got' \in Seq(Piece)
    /\ pc' \in {"parsed", "free", "reconnect", "failed"}
    /\ table' \in [Reads -> Tables]
    /\ timeout' \in Clamps
    /\ phase' \in {"normal", "recovery"}
    /\ tries' \in Nat \ {0} /\ raws' \in Nat \ {0}
    /\ sawAck' \in BOOLEAN

LEMMA BodyType ==
    ASSUME NEW p \in Piece, p.k = "body"
    PROVE  p \in Bodies /\ <<p>> \in Tables
<1>1. p \in Bodies
  BY DEF Piece, Bodies
<1>2. <<p>> \in Seq(Bodies) /\ Len(<<p>>) = 1
  BY <1>1
<1>3. QED
  BY <1>1, <1>2 DEF Tables

LEMMA BulkDoneType ==
    ASSUME ReadTypeOK, NEW q \in Seq(Piece), NEW acked \in BOOLEAN, BulkDone(q, acked)
    PROVE  BulkTyped(q)
<1> USE DEF ReadTypeOK, BulkTyped
<1>1. lastAck' \in BOOLEAN /\ got' \in Seq(Piece)
  BY DEF BulkDone
<1>2. CASE \E j \in DOMAIN q : /\ Complete(q, j, rd)
                              /\ pc' = "parsed"
                              /\ table' = [table EXCEPT ![rd] = <<q[j]>>]
                              /\ timeout' = "own"
                              /\ UNCHANGED <<phase, tries, raws, sawAck>>
  <2>1. PICK j \in DOMAIN q : Complete(q, j, rd) /\ table' = [table EXCEPT ![rd] = <<q[j]>>]
    BY <1>2
  <2>2. q[j] \in Piece /\ q[j].k = "body"
    BY <2>1 DEF Complete
  <2>3. <<q[j]>> \in Tables
    BY <2>2, BodyType
  <2>4. table' \in [Reads -> Tables]
    BY <2>1, <2>3
  <2>5. QED
    BY <1>1, <1>2, <2>4 DEF Clamps
<1>3. CASE /\ phase = "normal"
           /\ sawAck' = (sawAck \/ acked)
           /\ NextAttempt(sawAck \/ acked)
           /\ UNCHANGED <<timeout, table>>
  BY <1>1, <1>3 DEF NextAttempt
<1>4. CASE /\ phase = "recovery"
           /\ NextCycle
           /\ UNCHANGED <<sawAck, table>>
  BY <1>1, <1>4 DEF NextCycle, Clamps
<1>5. QED
  BY <1>2, <1>3, <1>4 DEF BulkDone

LEMMA SendType ==
    ASSUME toDev \in Seq(Request), op \in Call, callNo \in Nat,
           NEW cmd \in Requests, SendTo(Req(cmd))
    PROVE  toDev' \in Seq(Request)
<1>1. Req(cmd) \in Request
  BY DEF Req, Request, Call
<1>2. Append(toDev, Req(cmd)) \in Seq(Request)
  BY <1>1, AppendProperties
<1>3. QED
  BY <1>2 DEF SendTo

\* The steps of a table read keep every variable in its type.
LEMMA TableStepType ==
    ASSUME ReadTypeOK, TableSteps
    PROVE  ReadTypeOK' /\ pc' \in ReadPcs /\ result' = result
<1> USE DEF ReadTypeOK, LinkTypeOK, linkVars, ReadPcs
<1>e. /\ <<>> \in Seq(Piece) /\ <<>> \in Seq(Request)
      /\ Reads \subseteq Requests /\ "free" \in Requests
  BY DEF Requests
<1>1. CASE RawSend
  <2>1. toDev' \in Seq(Request)
    BY <1>1, <1>e, SendType DEF RawSend
  <2>2. QED
    BY <1>1, <1>e, <2>1 DEF RawSend, Clamps
<1>2. CASE RawSendError
  <2>1. BulkTyped(<<>>)
    BY <1>2, <1>e, BulkDoneType DEF RawSendError
  <2>2. QED
    BY <1>2, <2>1 DEF RawSendError, BulkTyped
<1>3. CASE DrainRecv
  <2>1. got \o toCli \in Seq(Piece)
    BY ConcatProperties
  <2>2. CASE HasAck(got \o toCli)
    <3>1. BulkTyped(got \o toCli)
      BY <1>3, <2>1, <2>2, BulkDoneType DEF DrainRecv
    <3>2. QED
      BY <1>3, <1>e, <2>2, <3>1 DEF DrainRecv, BulkTyped
  <2>3. CASE ~HasAck(got \o toCli)
    BY <1>3, <1>e, <2>1, <2>3 DEF DrainRecv
  <2>4. QED
    BY <2>2, <2>3
<1>4. CASE DrainQuiet
  <2>1. CASE ~BigEnough(got) /\ raws' = raws + 1 /\ pc' = "raw" /\ got' = <<>>
             /\ UNCHANGED <<phase, tries, lastAck, sawAck, timeout, table>>
    BY <1>4, <1>e, <2>1 DEF DrainQuiet
  <2>2. CASE BulkDone(IF BigEnough(got) THEN got ELSE <<>>, FALSE)
    <3>1. BulkTyped(IF BigEnough(got) THEN got ELSE <<>>)
      BY <2>2, <1>e, BulkDoneType
    <3>2. QED
      BY <1>4, <3>1 DEF DrainQuiet, BulkTyped
  <2>3. QED
    BY <1>4, <2>1, <2>2 DEF DrainQuiet
<1>5. CASE FreeSend
  <2>1. toDev' \in Seq(Request)
    BY <1>5, <1>e, SendType DEF FreeSend
  <2>2. QED
    BY <1>5, <2>1 DEF FreeSend
<1>6. CASE FreeSendError
  BY <1>6 DEF FreeSendError, FreeDone, NextCycle, Clamps
<1>7. CASE FreeRecv
  <2>1. toCli' \in Seq(Piece)
    BY <1>7, Recv16Type DEF FreeRecv
  <2>2. QED
    BY <1>7, <2>1 DEF FreeRecv, FreeDone, NextCycle, Clamps
<1>8. CASE FreeQuiet
  BY <1>8 DEF FreeQuiet, FreeDone, NextCycle, Clamps
<1>9. CASE Reconnect
  BY <1>9, <1>e DEF Reconnect, NewSocket, Clamps
<1>10. CASE ReconnectFails
  <2>1. faults' \in Nat
    BY <1>10 DEF ReconnectFails, Fault
  <2>2. tries' \in Nat \ {0} /\ pc' \in ReadPcs /\ timeout' \in Clamps
        /\ raws' = raws /\ phase' = phase
    BY <1>10 DEF ReconnectFails, NextCycle, Clamps
  <2>3. /\ toDev' \in Seq(Request) /\ devOut' \in Seq(Piece) /\ toCli' \in Seq(Piece)
        /\ conn' \in {"up", "dead"} /\ mss' \in BOOLEAN /\ isConnect' \in BOOLEAN
        /\ maxseg' \in BOOLEAN /\ sockTimeout' \in Clamps
    BY <1>10, <1>e DEF ReconnectFails, NewSocket, Clamps
  <2>4. QED
    BY <1>10, <2>1, <2>2, <2>3 DEF ReconnectFails
<1>11. QED
  BY <1>1, <1>2, <1>3, <1>4, <1>5, <1>6, <1>7, <1>8, <1>9, <1>10 DEF TableSteps

\* Beginning a table read.
BeganTable(first) ==
    /\ rd' \in Reads
    /\ phase' \in {"normal", "recovery"}
    /\ tries' \in Nat \ {0} /\ raws' \in Nat \ {0}
    /\ sawAck' \in BOOLEAN
    /\ pc' = first

LEMMA BeganTableType ==
    ASSUME NEW cmd \in Reads, NEW first, BeginTable(cmd, first)
    PROVE  BeganTable(first)
<1>1. 1 \in Nat \ {0}
  OBVIOUS
<1>2. sawAck' \in BOOLEAN
  BY DEF BeginTable
<1>3. QED
  BY <1>1, <1>2 DEF BeginTable, BeganTable

\* A new call, the returns of a read and the other steps of one.
LEMMA ReadCallType ==
    ASSUME MTypeOK, UNCHANGED mutVars, Calls
    PROVE  MTypeOK'
<1> USE DEF MTypeOK, ReadTypeOK, LinkTypeOK, mutVars, ReadPcs, MutatePcs, Results, Clamps
<1>e. <<>> \in Seq(Piece) /\ <<>> \in Seq(Request)
  OBVIOUS
<1>1. ASSUME NEW cmd \in ReadOps \cap Reads, StartRead(cmd)
      PROVE  MTypeOK'
  <2>1. [NoCall EXCEPT !.cmd = cmd] \in Call
    BY DEF NoCall, Call, Requests
  <2>2. op' \in Call /\ callNo' \in Nat /\ start' \in Nat /\ fate' \in Fates
    BY <1>1, <2>1 DEF StartRead, NewCall, Fates, Memory
  <2>3. BeganTable("raw")
    BY <1>1, BeganTableType DEF StartRead, Reads
  <2>4. QED
    BY <1>1, <1>e, <2>2, <2>3 DEF StartRead, BeganTable
<1>2. ASSUME NEW up \in BOOLEAN, Connect(up), faults' \in Nat
      PROVE  MTypeOK'
  <2>1. [NoCall EXCEPT !.cmd = "connect"] \in Call
    BY DEF NoCall, Call
  <2>2. op' \in Call /\ callNo' \in Nat /\ start' \in Nat /\ fate' \in Fates
    BY <1>2, <2>1 DEF Connect, NewCall, Fates, Memory
  <2>3. /\ toDev' \in Seq(Request) /\ devOut' \in Seq(Piece) /\ toCli' \in Seq(Piece)
        /\ conn' \in {"up", "dead"} /\ mss' \in BOOLEAN /\ isConnect' \in BOOLEAN
        /\ sockTimeout' \in Clamps /\ result' \in Results
    BY <1>2, <1>e DEF Connect
  <2>4. QED
    BY <1>2, <2>2, <2>3 DEF Connect
<1>3. CASE ConnectSucceeds
  BY <1>2, <1>3 DEF ConnectSucceeds
<1>4. CASE ConnectFails
  <2>1. faults' \in Nat
    BY <1>4 DEF ConnectFails, Fault
  <2>2. QED
    BY <1>2, <1>4, <2>1 DEF ConnectFails
<1>5. QED
  BY <1>1, <1>3, <1>4 DEF Calls

LEMMA ReadEndType ==
    ASSUME MTypeOK, UNCHANGED mutVars, ReadReturns \/ AttendanceNext \/ ReadFails
    PROVE  MTypeOK'
<1> USE DEF MTypeOK, ReadTypeOK, LinkTypeOK, linkVars, mutVars, ReadPcs, MutatePcs, Results
<1>1. CASE ReadReturns
  BY <1>1 DEF ReadReturns, Return
<1>2. CASE AttendanceNext
  <2>1. BeganTable("free")
    BY <1>2, BeganTableType DEF AttendanceNext, Reads
  <2>2. QED
    BY <1>2, <2>1 DEF AttendanceNext, BeganTable
<1>3. CASE ReadFails
  BY <1>3 DEF ReadFails, Return
<1>4. QED
  BY <1>1, <1>2, <1>3

LEMMA ArgumentsType ==
    ASSUME NEW cmd \in Mutations, NEW c \in Arguments(cmd)
    PROVE  c \in Call /\ c.cmd = cmd
<1>1. cmd \in Requests
  BY DEF Requests
<1>2. CASE cmd = "set"
  <2>1. c \in [cmd : {cmd}, uid : Uids, val : Vals]
    BY <1>2 DEF Arguments
  <2>2. QED
    BY <1>1, <2>1 DEF Call
<1>3. CASE cmd = "delete"
  <2>1. c \in [cmd : {cmd}, uid : Uids, val : {NoVal}] \cup [cmd : {cmd}, uid : {0}, val : Vals]
    BY <1>3 DEF Arguments
  <2>2. QED
    BY <1>1, <2>1 DEF Call
<1>4. CASE cmd = "reboot"
  <2>1. c = [NoCall EXCEPT !.cmd = cmd]
    BY <1>4 DEF Arguments
  <2>2. QED
    BY <1>1, <2>1 DEF Call, NoCall
<1>5. QED
  BY <1>2, <1>3, <1>4 DEF Mutations

LEMMA MutationCallType ==
    ASSUME MTypeOK, MutationCalls
    PROVE  MTypeOK'
<1> USE DEF MTypeOK, ReadTypeOK, LinkTypeOK, ReadPcs, SendPcs, AckPcs, MutatePcs, Results
<1>1. PICK cmd \in MutateOps : \E c \in Arguments(cmd) : StartMutation(c)
  BY DEF MutationCalls
<1>2. PICK c \in Arguments(cmd) : StartMutation(c)
  BY <1>1
<1>3. op' \in Call
  BY <1>2, ArgumentsType, MutateOpsAssumption DEF StartMutation, NewCall
<1>4. callNo' \in Nat /\ start' \in Nat /\ fate' \in Fates
  BY <1>2 DEF StartMutation, NewCall, Fates, Memory
<1>5. /\ stage' \in {"preflight", "verify"} /\ sent' \in Nat
      /\ result' \in Results /\ got' \in Seq(Piece)
  BY <1>2 DEF StartMutation
<1>6. BeganTable("raw") \/ BeganTable("refresh")
  <2>1. CASE BeginTable("users", "raw")
    BY <2>1, BeganTableType DEF Reads
  <2>2. CASE pc' = "refresh" /\ UNCHANGED <<rd, phase, tries, raws, sawAck>>
    BY <2>2 DEF BeganTable
  <2>3. QED
    BY <1>2, <2>1, <2>2 DEF StartMutation
<1>7. QED
  BY <1>2, <1>3, <1>4, <1>5, <1>6 DEF StartMutation, BeganTable

\* A mutation is under way whenever the client is past its preflight.
MutatingOp == pc \in SendPcs \cup AckPcs => op.cmd \in Mutations

\* The steps of a mutation outside its table reads.
LEMMA MutateStepType ==
    ASSUME MTypeOK, MutatingOp, MutateSteps
    PROVE  MTypeOK'
<1> USE DEF MTypeOK, ReadTypeOK, LinkTypeOK, linkVars, mutVars,
            ReadPcs, SendPcs, AckPcs, MutatePcs, Results, Clamps
<1>e. /\ <<>> \in Seq(Piece)
      /\ Mutations \subseteq Requests /\ "refresh" \in Requests
  BY DEF Requests
<1>p. ASSUME NEW u \in Uids \cup {0}, Proceed(u)
      PROVE  op' \in Call /\ pc' \in MutatePcs /\ result' \in Results
  BY <1>p DEF Proceed, Call
<1>d. ASSUME NEW r \in Results, Decline(r)
      PROVE  op' \in Call /\ pc' \in MutatePcs /\ result' \in Results
  BY <1>d DEF Decline, Return
<1>a. ASSUME NEW next \in AckPcs, AwaitAck(next),
             toDev' \in Seq(Request), fate' \in Fates, sent' \in Nat
      PROVE  MTypeOK'
  BY <1>a, <1>e DEF AwaitAck
<1>1. CASE PreflightSet
  <2>1. op.uid \in Uids \cup {0}
    BY DEF Call
  <2>2. op' \in Call /\ pc' \in MutatePcs /\ result' \in Results
    BY <1>1, <1>p, <1>d, <2>1 DEF PreflightSet
  <2>3. QED
    BY <1>1, <2>2 DEF PreflightSet
<1>2. CASE PreflightDelete
  <2>1. op' \in Call /\ pc' \in MutatePcs /\ result' \in Results
    BY <1>2, <1>p, <1>d DEF PreflightDelete, Matches
  <2>2. QED
    BY <1>2, <2>1 DEF PreflightDelete
<1>3. CASE TableReadFails
  BY <1>3 DEF TableReadFails, Return
<1>4. CASE RefreshSend
  <2>1. toDev' \in Seq(Request)
    BY <1>4, <1>e, SendType DEF RefreshSend
  <2>2. QED
    BY <1>4, <1>a, <2>1 DEF RefreshSend
<1>5. CASE WriteSend
  <2>1. toDev' \in Seq(Request)
    BY <1>5, <1>e, SendType DEF WriteSend, MutatingOp
  <2>2. fate' \in Fates /\ sent' \in Nat
    BY <1>5 DEF WriteSend, Fates
  <2>3. QED
    BY <1>5, <1>a, <2>1, <2>2 DEF WriteSend
<1>6. CASE SendError
  BY <1>6 DEF SendError, Return
<1>7. CASE AckRecv
  <2>1. got \o toCli \in Seq(Piece)
    BY ConcatProperties
  <2>2. QED
    BY <1>7, <1>e, <2>1 DEF AckRecv
<1>8. CASE AckQuiet
  <2>1. PICK a \in AckValues(got) :
          \/ pc = "ackRefresh"  /\ AfterRefresh(a)
          \/ pc = "ackWrite"    /\ AfterWrite(a)
          \/ pc = "ackRefresh2" /\ AfterRefresh2
    BY <1>8 DEF AckQuiet
  <2>2. CASE AfterRefresh(a)
    BY <1>8, <1>e, <2>2 DEF AckQuiet, AfterRefresh, Return
  <2>3. CASE AfterWrite(a)
    <3>1. CASE BeginTable("users", "raw") /\ stage' = "verify" /\ UNCHANGED <<result, isConnect>>
      <4>1. BeganTable("raw")
        BY <3>1, BeganTableType DEF Reads
      <4>2. QED
        BY <1>8, <1>e, <3>1, <4>1 DEF AckQuiet, BeganTable
    <3>2. CASE /\ UNCHANGED <<rd, phase, tries, raws, sawAck, stage>>
               /\ pc' \in {"refresh2", "idle"} /\ result' \in Results
               /\ isConnect' = isConnect \/ isConnect' = FALSE
      <4>1. isConnect' \in BOOLEAN
        BY <3>2
      <4>2. QED
        BY <1>8, <1>e, <3>2, <4>1 DEF AckQuiet
    <3>3. QED
      BY <2>3, <3>1, <3>2 DEF AfterWrite, Return
  <2>4. CASE AfterRefresh2
    BY <1>8, <1>e, <2>4 DEF AckQuiet, AfterRefresh2, Return
  <2>5. QED
    BY <2>1, <2>2, <2>3, <2>4
<1>9. CASE AckRaises
  BY <1>9, <1>e DEF AckRaises, Return
<1>10. CASE Verified
  BY <1>10 DEF Verified, Return
<1>11. QED
  BY <1>1, <1>2, <1>3, <1>4, <1>5, <1>6, <1>7, <1>8, <1>9, <1>10 DEF MutateSteps

-----------------------------------------------------------------------------
(* Type correctness of the whole specification.                            *)

TablePcs == ReadPcs \ {"idle"}

\* A step of a table read stays inside the table read and leaves the call alone.
LEMMA TableStepFrame ==
    ASSUME TableSteps
    PROVE  /\ pc \in TablePcs /\ pc' \in TablePcs
           /\ UNCHANGED <<dev, fate, callNo, op, rd, result, start>>
<1> USE DEF TablePcs, ReadPcs, linkVars
<1>1. ASSUME NEW q, NEW acked, BulkDone(q, acked)
      PROVE  pc' \in TablePcs
  BY <1>1 DEF BulkDone, NextAttempt, NextCycle
<1>2. ASSUME NEW ok, FreeDone(ok) PROVE pc' \in TablePcs
  BY <1>2 DEF FreeDone, NextCycle
<1>3. CASE RawSend \/ RawSendError
  BY <1>1, <1>3 DEF RawSend, RawSendError
<1>4. CASE DrainRecv
  BY <1>1, <1>4 DEF DrainRecv
<1>5. CASE DrainQuiet
  BY <1>1, <1>5 DEF DrainQuiet
<1>6. CASE FreeSend \/ FreeSendError \/ FreeRecv \/ FreeQuiet
  BY <1>2, <1>6 DEF FreeSend, FreeSendError, FreeRecv, FreeQuiet
<1>7. CASE Reconnect \/ ReconnectFails
  BY <1>7 DEF Reconnect, ReconnectFails, NextCycle
<1>8. QED
  BY <1>3, <1>4, <1>5, <1>6, <1>7 DEF TableSteps

TypeInv == MTypeOK /\ MutatingOp

LEMMA InitType == MInit => TypeInv
<1> SUFFICES ASSUME MInit PROVE TypeInv
  OBVIOUS
<1> USE DEF MInit, Init
<1>1. LinkTypeOK
  <2>1. dev \in Memory /\ path \in {"clear", "narrow"}
    BY PathAssumption DEF LinkInit, Memory
  <2>2. mss \in BOOLEAN
    BY AttemptsAssumption
  <2>3. QED
    BY <2>1, <2>2 DEF LinkInit, LinkTypeOK, Fates
<1>2. op \in Call
  BY DEF NoCall, Call
<1>3. table \in [Reads -> Tables]
  <2>1. <<>> \in Tables
    BY DEF Tables
  <2>2. QED
    BY <2>1
<1>4. /\ lastAck \in BOOLEAN /\ sawAck \in BOOLEAN /\ maxseg \in BOOLEAN
      /\ isConnect \in BOOLEAN
  BY AttemptsAssumption
<1>5. /\ tries \in Nat \ {0} /\ raws \in Nat \ {0} /\ start \in Nat
      /\ timeout \in Clamps /\ sockTimeout \in Clamps
      /\ rd \in Reads /\ phase \in {"normal", "recovery"} /\ got \in Seq(Piece)
  BY DEF Clamps, Reads
<1>6. pc \in MutatePcs /\ result \in Results /\ stage \in {"preflight", "verify"} /\ sent \in Nat
  BY DEF MutatePcs, ReadPcs, Results
<1>7. MutatingOp
  BY DEF MutatingOp, SendPcs, AckPcs
<1>8. QED
  BY <1>1, <1>2, <1>3, <1>4, <1>5, <1>6, <1>7 DEF TypeInv, MTypeOK, ReadTypeOK

LEMMA NextType ==
    ASSUME TypeInv, MNext
    PROVE  MTypeOK'
<1> USE DEF TypeInv
<1>1. CASE TableSteps /\ UNCHANGED mutVars
  <2>1. ReadTypeOK' /\ pc' \in ReadPcs /\ result' = result
    BY <1>1, TableStepType DEF MTypeOK
  <2>2. QED
    BY <1>1, <2>1 DEF MTypeOK, MutatePcs, mutVars
<1>2. CASE Calls /\ UNCHANGED mutVars
  BY <1>2, ReadCallType
<1>3. CASE (ReadReturns \/ AttendanceNext \/ ReadFails) /\ UNCHANGED mutVars
  BY <1>3, ReadEndType
<1>4. CASE Env /\ UNCHANGED mutVars
  <2>1. LinkTypeOK'
    BY <1>4, OutsideType DEF Env, MTypeOK, ReadTypeOK
  <2>2. QED
    BY <1>4, <2>1 DEF Env, readVars, mutVars, MTypeOK, ReadTypeOK
<1>5. CASE MutationCalls
  BY <1>5, MutationCallType
<1>6. CASE MutateSteps
  BY <1>6, MutateStepType
<1>7. QED
  BY <1>1, <1>2, <1>3, <1>4, <1>5, <1>6 DEF MNext, ReadPart, ReadSteps

LEMMA NextMutatingOp ==
    ASSUME TypeInv, MNext
    PROVE  MutatingOp'
<1> USE DEF TypeInv, MutatingOp, SendPcs, AckPcs
<1>1. CASE TableSteps /\ UNCHANGED mutVars
  BY <1>1, TableStepFrame DEF TablePcs, ReadPcs
<1>2. CASE Calls /\ UNCHANGED mutVars
  BY <1>2 DEF Calls, StartRead, BeginTable, ConnectSucceeds, ConnectFails, Connect, NewCall
<1>3. CASE (ReadReturns \/ AttendanceNext \/ ReadFails) /\ UNCHANGED mutVars
  BY <1>3 DEF ReadReturns, AttendanceNext, BeginTable, ReadFails, Return
<1>4. CASE Env /\ UNCHANGED mutVars
  BY <1>4 DEF Env, readVars
<1>5. CASE MutationCalls
  BY <1>5, ArgumentsType, MutateOpsAssumption DEF MutationCalls, StartMutation, NewCall
<1>6. CASE PreflightSet \/ PreflightDelete
  <2>1. op \in Call /\ op.cmd \in Mutations
    BY <1>6 DEF MTypeOK, ReadTypeOK, PreflightSet, PreflightDelete, Preflight, Mutations
  <2>2. op'.cmd = op.cmd
    BY <1>6, <2>1 DEF PreflightSet, PreflightDelete, Proceed, Decline, Call
  <2>3. QED
    BY <2>1, <2>2
<1>7. CASE RefreshSend \/ WriteSend
  BY <1>7 DEF RefreshSend, WriteSend, AwaitAck
<1>8. CASE AckRecv
  BY <1>8 DEF AckRecv
<1>9. CASE AckQuiet
  BY <1>9 DEF AckQuiet, AfterRefresh, AfterWrite, AfterRefresh2, Return, BeginTable
<1>10. CASE TableReadFails \/ SendError \/ AckRaises \/ Verified
  BY <1>10 DEF TableReadFails, SendError, AckRaises, Verified, Return
<1>11. QED
  BY <1>1, <1>2, <1>3, <1>4, <1>5, <1>6, <1>7, <1>8, <1>9, <1>10
     DEF MNext, ReadPart, ReadSteps, MutateSteps

LEMMA StutterType ==
    ASSUME TypeInv, UNCHANGED mvars
    PROVE  TypeInv'
BY DEF TypeInv, MTypeOK, ReadTypeOK, LinkTypeOK, MutatingOp, mvars, vars, linkVars, readVars, mutVars

\* Whatever the link and the terminal do, every variable keeps its type.
THEOREM TypeCorrect == MSpec => []MTypeOK
<1>1. TypeInv /\ [MNext]_mvars => TypeInv'
  BY NextType, NextMutatingOp, StutterType DEF TypeInv
<1>2. TypeInv => MTypeOK
  BY DEF TypeInv
<1>3. QED
  BY InitType, <1>1, <1>2, PTL DEF MSpec

-----------------------------------------------------------------------------
(* One write per call.                                                     *)

LEMMA NextWriteOnce ==
    ASSUME TypeInv, WriteOnce, MNext
    PROVE  WriteOnce'
<1> USE DEF WriteOnce
<1>t. sent \in Nat
  BY DEF TypeInv, MTypeOK
<1>1. CASE TableSteps /\ UNCHANGED mutVars
  BY <1>1, TableStepFrame DEF TablePcs, ReadPcs, mutVars
<1>2. CASE Calls /\ UNCHANGED mutVars
  <2>1. CASE \E cmd \in ReadOps \cap Reads : StartRead(cmd)
    <3>1. PICK cmd \in ReadOps \cap Reads : StartRead(cmd)
      BY <2>1
    <3>2. op'.cmd \notin Mutations /\ pc' = "raw"
      BY <3>1 DEF StartRead, NewCall, NoCall, BeginTable, Reads, Mutations
    <3>3. QED
      BY <1>2, <3>2 DEF mutVars
  <2>2. CASE ConnectSucceeds \/ ConnectFails
    BY <1>2, <2>2 DEF ConnectSucceeds, ConnectFails, Connect, NewCall, mutVars
  <2>3. QED
    BY <1>2, <2>1, <2>2 DEF Calls
<1>3. CASE (ReadReturns \/ AttendanceNext \/ ReadFails) /\ UNCHANGED mutVars
  BY <1>3 DEF ReadReturns, AttendanceNext, BeginTable, ReadFails, Return, Mutations, mutVars
<1>4. CASE Env /\ UNCHANGED mutVars
  BY <1>4 DEF Env, readVars, mutVars
<1>5. CASE MutationCalls
  BY <1>5 DEF MutationCalls, StartMutation
<1>6. CASE PreflightSet \/ PreflightDelete
  <2>1. sent = 0 /\ sent' = sent
    BY <1>6 DEF PreflightSet, PreflightDelete, Preflight, ReadPcs, Mutations, mutVars
  <2>2. QED
    BY <2>1
<1>7. CASE RefreshSend
  BY <1>7 DEF RefreshSend, AwaitAck, ReadPcs
<1>8. CASE WriteSend
  BY <1>8, <1>t DEF WriteSend, AwaitAck, ReadPcs
<1>9. CASE AckRecv
  BY <1>9 DEF AckRecv, mutVars
<1>10. CASE AckQuiet
  <2>1. sent' = sent
    BY <1>10 DEF AckQuiet
  <2>2. CASE pc = "ackRefresh"
    BY <1>10, <2>1, <2>2 DEF AckQuiet, AfterRefresh, Return, ReadPcs
  <2>3. CASE pc = "ackWrite"
    BY <1>10, <2>1, <2>3 DEF AckQuiet, AfterWrite, Return, BeginTable, ReadPcs
  <2>4. CASE pc = "ackRefresh2"
    BY <1>10, <2>1, <2>4 DEF AckQuiet, AfterRefresh2, Return, ReadPcs
  <2>5. QED
    BY <1>10, <2>2, <2>3, <2>4 DEF AckQuiet
<1>11. CASE TableReadFails \/ SendError \/ AckRaises \/ Verified
  BY <1>11 DEF TableReadFails, SendError, AckRaises, Verified, Return, mutVars
<1>12. QED
  BY <1>1, <1>2, <1>3, <1>4, <1>5, <1>6, <1>7, <1>8, <1>9, <1>10, <1>11
     DEF MNext, ReadPart, ReadSteps, MutateSteps

\* However the link loses, delays or breaks, and however often the reads under a
\* mutation are retried, its request leaves the client at most once.
THEOREM OneWritePerCall == MSpec => []AtMostOneWrite
<1>1. MInit => TypeInv /\ WriteOnce
  BY InitType DEF MInit, Init, WriteOnce
<1>2. TypeInv /\ WriteOnce /\ [MNext]_mvars => (TypeInv /\ WriteOnce)'
  <2>1. ASSUME TypeInv, WriteOnce, UNCHANGED mvars PROVE WriteOnce'
    BY <2>1 DEF WriteOnce, mvars, vars, readVars, mutVars
  <2>2. QED
    BY <2>1, NextType, NextMutatingOp, NextWriteOnce, StutterType DEF TypeInv
<1>3. TypeInv /\ WriteOnce => AtMostOneWrite
  BY DEF WriteOnce, AtMostOneWrite
<1>4. QED
  BY <1>1, <1>2, <1>3, PTL DEF MSpec

-----------------------------------------------------------------------------
(* Template slots are never taken.                                         *)

\* Tables that show some slots still do after the stream is joined or cut.
LEMMA ShowsConcat ==
    ASSUME NEW slots, NEW q \in Seq(Piece), NEW r \in Seq(Piece),
           Shows(q, slots), Shows(r, slots)
    PROVE  Shows(q \o r, slots)
<1>1. /\ Len(q \o r) = Len(q) + Len(r)
      /\ \A i \in 1..Len(q) + Len(r) : (q \o r)[i] = IF i <= Len(q) THEN q[i] ELSE r[i - Len(q)]
  BY ConcatProperties
<1>2. DOMAIN (q \o r) = 1..Len(q) + Len(r) /\ DOMAIN q = 1..Len(q) /\ DOMAIN r = 1..Len(r)
      /\ Len(q) \in Nat /\ Len(r) \in Nat
  BY <1>1, ConcatProperties, LenProperties
<1>3. SUFFICES ASSUME NEW i \in 1..Len(q) + Len(r), (q \o r)[i].k = "body"
               PROVE  slots \subseteq (q \o r)[i].tab.tpl
  BY <1>2 DEF Shows
<1>4. CASE i <= Len(q)
  BY <1>1, <1>2, <1>3, <1>4 DEF Shows
<1>5. CASE i > Len(q)
  <2>1. i - Len(q) \in 1..Len(r) /\ (q \o r)[i] = r[i - Len(q)]
    BY <1>1, <1>2, <1>5
  <2>2. QED
    BY <1>2, <1>3, <2>1 DEF Shows
<1>6. QED
  BY <1>2, <1>4, <1>5

LEMMA ShowsSubSeq ==
    ASSUME NEW slots, NEW q \in Seq(Piece), NEW n \in 0..Len(q), Shows(q, slots)
    PROVE  Shows(SubSeq(q, 1, n), slots) /\ Shows(SubSeq(q, n + 1, Len(q)), slots)
<1>1. Len(q) \in Nat /\ DOMAIN q = 1..Len(q)
  BY LenProperties
<1>2. ASSUME NEW a \in 1..Len(q) + 1, NEW b \in 0..Len(q), a <= b + 1
      PROVE  Shows(SubSeq(q, a, b), slots)
  <2>1. DOMAIN SubSeq(q, a, b) = 1..b - a + 1
        /\ \A i \in 1..b - a + 1 : SubSeq(q, a, b)[i] = q[a + i - 1]
    BY <1>1, <1>2
  <2>2. \A i \in 1..b - a + 1 : a + i - 1 \in 1..Len(q)
    BY <1>1, <1>2
  <2>3. QED
    BY <1>1, <2>1, <2>2 DEF Shows
<1>3. QED
  BY <1>1, <1>2

LEMMA ShowsTail ==
    ASSUME NEW slots, NEW q \in Seq(Piece), q # <<>>, Shows(q, slots)
    PROVE  Tail(q) \in Seq(Piece) /\ Shows(Tail(q), slots)
<1>1. /\ Tail(q) \in Seq(Piece) /\ Len(q) \in Nat /\ DOMAIN q = 1..Len(q)
      /\ Len(Tail(q)) = Len(q) - 1
      /\ \A i \in 1..Len(Tail(q)) : Tail(q)[i] = q[i + 1]
  BY HeadTailProperties, LenProperties
<1>2. DOMAIN Tail(q) = 1..Len(Tail(q))
  BY <1>1, LenProperties
<1>3. \A i \in 1..Len(Tail(q)) : i + 1 \in 1..Len(q)
  BY <1>1
<1>4. QED
  BY <1>1, <1>2, <1>3 DEF Shows

\* A misaligned recv(16) never makes up a table.
LEMMA Recv16Shows ==
    ASSUME NEW slots, NEW q \in Seq(Piece), q # <<>>, Shows(q, slots)
    PROVE  Shows(AfterRecv16(q), slots)
<1>1. P("half") \in Piece /\ P("half").k # "body"
  BY DEF P, Piece
<1>2. /\ <<P("half")>> \in Seq(Piece) /\ <<P("half"), P("half")>> \in Seq(Piece)
      /\ Shows(<<P("half")>>, slots) /\ Shows(<<P("half"), P("half")>>, slots)
  BY <1>1 DEF Shows
<1>3. ASSUME NEW r \in Seq(Piece), Shows(r, slots) PROVE Shows(DropEight(r), slots)
  <2>1. CASE r = <<>>
    BY <1>3, <2>1 DEF DropEight
  <2>2. CASE r # <<>>
    <3>1. Tail(r) \in Seq(Piece) /\ Shows(Tail(r), slots)
      BY <1>3, <2>2, ShowsTail
    <3>2. /\ Shows(<<P("half")>> \o Tail(r), slots)
          /\ Shows(<<P("half"), P("half")>> \o Tail(r), slots)
      BY <1>2, <3>1, ShowsConcat
    <3>3. \/ DropEight(r) = <<P("half"), P("half")>> \o Tail(r)
          \/ DropEight(r) = r
          \/ DropEight(r) = Tail(r)
          \/ DropEight(r) = <<P("half")>> \o Tail(r)
      BY <2>2 DEF DropEight
    <3>4. QED
      BY <1>3, <3>1, <3>2, <3>3
  <2>3. QED
    BY <2>1, <2>2
<1>4. Tail(q) \in Seq(Piece) /\ Shows(Tail(q), slots)
  BY ShowsTail
<1>5. Shows(<<P("half")>> \o Tail(q), slots) /\ Shows(DropEight(Tail(q)), slots)
  BY <1>2, <1>3, <1>4, ShowsConcat
<1>6. \/ AfterRecv16(q) = <<P("half")>> \o Tail(q)
      \/ AfterRecv16(q) = DropEight(Tail(q))
      \/ AfterRecv16(q) = q
      \/ AfterRecv16(q) = Tail(q)
  BY DEF AfterRecv16
<1>7. QED
  BY <1>4, <1>5, <1>6

LEMMA SparesSend ==
    ASSUME NEW slots, toDev \in Seq(Request), NEW req \in Request, Spares(toDev, slots),
           req.cmd \in {"set", "delete"} => req.uid \notin slots, SendTo(req)
    PROVE  Spares(toDev', slots)
<1>1. CASE toDev' = toDev
  BY <1>1
<1>2. CASE toDev' = Append(toDev, req)
  <2>1. /\ Len(toDev) \in Nat /\ DOMAIN toDev = 1..Len(toDev)
        /\ DOMAIN toDev' = 1..Len(toDev) + 1
        /\ \A i \in 1..Len(toDev) : toDev'[i] = toDev[i]
        /\ toDev'[Len(toDev) + 1] = req
    BY <1>2, AppendProperties, LenProperties
  <2>2. QED
    BY <2>1 DEF Spares
<1>3. QED
  BY <1>1, <1>2 DEF SendTo

LEMMA SparesTail ==
    ASSUME NEW slots, NEW q \in Seq(Request), q # <<>>, Spares(q, slots)
    PROVE  /\ Spares(Tail(q), slots)
           /\ Head(q).cmd \in {"set", "delete"} => Head(q).uid \notin slots
<1>1. /\ Len(q) \in Nat \ {0} /\ DOMAIN q = 1..Len(q)
      /\ Len(Tail(q)) = Len(q) - 1 /\ Head(q) = q[1]
      /\ \A i \in 1..Len(Tail(q)) : Tail(q)[i] = q[i + 1]
      /\ Tail(q) \in Seq(Request)
  BY HeadTailProperties, LenProperties, EmptySeq
<1>2. DOMAIN Tail(q) = 1..Len(Tail(q))
  BY <1>1, LenProperties
<1>3. \A i \in 1..Len(Tail(q)) : i + 1 \in 1..Len(q)
  BY <1>1
<1>4. QED
  BY <1>1, <1>2, <1>3 DEF Spares

LEMMA SparesSubSeq ==
    ASSUME NEW slots, NEW q \in Seq(Request), NEW n \in 0..Len(q), Spares(q, slots)
    PROVE  Spares(SubSeq(q, 1, n), slots)
<1>1. Len(q) \in Nat /\ DOMAIN q = 1..Len(q)
  BY LenProperties
<1>2. DOMAIN SubSeq(q, 1, n) = 1..n /\ \A i \in 1..n : SubSeq(q, 1, n)[i] = q[i] /\ i \in 1..Len(q)
  BY <1>1
<1>3. QED
  BY <1>1, <1>2 DEF Spares

\* With nobody enrolling, the terminal and the network keep the template slots
\* and what every table in flight shows of them.
LEMMA OutsideGuarded ==
    ASSUME LinkTypeOK, MaxEnrol = 0, Outside, Shows(devOut, dev.tpl), Shows(toCli, dev.tpl),
           Spares(toDev, dev.tpl)
    PROVE  /\ dev'.tpl = dev.tpl
           /\ Shows(devOut', dev.tpl) /\ Shows(toCli', dev.tpl) /\ Spares(toDev', dev.tpl)
<1> USE DEF LinkTypeOK
<1>1. Shows(<<>>, dev.tpl) /\ Spares(<<>>, dev.tpl)
  BY DEF Shows, Spares
<1>2. ASSUME NEW req \in Request, req.cmd \in {"set", "delete"} => req.uid \notin dev.tpl
      PROVE  Applied(req).tpl = dev.tpl
  <2>1. DOMAIN dev = {"users", "tpl", "side", "log", "gen"}
    BY DEF Memory
  <2>2. CASE req.cmd = "set"
    BY <1>2, <2>1, <2>2 DEF Applied
  <2>3. CASE req.cmd = "delete"
    BY <1>2, <2>1, <2>3 DEF Applied
  <2>4. CASE req.cmd \notin {"set", "delete"}
    BY <2>4 DEF Applied
  <2>5. QED
    BY <2>2, <2>3, <2>4
<1>3. ASSUME NEW ok \in BOOLEAN PROVE Shows(Ack(ok), dev.tpl) /\ Ack(ok) \in Seq(Piece)
  <2>1. Shows(<<P("ok")>>, dev.tpl) /\ Shows(<<P("err")>>, dev.tpl)
    BY DEF P, Shows
  <2>2. QED
    BY <2>1, AckType DEF Ack
<1>4. ASSUME NEW cmd \in Reads PROVE Shows(Snapshot(cmd), dev.tpl) /\ Snapshot(cmd) \in Seq(Piece)
  <2>1. Shows(Snapshot(cmd), dev.tpl)
    BY DEF Snapshot, P, Shows
  <2>2. QED
    BY <2>1, SnapshotType
<1>5. ASSUME NEW r \in Seq(Piece), Shows(r, dev.tpl), Reply(r) PROVE Shows(devOut', dev.tpl)
  BY <1>5, ShowsConcat DEF Reply
<1>6. ASSUME toDev # <<>>
      PROVE  /\ Head(toDev) \in Request
             /\ Head(toDev).cmd \in {"set", "delete"} => Head(toDev).uid \notin dev.tpl
             /\ Spares(Tail(toDev), dev.tpl)
  BY <1>6, SparesTail, HeadTailProperties
<1>7. CASE Serve
  <2>1. dev'.tpl = dev.tpl
    BY <1>2, <1>6, <1>7 DEF Serve
  <2>2. Shows(devOut', dev.tpl)
    BY <1>3, <1>4, <1>5, <1>7 DEF Serve
  <2>3. QED
    BY <1>6, <1>7, <2>1, <2>2 DEF Serve
<1>8. CASE ServeReboot
  <2>1. Shows((toCli \o devOut) \o Ack(TRUE), dev.tpl)
    <3>1. toCli \o devOut \in Seq(Piece) /\ Shows(toCli \o devOut, dev.tpl)
      BY ShowsConcat, ConcatProperties
    <3>2. QED
      BY <1>3, <3>1, ShowsConcat
  <2>2. QED
    BY <1>1, <1>8, <2>1 DEF ServeReboot
<1>9. CASE Refuse
  BY <1>3, <1>5, <1>6, <1>9 DEF Refuse
<1>10. CASE ServeMute
  BY <1>2, <1>6, <1>10 DEF ServeMute
<1>11. CASE Break
  <2>1. Spares(toDev', dev.tpl)
    BY <1>11, SparesSubSeq DEF Break
  <2>2. Shows(devOut', dev.tpl) /\ Shows(toCli', dev.tpl) /\ dev' = dev
    BY <1>1, <1>11 DEF Break
  <2>3. QED
    BY <2>1, <2>2
<1>12. CASE \E n \in 1..Len(devOut) : Deliver(n)
  <2>1. PICK n \in 1..Len(devOut) : Deliver(n)
    BY <1>12
  <2>2. /\ SubSeq(devOut, 1, n) \in Seq(Piece)
        /\ Shows(SubSeq(devOut, 1, n), dev.tpl)
        /\ Shows(SubSeq(devOut, n + 1, Len(devOut)), dev.tpl)
    BY SubSeqType, ShowsSubSeq
  <2>3. Shows(toCli \o SubSeq(devOut, 1, n), dev.tpl)
    BY <2>2, ShowsConcat
  <2>4. QED
    BY <2>1, <2>2, <2>3 DEF Deliver
<1>13. CASE \E u \in Uids : Enrol(u)
  BY <1>13 DEF Enrol
<1>14. QED
  BY <1>7, <1>8, <1>9, <1>10, <1>11, <1>12, <1>13 DEF Outside

\* A bulk read that ends accepts a table only out of what it drained.
LEMMA BulkDoneGuarded ==
    ASSUME NEW slots, ReadTypeOK, NEW q \in Seq(Piece), NEW acked, BulkDone(q, acked),
           Shows(q, slots), \A c \in Reads : Shows(table[c], slots)
    PROVE  /\ Shows(got', slots)
           /\ \A c \in Reads : Shows(table'[c], slots)
           /\ pc' = "parsed" => table'[rd] # <<>>
<1>1. Shows(got', slots)
  BY DEF BulkDone, Shows
<1>2. CASE \E j \in DOMAIN q : /\ Complete(q, j, rd)
                              /\ table' = [table EXCEPT ![rd] = <<q[j]>>]
  <2>1. PICK j \in DOMAIN q : Complete(q, j, rd) /\ table' = [table EXCEPT ![rd] = <<q[j]>>]
    BY <1>2
  <2>2. Shows(<<q[j]>>, slots)
    BY DEF Shows
  <2>3. DOMAIN table = Reads /\ rd \in Reads
    BY DEF ReadTypeOK
  <2>4. /\ table'[rd] = <<q[j]>>
        /\ \A c \in Reads \ {rd} : table'[c] = table[c]
    BY <2>1, <2>3
  <2>5. QED
    BY <1>1, <2>2, <2>4
<1>3. CASE table' = table /\ pc' # "parsed"
  BY <1>1, <1>3
<1>4. QED
  BY <1>2, <1>3 DEF BulkDone, NextAttempt, NextCycle

LEMMA TableStepGuarded ==
    ASSUME ReadTypeOK, SlotsGuarded, TableSteps
    PROVE  SlotsGuarded'
<1> USE DEF ReadTypeOK, LinkTypeOK
<1>f. /\ pc' \notin {"refresh", "ackRefresh", "write"}
      /\ UNCHANGED <<dev, op, rd>>
  BY TableStepFrame DEF TablePcs, ReadPcs
<1>e. Shows(<<>>, dev.tpl) /\ Spares(<<>>, dev.tpl) /\ <<>> \in Seq(Piece)
  BY DEF Shows, Spares
<1>s. ASSUME NEW cmd \in Reads \cup {"free"}, SendTo(Req(cmd)) PROVE Spares(toDev', dev.tpl)
  <2>1. Req(cmd) \in Request
    BY DEF Req, Request, Call, Requests
  <2>2. Req(cmd).cmd \notin {"set", "delete"}
    BY DEF Req, Reads
  <2>3. QED
    BY <1>s, <2>1, <2>2, SparesSend DEF SlotsGuarded
<1>q. SUFFICES /\ Shows(devOut', dev.tpl) /\ Shows(toCli', dev.tpl) /\ Shows(got', dev.tpl)
               /\ \A c \in Reads : Shows(table'[c], dev.tpl)
               /\ pc' = "parsed" => table'[rd] # <<>>
               /\ Spares(toDev', dev.tpl)
  BY <1>f DEF SlotsGuarded
<1> USE DEF SlotsGuarded
<1>1. CASE RawSend
  BY <1>1, <1>e, <1>s DEF RawSend
<1>2. CASE RawSendError
  BY <1>2, <1>e, BulkDoneGuarded DEF RawSendError, linkVars
<1>3. CASE DrainRecv
  <2>1. got \o toCli \in Seq(Piece) /\ Shows(got \o toCli, dev.tpl)
    BY ShowsConcat, ConcatProperties
  <2>2. CASE HasAck(got \o toCli)
    BY <1>3, <1>e, <2>1, <2>2, BulkDoneGuarded DEF DrainRecv
  <2>3. CASE ~HasAck(got \o toCli)
    BY <1>3, <1>e, <2>1, <2>3 DEF DrainRecv
  <2>4. QED
    BY <2>2, <2>3
<1>4. CASE DrainQuiet
  <2>1. CASE pc' = "raw" /\ got' = <<>> /\ UNCHANGED table
    BY <1>4, <1>e, <2>1 DEF DrainQuiet, linkVars
  <2>2. CASE BulkDone(IF BigEnough(got) THEN got ELSE <<>>, FALSE)
    <3>1. /\ (IF BigEnough(got) THEN got ELSE <<>>) \in Seq(Piece)
          /\ Shows(IF BigEnough(got) THEN got ELSE <<>>, dev.tpl)
      BY <1>e
    <3>2. QED
      BY <1>4, <2>2, <3>1, BulkDoneGuarded DEF DrainQuiet, linkVars
  <2>3. QED
    BY <1>4, <2>1, <2>2 DEF DrainQuiet
<1>5. CASE FreeSend
  BY <1>5, <1>s DEF FreeSend
<1>6. CASE FreeSendError \/ FreeQuiet
  BY <1>6 DEF FreeSendError, FreeQuiet, FreeDone, NextCycle, linkVars
<1>7. CASE FreeRecv
  BY <1>7, Recv16Shows DEF FreeRecv, FreeDone, NextCycle
<1>8. CASE Reconnect \/ ReconnectFails
  BY <1>8, <1>e DEF Reconnect, ReconnectFails, NewSocket, NextCycle
<1>9. QED
  BY <1>1, <1>2, <1>3, <1>4, <1>5, <1>6, <1>7, <1>8 DEF TableSteps

\* The steps of a mutation: a slot is written only after the table read in this
\* very call has shown that it is not a template slot.
LEMMA MutateStepGuarded ==
    ASSUME TypeInv, SlotsGuarded, MutateSteps
    PROVE  SlotsGuarded'
<1> USE DEF TypeInv, MTypeOK, ReadTypeOK, LinkTypeOK, SlotsGuarded, linkVars
<1>e. Shows(<<>>, dev.tpl) /\ Spares(<<>>, dev.tpl)
  BY DEF Shows, Spares
<1>1. CASE PreflightSet \/ PreflightDelete
  <2>1. table["users"] # <<>> /\ op.cmd \in {"set", "delete"} /\ pc = "parsed"
    BY <1>1 DEF PreflightSet, PreflightDelete, Preflight
  <2>2. /\ table["users"] \in Tables /\ Shows(table["users"], dev.tpl)
    BY DEF Reads
  <2>3. 1 \in DOMAIN table["users"] /\ table["users"][1].k = "body"
    <3>1. ASSUME NEW t \in Seq(Bodies), t # <<>> PROVE 1 \in DOMAIN t /\ t[1] \in Bodies
      <4>1. Len(t) \in Nat \ {0} /\ DOMAIN t = 1..Len(t)
        BY <3>1, LenProperties, EmptySeq
      <4>2. QED
        BY <4>1, ElementOfSeq
    <3>2. table["users"] \in Seq(Bodies)
      BY <2>2 DEF Tables
    <3>3. QED
      BY <2>1, <3>1, <3>2 DEF Bodies
  <2>4. dev.tpl \subseteq Parsed.tpl
    BY <2>2, <2>3 DEF Shows, Parsed
  <2>5. ASSUME NEW u, Proceed(u)
        PROVE  op'.cmd = op.cmd /\ op'.uid \notin dev.tpl /\ pc' = "refresh"
    BY <2>4, <2>5 DEF Proceed, SlotSafe, Call
  <2>6. ASSUME NEW r, Decline(r) PROVE op' = op /\ pc' = "idle"
    BY <2>6 DEF Decline, Return
  <2>7. \/ op'.cmd = op.cmd /\ op'.uid \notin dev.tpl /\ pc' = "refresh"
        \/ op' = op /\ pc' = "idle"
    BY <1>1, <2>5, <2>6 DEF PreflightSet, PreflightDelete
  <2>8. UNCHANGED <<dev, toDev, devOut, toCli, got, table, rd>>
    BY <1>1 DEF PreflightSet, PreflightDelete
  <2>9. QED
    BY <2>1, <2>7, <2>8
<1>2. CASE RefreshSend
  <2>1. Req("refresh") \in Request /\ Req("refresh").cmd = "refresh"
    BY DEF Req, Request, Call, Requests
  <2>2. Spares(toDev', dev.tpl)
    BY <1>2, <2>1, SparesSend DEF RefreshSend
  <2>3. QED
    BY <1>2, <1>e, <2>2 DEF RefreshSend, AwaitAck
<1>3. CASE WriteSend
  <2>1. Req(op.cmd) \in Request /\ Req(op.cmd).cmd = op.cmd /\ Req(op.cmd).uid = op.uid
    BY <1>3 DEF WriteSend, MutatingOp, SendPcs, Req, Request, Call, Requests
  <2>2. Spares(toDev', dev.tpl)
    BY <1>3, <2>1, SparesSend DEF WriteSend
  <2>3. QED
    BY <1>3, <1>e, <2>2 DEF WriteSend, AwaitAck
<1>4. CASE AckRecv
  <2>1. Shows(got \o toCli, dev.tpl)
    BY ShowsConcat
  <2>2. QED
    BY <1>4, <1>e, <2>1 DEF AckRecv
<1>5. CASE AckQuiet
  <2>1. /\ pc' \in {"refresh", "ackRefresh", "write"} => pc = "ackRefresh"
        /\ pc' # "parsed"
        /\ rd' \in {rd, "users"}
    BY <1>5 DEF AckQuiet, AfterRefresh, AfterWrite, AfterRefresh2, Return, BeginTable
  <2>2. QED
    BY <1>5, <1>e, <2>1 DEF AckQuiet
<1>6. CASE AckRaises
  BY <1>6, <1>e DEF AckRaises, Return
<1>7. CASE TableReadFails \/ SendError \/ Verified
  BY <1>7 DEF TableReadFails, SendError, Verified, Return
<1>8. QED
  BY <1>1, <1>2, <1>3, <1>4, <1>5, <1>6, <1>7 DEF MutateSteps

LEMMA NextSlotsGuarded ==
    ASSUME TypeInv, MaxEnrol = 0, SlotsGuarded, MNext
    PROVE  SlotsGuarded' /\ dev'.tpl = dev.tpl
<1> USE DEF SlotsGuarded
<1>e. Shows(<<>>, dev.tpl) /\ Spares(<<>>, dev.tpl)
  BY DEF Shows, Spares
<1>1. CASE TableSteps
  BY <1>1, TableStepGuarded, TableStepFrame DEF TypeInv, MTypeOK
<1>2. CASE Calls
  <2>1. CASE \E cmd \in ReadOps \cap Reads : StartRead(cmd)
    BY <1>e, <2>1 DEF StartRead, NewCall, NoCall, BeginTable, Reads
  <2>2. CASE ConnectSucceeds \/ ConnectFails
    BY <1>e, <2>2 DEF ConnectSucceeds, ConnectFails, Connect, NewCall, NoCall
  <2>3. QED
    BY <1>2, <2>1, <2>2 DEF Calls
<1>3. CASE ReadReturns \/ AttendanceNext \/ ReadFails
  BY <1>3 DEF ReadReturns, AttendanceNext, BeginTable, ReadFails, Return, Reads, linkVars
<1>4. CASE Env
  BY <1>4, OutsideGuarded DEF Env, readVars, TypeInv, MTypeOK, ReadTypeOK
<1>5. CASE MutationCalls
  <2>1. PICK cmd \in MutateOps : \E c \in Arguments(cmd) : StartMutation(c)
    BY <1>5 DEF MutationCalls
  <2>2. PICK c \in Arguments(cmd) : StartMutation(c)
    BY <2>1
  <2>3. pc' \in {"raw", "refresh"} /\ (op'.cmd \in {"set", "delete"} => rd' = "users" /\ pc' = "raw")
    BY <2>2 DEF StartMutation, NewCall, BeginTable
  <2>4. QED
    BY <1>e, <2>2, <2>3 DEF StartMutation
<1>6. CASE MutateSteps
  <2>1. dev' = dev
    BY <1>6 DEF MutateSteps, PreflightSet, PreflightDelete, TableReadFails, RefreshSend,
                WriteSend, AwaitAck, SendError, AckRecv, AckQuiet, AckRaises, Verified, linkVars
  <2>2. QED
    BY <1>6, <2>1, MutateStepGuarded
<1>7. QED
  BY <1>1, <1>2, <1>3, <1>4, <1>5, <1>6 DEF MNext, ReadPart, ReadSteps

\* When nobody enrols at the terminal, no mutation of this client ever takes a
\* fingerprint slot, on any link and with any number of calls.
THEOREM TemplatesAreKept == MSpec => TemplateSlotsKept
<1>1. CASE MaxEnrol = 0
  <2>1. MInit => TypeInv /\ SlotsGuarded
    BY InitType DEF MInit, Init, LinkInit, SlotsGuarded, Shows, Spares, NoCall
  <2>2. TypeInv /\ SlotsGuarded /\ [MNext]_mvars => (TypeInv /\ SlotsGuarded)'
    <3>1. ASSUME TypeInv, SlotsGuarded, UNCHANGED mvars PROVE SlotsGuarded'
      BY <3>1 DEF SlotsGuarded, mvars, vars, linkVars, readVars, mutVars
    <3>2. QED
      BY <1>1, <3>1, NextType, NextMutatingOp, NextSlotsGuarded, StutterType DEF TypeInv
  <2>3. TypeInv /\ SlotsGuarded /\ [MNext]_mvars
           => [MaxEnrol = 0 => dev.tpl \subseteq dev'.tpl]_mvars
    BY <1>1, NextSlotsGuarded
  <2>4. QED
    BY <2>1, <2>2, <2>3, PTL DEF MSpec, TemplateSlotsKept
<1>2. CASE MaxEnrol # 0
  <2>1. [MNext]_mvars => [MaxEnrol = 0 => dev.tpl \subseteq dev'.tpl]_mvars
    BY <1>2
  <2>2. QED
    BY <2>1, PTL DEF MSpec, TemplateSlotsKept
<1>3. QED
  BY <1>1, <1>2
-----------------------------------------------------------------------------
(* The clamp on the timeout.                                               *)

\* Why TimeoutRestored holds: the clamp lives only inside a recovery cycle,
\* between its reconnection and the end of its bulk read, and only a recovery
\* gets to reconnect.
ClampInRecovery ==
    /\ timeout = "own" \/ (phase = "recovery" /\ pc \in {"free", "freeAck", "raw", "drain"})
    /\ pc = "reconnect" => phase = "recovery"

LEMMA BulkDoneClamp ==
    ASSUME ClampInRecovery, pc \in {"raw", "drain"}, NEW q, NEW acked, BulkDone(q, acked)
    PROVE  ClampInRecovery'
<1> USE DEF ClampInRecovery
<1>1. CASE pc' = "parsed" /\ timeout' = "own"
  BY <1>1
<1>2. CASE phase = "normal" /\ NextAttempt(sawAck \/ acked) /\ timeout' = timeout
  BY <1>2 DEF NextAttempt
<1>3. CASE phase = "recovery" /\ NextCycle
  BY <1>3 DEF NextCycle
<1>4. QED
  BY <1>1, <1>2, <1>3 DEF BulkDone

LEMMA FreeDoneClamp ==
    ASSUME ClampInRecovery, pc \in {"free", "freeAck"}, NEW ok \in BOOLEAN, FreeDone(ok)
    PROVE  ClampInRecovery'
BY DEF ClampInRecovery, FreeDone, NextCycle

LEMMA TableStepClamp ==
    ASSUME ClampInRecovery, TableSteps
    PROVE  ClampInRecovery'
<1>1. CASE RawSend
  BY <1>1 DEF RawSend, ClampInRecovery
<1>2. CASE RawSendError
  BY <1>2, BulkDoneClamp DEF RawSendError
<1>3. CASE DrainRecv
  <2>1. CASE BulkDone(got \o toCli, TRUE)
    BY <1>3, <2>1, BulkDoneClamp DEF DrainRecv
  <2>2. CASE UNCHANGED <<pc, phase, timeout>>
    BY <2>2 DEF ClampInRecovery
  <2>3. QED
    BY <1>3, <2>1, <2>2 DEF DrainRecv
<1>4. CASE DrainQuiet
  <2>1. CASE pc' = "raw" /\ UNCHANGED <<phase, timeout>>
    BY <1>4, <2>1 DEF DrainQuiet, ClampInRecovery
  <2>2. CASE BulkDone(IF BigEnough(got) THEN got ELSE <<>>, FALSE)
    BY <1>4, <2>2, BulkDoneClamp DEF DrainQuiet
  <2>3. QED
    BY <1>4, <2>1, <2>2 DEF DrainQuiet
<1>5. CASE FreeSend
  BY <1>5 DEF FreeSend, ClampInRecovery
<1>6. CASE FreeSendError \/ FreeQuiet
  BY <1>6, FreeDoneClamp DEF FreeSendError, FreeQuiet
<1>7. CASE FreeRecv
  <2>1. Recv16Status(toCli) \in BOOLEAN
    BY DEF Recv16Status
  <2>2. QED
    BY <1>7, <2>1, FreeDoneClamp DEF FreeRecv
<1>8. CASE Reconnect
  BY <1>8 DEF Reconnect, ClampInRecovery
<1>9. CASE ReconnectFails
  BY <1>9 DEF ReconnectFails, NextCycle, ClampInRecovery
<1>10. QED
  BY <1>1, <1>2, <1>3, <1>4, <1>5, <1>6, <1>7, <1>8, <1>9 DEF TableSteps

LEMMA NextClamp ==
    ASSUME ClampInRecovery, Next
    PROVE  ClampInRecovery'
<1> USE DEF ClampInRecovery
<1>1. CASE TableSteps
  BY <1>1, TableStepClamp
<1>2. CASE Calls
  BY <1>2 DEF Calls, StartRead, BeginTable, ConnectSucceeds, ConnectFails, Connect, NewCall
<1>3. CASE ReadReturns \/ AttendanceNext \/ ReadFails
  BY <1>3 DEF ReadReturns, AttendanceNext, BeginTable, ReadFails, Return
<1>4. CASE Env
  BY <1>4 DEF Env, readVars
<1>5. QED
  BY <1>1, <1>2, <1>3, <1>4 DEF Next, ReadSteps

LEMMA MutateClamp ==
    ASSUME ClampInRecovery, MutationCalls \/ MutateSteps
    PROVE  ClampInRecovery'
<1> USE DEF ClampInRecovery
<1>1. CASE MutationCalls
  BY <1>1 DEF MutationCalls, StartMutation, NewCall, BeginTable
<1>2. CASE PreflightSet \/ PreflightDelete
  BY <1>2 DEF PreflightSet, PreflightDelete, Preflight, Proceed, Decline, Return
<1>3. CASE RefreshSend \/ WriteSend
  BY <1>3 DEF RefreshSend, WriteSend, AwaitAck
<1>4. CASE AckRecv
  BY <1>4 DEF AckRecv
<1>5. CASE AckQuiet
  <2>1. timeout = "own" /\ timeout' = timeout
    BY <1>5 DEF AckQuiet, AckPcs
  <2>2. pc' # "reconnect"
    BY <1>5 DEF AckQuiet, AfterRefresh, AfterWrite, AfterRefresh2, Return, BeginTable
  <2>3. QED
    BY <2>1, <2>2
<1>6. CASE TableReadFails \/ SendError \/ AckRaises \/ Verified
  BY <1>6 DEF TableReadFails, SendError, AckRaises, Verified, Return, SendPcs, AckPcs
<1>7. QED
  BY <1>1, <1>2, <1>3, <1>4, <1>5, <1>6 DEF MutateSteps

\* However a table read ends, and whichever of its recovery cycles broke off, no
\* read and no mutation returns with the recovery's 5-second clamp in force.
THEOREM ClampEnds == MSpec => []TimeoutRestored
<1>1. MInit => ClampInRecovery
  BY DEF MInit, Init, ClampInRecovery
<1>2. ClampInRecovery /\ [MNext]_mvars => ClampInRecovery'
  <2>1. ASSUME ClampInRecovery, UNCHANGED mvars PROVE ClampInRecovery'
    BY <2>1 DEF ClampInRecovery, mvars, vars, readVars
  <2>2. QED
    BY <2>1, NextClamp, MutateClamp DEF MNext, ReadPart, Next
<1>3. ClampInRecovery => TimeoutRestored
  BY DEF ClampInRecovery, TimeoutRestored
<1>4. QED
  BY <1>1, <1>2, <1>3, PTL DEF MSpec

\* The same of a program that only reads.
THEOREM ReadClampEnds == Spec => []TimeoutRestored
<1>1. Init => ClampInRecovery
  BY DEF Init, ClampInRecovery
<1>2. ClampInRecovery /\ [Next]_vars => ClampInRecovery'
  <2>1. ASSUME ClampInRecovery, UNCHANGED vars PROVE ClampInRecovery'
    BY <2>1 DEF ClampInRecovery, vars, readVars
  <2>2. QED
    BY <2>1, NextClamp
<1>3. ClampInRecovery => TimeoutRestored
  BY DEF ClampInRecovery, TimeoutRestored
<1>4. QED
  BY <1>1, <1>2, <1>3, PTL DEF Spec
=============================================================================
