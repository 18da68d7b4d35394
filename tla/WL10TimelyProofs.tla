-------------------------- MODULE WL10TimelyProofs --------------------------
(***************************************************************************)
(* What a network that answers in time, or not at all, guarantees: the     *)
(* stream never holds more than the answer that is waited for, so every    *)
(* table is fresh, every acknowledgement is the right one, a mutation      *)
(* implements WL10Outcome, and a read fails only after two adversities.    *)
(***************************************************************************)
EXTENDS WL10MutateRefines, WL10MutateProofs, FiniteSetTheorems

-----------------------------------------------------------------------------
(* The inductive invariant.                                                *)

Waiting  == {"drain", "freeAck"} \cup AckPcs
Received == got \o toCli

\* Answers cross, unless a full-size segment is held up in front of them.
Flowing == conn = "up" /\ ~Stuck

Decisive(q) == \E i \in 1..Len(q) : q[i].k \in {"body", "ok", "err"}

\* What the call's mutation leaves in its slot.
Wanted == IF op.cmd = "set" THEN op.val ELSE NoVal
Done == op.cmd # "reboot" => dev.users[op.uid] = Wanted

\* What reading the slot back can show of it.
Seen(v) == IF op.cmd = "set" THEN Alike(v, op.val) ELSE v = NoVal
Shown == (op.cmd # "reboot" => Seen(dev.users[op.uid])) /\ (fate = "applied" => Done)

Current(b) == b.cmd = rd /\ b.tab.gen >= start /\ b.tab.users = dev.users

\* The answer to what the client waits for, or its beginning.
AckHolds(p) ==
    /\ IsAck(p)
    /\ pc = "ackWrite" /\ p.k = "ok" => fate = "applied" /\ Done
    /\ pc = "ackWrite" /\ p.k = "err" => fate = "refused"
InPlace(i, p) ==
    /\ i = 1 => p.k = "prep"
    /\ i = 2 => p.k = "dhead"
    /\ i = 3 => p.k = "body" /\ Current(p)
    /\ i = 4 => p.k = "ok"
Fits(q) ==
    \/ Len(q) <= 1 /\ \A i \in 1..Len(q) : AckHolds(q[i])
    \/ pc = "drain" /\ Len(q) <= 4 /\ \A i \in 1..Len(q) : InPlace(i, q[i])
Ended(q) == Len(q) \in {0, 4} \/ (Len(q) = 1 /\ IsAck(q[1]))

Asked(r) ==
    /\ pc = "drain" => r.cmd = rd
    /\ pc = "freeAck" => r.cmd = "free"
    /\ pc \in {"ackRefresh", "ackRefresh2"} => r.cmd = "refresh"
    /\ pc = "ackWrite" => r = Req(op.cmd)

\* A client that waits for nothing has nothing to wait for.
Resting ==
    pc \notin Waiting =>
        /\ got = <<>> /\ toCli = <<>>
        /\ Flowing => toDev = <<>> /\ devOut = <<>>

\* A client that waits has seen the beginning of its answer and nothing else.
Awaiting ==
    pc \in Waiting =>
        /\ Fits(Received)
        /\ Decisive(Received) => toDev = <<>> /\ ~Stuck
        /\ Stuck /\ pc # "drain" => Received = <<>>
        /\ Flowing =>
              \/ Len(toDev) = 1 /\ Asked(toDev[1]) /\ Received = <<>> /\ devOut = <<>>
              \/ toDev = <<>> /\ Fits(Received \o devOut) /\ Ended(Received \o devOut)

Stream ==
    /\ conn = "dead" => devOut = <<>>
    /\ pc \in {"write", "ackWrite"} => ~Stuck
    /\ pc = "freeAck" => got = <<>>
    /\ Resting
    /\ Awaiting

\* A mutating request waits alone, for this call or on a connection that is dead.
Queue ==
    \A i \in 1..Len(toDev) : toDev[i].cmd \in Mutations =>
        /\ Len(toDev) = 1
        /\ conn = "dead" \/ pc = "ackWrite"
        /\ toDev[i].cmd # "reboot" => toDev[i].uid \in Uids
        /\ toDev[i].call <= callNo
        /\ toDev[i].call = callNo =>
              /\ fate = "sent"
              /\ op.cmd = toDev[i].cmd /\ op.uid = toDev[i].uid /\ op.val = toDev[i].val
NoWrites == \A i \in 1..Len(toDev) : toDev[i].cmd \notin Mutations

\* The tables the client holds, and what the next step takes from them.
Known ==
    /\ start <= dev.gen
    /\ \A c \in Reads : table[c] # <<>> => table[c][1].cmd = c
    /\ op.cmd \in {"set", "delete"} => rd = "users"
    /\ pc = "parsed" =>
          toDev = <<>> /\ devOut = <<>> /\ table[rd] # <<>> /\ Current(table[rd][1])
    /\ pc \in {"refresh", "ackRefresh", "write"} /\ op.cmd # "reboot" =>
          table["users"] # <<>> /\ Parsed.gen >= start /\ op.uid \notin Parsed.tpl

\* How far the call has come.
Progress ==
    /\ pc \in {"refresh", "ackRefresh", "write"} => fate = "unsent"
    /\ pc \in TablePcs /\ op.cmd \in Mutations /\ stage = "preflight" => fate = "unsent"
    /\ op.cmd = "set" => op.uid \in Uids
    /\ op.cmd = "delete" /\ (pc \in SendPcs \cup AckPcs \/ stage = "verify") => op.uid \in Uids
    /\ pc \in {"refresh2", "ackRefresh2"} => op.cmd # "reboot" /\ Done /\ NoWrites
    /\ fate = "applied" => Done /\ NoWrites
    /\ result = "true" =>
          /\ pc = "idle" /\ op.cmd \in Mutations
          /\ IF op.cmd = "reboot" THEN fate = "applied" ELSE Shown /\ NoWrites

TimelyRest == Stream /\ Queue /\ Known /\ Progress
TimelyInv == TypeInv /\ TimelyRest

-----------------------------------------------------------------------------
(* Streams of pieces.                                                      *)

\* Cut anywhere, a stream is its two parts joined.
LEMMA CutJoins ==
    ASSUME NEW S, NEW q \in Seq(S), NEW n \in 0..Len(q)
    PROVE  SubSeq(q, 1, n) \o SubSeq(q, n + 1, Len(q)) = q
<1>1. Len(q) \in Nat
  BY LenProperties
<1>2. 1 \in 1..Len(q) + 1 /\ n \in 1 - 1..Len(q) /\ Len(q) \in n..Len(q)
  BY <1>1
<1>3. SubSeq(q, 1, n) \o SubSeq(q, n + 1, Len(q)) = SubSeq(q, 1, Len(q))
  BY <1>2, ConcatAdjacentSubSeq
<1>4. QED
  BY <1>3, SubSeqFull

\* The parts of a stream are where they were.
LEMMA JoinedPieces ==
    ASSUME NEW q \in Seq(Piece), NEW r \in Seq(Piece)
    PROVE  /\ q \o r \in Seq(Piece)
           /\ Len(q) \in Nat /\ Len(r) \in Nat /\ Len(q \o r) = Len(q) + Len(r)
           /\ \A i \in 1..Len(q) : i \in 1..Len(q \o r) /\ (q \o r)[i] = q[i]
           /\ \A i \in 1..Len(r) : Len(q) + i \in 1..Len(q \o r) /\ (q \o r)[Len(q) + i] = r[i]
<1>1. /\ q \o r \in Seq(Piece)
      /\ Len(q) \in Nat /\ Len(r) \in Nat /\ Len(q \o r) = Len(q) + Len(r)
      /\ \A i \in 1..Len(q) + Len(r) : (q \o r)[i] = IF i <= Len(q) THEN q[i] ELSE r[i - Len(q)]
  BY ConcatProperties, LenProperties
<1>2. ASSUME NEW i \in 1..Len(r)
      PROVE  Len(q) + i \in 1..Len(q \o r) /\ (q \o r)[Len(q) + i] = r[i]
  <2>1. Len(q) + i \in 1..Len(q) + Len(r) /\ ~(Len(q) + i <= Len(q)) /\ (Len(q) + i) - Len(q) = i
    BY <1>1
  <2>2. QED
    BY <1>1, <2>1
<1>3. QED
  BY <1>1, <1>2

LEMMA JoinThree ==
    ASSUME NEW q \in Seq(Piece), NEW r \in Seq(Piece), NEW s \in Seq(Piece)
    PROVE  (q \o r) \o s = q \o (r \o s)
BY ConcatAssociative

\* The beginning of a fitting stream fits.
LEMMA BeginningFits ==
    ASSUME NEW q \in Seq(Piece), NEW r \in Seq(Piece), Fits(q \o r)
    PROVE  Fits(q)
<1>1. /\ Len(q) \in Nat /\ Len(q) <= Len(q \o r)
      /\ \A i \in 1..Len(q) : i \in 1..Len(q \o r) /\ (q \o r)[i] = q[i]
  BY JoinedPieces
<1>2. Len(q \o r) \in Nat
  BY JoinedPieces, LenProperties
<1>3. CASE Len(q \o r) <= 1 /\ \A i \in 1..Len(q \o r) : AckHolds((q \o r)[i])
  BY <1>1, <1>2, <1>3 DEF Fits
<1>4. CASE /\ pc = "drain" /\ Len(q \o r) <= 4
           /\ \A i \in 1..Len(q \o r) : InPlace(i, (q \o r)[i])
  BY <1>1, <1>2, <1>4 DEF Fits
<1>5. QED
  BY <1>3, <1>4 DEF Fits

LEMMA NothingFits ==
    /\ Fits(<<>>) /\ Ended(<<>>) /\ ~Decisive(<<>>)
    /\ <<>> \in Seq(Piece) /\ <<>> \o <<>> = <<>>
<1>1. Len(<<>>) = 0 /\ <<>> \in Seq(Piece)
  BY EmptySeq
<1>2. QED
  BY <1>1, ConcatEmptySeq DEF Fits, Ended, Decisive

\* An acknowledgement, and a table, end the answer they belong to.
LEMMA AckEnds ==
    ASSUME NEW q \in Seq(Piece), NEW r \in Seq(Piece), Fits(q \o r), HasAck(q)
    PROVE  r = <<>>
<1>1. PICK i \in 1..Len(q) : IsAck(q[i])
  BY LenProperties DEF HasAck
<1>2. /\ Len(q) \in Nat /\ Len(r) \in Nat /\ Len(q \o r) = Len(q) + Len(r)
      /\ i \in 1..Len(q \o r) /\ (q \o r)[i] = q[i]
  BY JoinedPieces
<1>3. CASE Len(q \o r) <= 1
  BY <1>1, <1>2, <1>3, EmptySeq
<1>4. CASE Len(q \o r) <= 4 /\ InPlace(i, q[i])
  <2>1. i \notin {1, 2, 3}
    BY <1>1, <1>4 DEF InPlace, IsAck
  <2>2. Len(r) = 0
    BY <1>2, <1>4, <2>1
  <2>3. QED
    BY <2>2, EmptySeq
<1>5. QED
  BY <1>2, <1>3, <1>4 DEF Fits

LEMMA BodyPlace ==
    ASSUME NEW q \in Seq(Piece), Fits(q), NEW i \in 1..Len(q), q[i].k = "body"
    PROVE  pc = "drain" /\ i = 3 /\ Current(q[i])
<1>1. Len(q) \in Nat
  BY LenProperties
<1>2. ~IsAck(q[i])
  BY DEF IsAck
<1>3. pc = "drain" /\ Len(q) <= 4 /\ InPlace(i, q[i])
  BY <1>1, <1>2 DEF Fits, AckHolds
<1>4. i = 3
  BY <1>1, <1>3 DEF InPlace
<1>5. QED
  BY <1>3, <1>4 DEF InPlace

\* What has no acknowledgement and no table in it fits whatever the terminal does.
LEMMA IndecisiveFits ==
    ASSUME Fits(Received), ~Decisive(Received), UNCHANGED <<pc, got, toCli>>
    PROVE  Fits(Received)'
<1>1. Received' = Received
  BY DEF Received
<1>2. \A i \in 1..Len(Received) : ~IsAck(Received[i]) /\ Received[i].k # "body"
  BY DEF Decisive, IsAck
<1>3. CASE Len(Received) <= 1 /\ \A i \in 1..Len(Received) : AckHolds(Received[i])
  BY <1>1, <1>2, <1>3 DEF Fits, AckHolds
<1>4. CASE /\ pc = "drain" /\ Len(Received) <= 4
           /\ \A i \in 1..Len(Received) : InPlace(i, Received[i])
  <2>1. \A i \in 1..Len(Received) : i # 3
    BY <1>2, <1>4 DEF InPlace
  <2>2. \A i \in 1..Len(Received) : InPlace(i, Received[i])'
    BY <1>1, <1>4, <2>1 DEF InPlace
  <2>3. QED
    BY <1>1, <1>4, <2>2 DEF Fits
<1>5. QED
  BY <1>3, <1>4 DEF Fits

\* A held-up segment stays held up; nothing in the way holds nothing up.
LEMMA StillStuck ==
    ASSUME devOut \in Seq(Piece), NEW r \in Seq(Piece), Stuck, devOut' = devOut \o r,
           UNCHANGED <<path, mss>>
    PROVE  Stuck'
<1>1. devOut # <<>> /\ Head(devOut) = devOut[1] /\ Len(devOut) \in Nat \ {0}
  BY EmptySeq DEF Stuck
<1>2. /\ Len(devOut') \in Nat \ {0} /\ devOut'[1] = devOut[1] /\ devOut' \in Seq(Piece)
  BY <1>1, JoinedPieces
<1>3. devOut' # <<>> /\ Head(devOut') = Head(devOut)
  BY <1>1, <1>2, EmptySeq
<1>4. QED
  BY <1>3, Zenon DEF Stuck

LEMMA EmptyFlows == ASSUME devOut = <<>> PROVE ~Stuck
BY DEF Stuck

-----------------------------------------------------------------------------
(* The terminal serves a request, or refuses it, or keeps silent.          *)

LEMMA AppliedEffect ==
    ASSUME dev \in Memory, NEW req \in Request
    PROVE  /\ Applied(req).gen >= dev.gen
           /\ req.cmd = "set" => Applied(req).users = [dev.users EXCEPT ![req.uid] = req.val]
           /\ req.cmd = "delete" => Applied(req).users = [dev.users EXCEPT ![req.uid] = NoVal]
           /\ req.cmd \notin {"set", "delete"} => Applied(req) = dev
<1>1. DOMAIN dev = {"users", "tpl", "side", "log", "gen"} /\ dev.gen \in Nat
  BY DEF Memory
<1>2. CASE req.cmd = "set"
  <2>1. Applied(req) = [dev EXCEPT !.users[req.uid] = req.val, !.tpl = @ \ {req.uid},
                                   !.side = @ \ {req.uid}, !.gen = dev.gen + 1]
    BY <1>2 DEF Applied
  <2>2. /\ Applied(req).gen = dev.gen + 1
        /\ Applied(req).users = [dev.users EXCEPT ![req.uid] = req.val]
    BY <1>1, <2>1
  <2>3. QED
    BY <1>1, <1>2, <2>2
<1>3. CASE req.cmd = "delete"
  <2>1. Applied(req) = [dev EXCEPT !.users[req.uid] = NoVal, !.tpl = @ \ {req.uid},
                                   !.side = @ \ {req.uid}, !.gen = dev.gen + 1]
    BY <1>3 DEF Applied
  <2>2. /\ Applied(req).gen = dev.gen + 1
        /\ Applied(req).users = [dev.users EXCEPT ![req.uid] = NoVal]
    BY <1>1, <2>1
  <2>3. QED
    BY <1>1, <1>3, <2>2
<1>4. CASE req.cmd \notin {"set", "delete"}
  BY <1>1, <1>4 DEF Applied
<1>5. QED
  BY <1>2, <1>3, <1>4

Answers(f, reply) ==
    \/ reply = <<>>
    \/ f = "refused" /\ reply = Ack(FALSE)
    \/ f = "applied" /\ reply = IF Head(toDev).cmd \in Reads THEN Snapshot(Head(toDev).cmd)
                                ELSE Ack(TRUE)

\* The oldest request is taken off the queue and comes to f; reply is the answer.
Took(f, reply) ==
    /\ toDev # <<>> /\ toDev' = Tail(toDev)
    /\ SetFate(Head(toDev), f)
    /\ f = "applied" => dev' = Applied(Head(toDev)) /\ Head(toDev).cmd # "reboot"
    /\ f = "refused" => dev' = dev
    /\ Answers(f, reply)
    /\ Reply(reply)
    /\ UNCHANGED <<readVars, mutVars, toCli, conn, path, mss, callNo>>

LEMMA TookHead ==
    ASSUME TypeInv, Queue, NEW f \in {"applied", "refused"}, NEW reply, Took(f, reply)
    PROVE  /\ Head(toDev) \in Request /\ Head(toDev) = toDev[1] /\ Len(toDev) \in Nat \ {0}
           /\ reply \in Seq(Piece)
           /\ NoWrites'
           /\ Len(toDev) = 1 => toDev' = <<>>
           /\ Head(toDev).cmd \notin Mutations => UNCHANGED <<dev, fate>>
           /\ dev'.gen >= dev.gen
<1> DEFINE req == Head(toDev)
<1>1. /\ toDev \in Seq(Request) /\ dev \in Memory /\ dev.gen \in Nat
  BY DEF TypeInv, MTypeOK, ReadTypeOK, LinkTypeOK, Memory
<1>2. /\ req \in Request /\ req = toDev[1] /\ Len(toDev) \in Nat \ {0}
      /\ toDev' \in Seq(Request) /\ Len(toDev') = Len(toDev) - 1
      /\ \A i \in 1..Len(toDev') : toDev'[i] = toDev[i + 1]
  BY <1>1, HeadTailProperties, EmptySeq DEF Took
<1>3. reply \in Seq(Piece)
  BY <1>1, SnapshotType, AckType, NothingFits DEF Took, Answers
<1>4. NoWrites'
  <2>1. ASSUME NEW i \in 1..Len(toDev'), toDev'[i].cmd \in Mutations PROVE FALSE
    <3>1. i + 1 \in 1..Len(toDev) /\ toDev[i + 1].cmd \in Mutations
      BY <1>2, <2>1
    <3>2. Len(toDev) = 1
      BY <3>1 DEF Queue
    <3>3. QED
      BY <1>2, <3>2
  <2>2. QED
    BY <2>1 DEF NoWrites
<1>5. Len(toDev) = 1 => toDev' = <<>>
  BY <1>2, EmptySeq
<1>6. req.cmd \notin Mutations => UNCHANGED <<dev, fate>>
  BY <1>1, <1>2, AppliedEffect DEF Took, SetFate, Mutations
<1>7. dev'.gen >= dev.gen
  <2>1. dev' = Applied(req) \/ dev' = dev
    BY DEF Took
  <2>2. Applied(req).gen >= dev.gen
    BY <1>1, <1>2, AppliedEffect
  <2>3. dev.gen >= dev.gen
    BY <1>1
  <2>4. QED
    BY <2>1, <2>2, <2>3
<1>8. QED
  BY <1>2, <1>3, <1>4, <1>5, <1>6, <1>7

\* A mutation is done once its request has been served.
LEMMA AppliedIsDone ==
    ASSUME TypeInv, Queue, Progress, NEW f \in {"applied", "refused"}, NEW reply, Took(f, reply),
           fate # "applied", fate' = "applied"
    PROVE  Done'
<1> DEFINE req == Head(toDev)
<1>1. /\ req \in Request /\ req = toDev[1] /\ Len(toDev) \in Nat \ {0} /\ dev \in Memory
      /\ UNCHANGED op
  BY TookHead DEF TypeInv, MTypeOK, ReadTypeOK, LinkTypeOK, Took, readVars
<1>2. req.cmd \in Mutations /\ req.call = callNo /\ f = "applied" /\ dev' = Applied(req)
  BY DEF Took, SetFate
<1>3. /\ op.cmd = req.cmd /\ op.uid = req.uid /\ op.val = req.val
      /\ req.cmd # "reboot" => req.uid \in Uids
  BY <1>1, <1>2 DEF Queue
<1>4. SUFFICES ASSUME op.cmd # "reboot" PROVE dev'.users[op.uid] = Wanted
  BY <1>1 DEF Done, Wanted
<1>5. op.cmd \in {"set", "delete"} /\ op.uid \in Uids /\ DOMAIN dev.users = Uids
  BY <1>1, <1>2, <1>3, <1>4 DEF Mutations, Memory
<1>6. QED
  BY <1>1, <1>2, <1>3, <1>5, AppliedEffect DEF Wanted

\* What the terminal answers is what the client waits for.
LEMMA AnswerFits ==
    ASSUME TypeInv, Queue, Known, Progress, NEW f \in {"applied", "refused"}, NEW reply,
           Took(f, reply), pc \in Waiting, Asked(Head(toDev))
    PROVE  /\ Len(reply) <= 1 => \A i \in 1..Len(reply) : AckHolds(reply[i])'
           /\ Len(reply) > 1 => /\ pc = "drain" /\ Len(reply) = 4
                                /\ \A i \in 1..Len(reply) : InPlace(i, reply[i])'
           /\ Ended(reply)
           /\ reply # <<>> => Head(reply).k # "body"
<1> DEFINE req == Head(toDev)
<1>1. /\ req \in Request /\ dev \in Memory /\ op \in Call /\ callNo \in Nat /\ dev.gen \in Nat
      /\ UNCHANGED <<pc, op, rd, start>>
  BY TookHead DEF TypeInv, MTypeOK, ReadTypeOK, LinkTypeOK, Memory, Took, readVars
<1>2. pc = "ackWrite" => req = Req(op.cmd) /\ op.cmd \in Mutations
  BY DEF Asked, TypeInv, MutatingOp, AckPcs
<1>3. pc = "ackWrite" => fate' = f
  BY <1>2 DEF Took, SetFate, Req
<1>4. CASE reply = <<>>
  BY <1>4, NothingFits
<1>5. CASE f = "refused" /\ reply = Ack(FALSE)
  <2>1. Len(reply) = 1 /\ reply[1] = P("err") /\ Head(reply) = P("err")
    BY <1>5 DEF Ack
  <2>2. AckHolds(P("err"))'
    BY <1>1, <1>3, <1>5 DEF AckHolds, IsAck, P
  <2>3. QED
    BY <2>1, <2>2 DEF Ended, IsAck, P
<1>6. CASE f = "applied" /\ req.cmd \notin Reads /\ reply = Ack(TRUE)
  <2>1. Len(reply) = 1 /\ reply[1] = P("ok") /\ Head(reply) = P("ok")
    BY <1>6 DEF Ack
  <2>2. pc = "ackWrite" => Done'
    <3>1. SUFFICES ASSUME pc = "ackWrite", op.cmd # "reboot" PROVE dev'.users[op.uid] = Wanted
      BY <1>1 DEF Done, Wanted
    <3>2. op.cmd \in {"set", "delete"} /\ op.uid \in Uids
      BY <1>2, <3>1 DEF Progress, Mutations, AckPcs
    <3>3. req.cmd = op.cmd /\ req.uid = op.uid /\ req.val = op.val
      BY <1>2, <3>1 DEF Req
    <3>4. dev' = Applied(req) /\ DOMAIN dev.users = Uids
      BY <1>1, <1>6 DEF Took, Memory
    <3>5. QED
      BY <1>1, <3>2, <3>3, <3>4, AppliedEffect DEF Wanted
  <2>3. AckHolds(P("ok"))'
    BY <1>1, <1>3, <1>6, <2>2 DEF AckHolds, IsAck, P
  <2>4. QED
    BY <2>1, <2>3 DEF Ended, IsAck, P
<1>7. CASE f = "applied" /\ req.cmd \in Reads /\ reply = Snapshot(req.cmd)
  <2>1. pc = "drain" /\ req.cmd = rd
    BY <1>2, <1>7 DEF Waiting, AckPcs, Asked, Reads, Mutations, Req
  <2>2. dev' = dev
    BY <1>1, <1>7, AppliedEffect DEF Took, Reads
  <2> DEFINE b == [k |-> "body", cmd |-> rd, tab |-> dev]
  <2>3. /\ Len(reply) = 4
        /\ reply[1] = P("prep") /\ reply[2] = P("dhead") /\ reply[3] = b /\ reply[4] = P("ok")
        /\ Head(reply) = P("prep")
    BY <1>7, <2>1 DEF Snapshot
  <2>4. ASSUME NEW p, p = b PROVE Current(p)'
    BY <1>1, <2>2, <2>4 DEF Current, Known
  <2>5. \A i \in 1..4 : InPlace(i, reply[i])'
    <3>1. b.k = "body"
      OBVIOUS
    <3> HIDE DEF b
    <3>2. /\ InPlace(1, reply[1])' /\ InPlace(2, reply[2])'
          /\ InPlace(3, reply[3])' /\ InPlace(4, reply[4])'
      <4>1. InPlace(1, reply[1])' /\ InPlace(2, reply[2])' /\ InPlace(4, reply[4])'
        BY <2>3 DEF InPlace, P
      <4>2. InPlace(3, reply[3])'
        BY <2>3, <2>4, <3>1 DEF InPlace
      <4>3. QED
        BY <4>1, <4>2
    <3>3. QED
      BY <3>2
  <2>6. QED
    BY <2>1, <2>3, <2>5 DEF Ended, P
<1>8. QED
  BY <1>4, <1>5, <1>6, <1>7 DEF Took, Answers

LEMMA TookKeepsStream ==
    ASSUME TypeInv, Stream, Queue, Known, Progress, NEW f \in {"applied", "refused"}, NEW reply,
           Took(f, reply)
    PROVE  Stream'
<1>1. /\ toDev # <<>> /\ UNCHANGED <<pc, op, rd, start, got, toCli, conn, path, mss>>
      /\ devOut \in Seq(Piece) /\ got \in Seq(Piece) /\ toCli \in Seq(Piece)
      /\ conn \in {"up", "dead"} /\ reply \in Seq(Piece)
  BY TookHead DEF Took, TypeInv, MTypeOK, ReadTypeOK, LinkTypeOK, readVars
<1>2. Received' = Received /\ Received \in Seq(Piece)
  BY <1>1, ConcatProperties DEF Received
<1>3. pc \in Waiting => ~Decisive(Received)
  BY <1>1 DEF Stream, Awaiting
<1>4. pc \in Waiting => Fits(Received)' /\ ~Decisive(Received')
  BY <1>1, <1>2, <1>3, IndecisiveFits DEF Stream, Awaiting
<1>5. CASE conn = "dead"
  <2>1. devOut' = <<>> /\ ~Stuck' /\ ~Flowing'
    BY <1>1, <1>5, EmptyFlows DEF Took, Reply, Stream, Stuck, Flowing
  <2>2. QED
    BY <1>1, <1>2, <1>4, <2>1 DEF Stream, Resting, Awaiting
<1>6. CASE conn = "up" /\ Stuck
  <2>1. Stuck' /\ ~Flowing'
    BY <1>1, <1>6, StillStuck DEF Took, Reply, Flowing
  <2>2. QED
    BY <1>1, <1>2, <1>4, <1>6, <2>1 DEF Stream, Resting, Awaiting
<1>7. CASE Flowing
  <2>1. pc \in Waiting
    BY <1>1, <1>7 DEF Stream, Resting
  <2>2. Len(toDev) = 1 /\ Asked(toDev[1]) /\ Received = <<>> /\ devOut = <<>>
    BY <1>1, <1>7, <2>1 DEF Stream, Awaiting
  <2>3. toDev' = <<>> /\ Asked(Head(toDev))
    BY <2>2, TookHead
  <2>4. devOut' = reply
    BY <1>1, <1>7, <2>2, ConcatEmptySeq DEF Took, Reply, Flowing
  <2>5. Received' = <<>> /\ (Received \o devOut)' = reply
    BY <1>1, <1>2, <2>2, <2>4, ConcatEmptySeq
  <2>6. /\ Len(reply) <= 1 => \A i \in 1..Len(reply) : AckHolds(reply[i])'
        /\ Len(reply) > 1 => /\ pc = "drain" /\ Len(reply) = 4
                             /\ \A i \in 1..Len(reply) : InPlace(i, reply[i])'
        /\ Ended(reply)
        /\ reply # <<>> => Head(reply).k # "body"
    BY <2>1, <2>3, AnswerFits
  <2>7. Len(reply) \in Nat
    BY <1>1, LenProperties
  <2>8. Fits(Received \o devOut)' /\ Ended(Received \o devOut)'
    <3>1. CASE Len(reply) <= 1
      BY <1>1, <2>5, <2>6, <3>1 DEF Fits, Ended, IsAck, AckHolds
    <3>2. CASE Len(reply) > 1
      <4>1. pc' = "drain" /\ Len((Received \o devOut)') = 4
        BY <1>1, <2>5, <2>6, <3>2
      <4>2. \A i \in 1..4 : InPlace(i, (Received \o devOut)[i])'
        BY <2>5, <2>6, <3>2 DEF InPlace, Current
      <4>3. QED
        BY <4>1, <4>2 DEF Fits, Ended
    <3>3. QED
      BY <2>7, <3>1, <3>2
  <2>9. ~Stuck'
    BY <2>4, <2>6 DEF Stuck
  <2>10. QED
    BY <1>1, <1>2, <1>4, <1>7, <2>1, <2>2, <2>3, <2>8, <2>9 DEF Stream, Resting, Awaiting, Flowing
<1>8. QED
  BY <1>1, <1>5, <1>6, <1>7 DEF Flowing

LEMMA TookKeepsRest ==
    ASSUME TypeInv, Stream, Queue, Known, Progress, NEW f \in {"applied", "refused"}, NEW reply,
           Took(f, reply)
    PROVE  Queue' /\ Known' /\ Progress'
<1>1. /\ toDev # <<>> /\ UNCHANGED <<pc, op, rd, start, table, stage, result>>
      /\ dev.gen \in Nat /\ start \in Nat
  BY DEF Took, TypeInv, MTypeOK, ReadTypeOK, LinkTypeOK, readVars, mutVars, Memory
<1>2. NoWrites' /\ dev'.gen >= dev.gen /\ Head(toDev) = toDev[1] /\ Len(toDev) \in Nat \ {0}
  BY TookHead
<1>3. Queue'
  BY <1>2 DEF Queue, NoWrites
<1>4. pc # "parsed"
  BY <1>1 DEF Known
<1>5. Known'
  <2>1. start' <= dev'.gen
    <3>1. dev'.gen \in Nat
      <4>1. Applied(Head(toDev)) \in Memory /\ dev \in Memory
        BY TookHead, AppliedType DEF TypeInv, MTypeOK, ReadTypeOK, LinkTypeOK
      <4>2. dev' \in Memory
        BY <4>1 DEF Took
      <4>3. QED
        BY <4>2 DEF Memory
    <3>2. QED
      BY <1>1, <1>2, <3>1 DEF Known
  <2>2. QED
    BY <1>1, <1>4, <2>1 DEF Known, Parsed
<1>6. fate # "sent" => fate' = fate
  <2>1. Head(toDev).cmd \in Mutations /\ Head(toDev).call = callNo => fate = "sent"
    BY <1>2 DEF Queue
  <2>2. QED
    BY <2>1 DEF Took, SetFate
<1>7. NoWrites => dev' = dev
  BY <1>2, TookHead DEF NoWrites
<1>8. fate' = "applied" => Done'
  <2>1. CASE fate = "applied"
    BY <1>1, <1>7, <2>1 DEF Progress, Done, Wanted, Took, readVars
  <2>2. CASE fate # "applied"
    BY <2>2, AppliedIsDone
  <2>3. QED
    BY <2>1, <2>2
<1>9. (Done => Done') \/ ~NoWrites
  BY <1>1, <1>7 DEF Done, Wanted, Took, readVars
<1>10. Shown /\ NoWrites => Shown'
  BY <1>1, <1>7, <1>8 DEF Shown, Seen, Took, readVars
<1>11. Progress'
  BY <1>1, <1>2, <1>6, <1>8, <1>9, <1>10 DEF Progress, Took, readVars
<1>12. QED
  BY <1>3, <1>5, <1>11

LEMMA TookKeeps ==
    ASSUME TypeInv, TimelyRest, NEW f \in {"applied", "refused"}, NEW reply, Took(f, reply)
    PROVE  TimelyRest'
BY TookKeepsStream, TookKeepsRest DEF TimelyRest

LEMMA ServingTakes ==
    ASSUME TypeInv, Serve \/ Refuse \/ ServeMute, UNCHANGED <<readVars, mutVars>>
    PROVE  \E f \in {"applied", "refused"} : \E reply : Took(f, reply)
<1>1. CASE Serve
  <2> DEFINE reply == IF Head(toDev).cmd \in Reads THEN Snapshot(Head(toDev).cmd) ELSE Ack(TRUE)
  <2>1. Answers("applied", reply)
    BY Zenon DEF Answers
  <2>2. Took("applied", reply)
    BY <1>1, <2>1 DEF Serve, Took
  <2> HIDE DEF reply
  <2>3. QED
    BY <2>2, Zenon
<1>2. CASE Refuse
  <2>1. /\ toDev # <<>> /\ toDev' = Tail(toDev) /\ dev' = dev
        /\ SetFate(Head(toDev), "refused") /\ Reply(Ack(FALSE))
        /\ UNCHANGED <<toCli, conn, path, mss, callNo>>
    BY <1>2 DEF Refuse
  <2>2. Answers("refused", Ack(FALSE))
    BY Zenon DEF Answers
  <2>3. Took("refused", Ack(FALSE))
    BY <2>1, <2>2 DEF Took
  <2>4. QED
    BY <2>3, Zenon
<1>3. CASE ServeMute
  <2>1. devOut \o <<>> = devOut
    BY ConcatEmptySeq DEF TypeInv, MTypeOK, ReadTypeOK, LinkTypeOK
  <2>2. Answers("applied", <<>>) /\ Reply(<<>>)
    <3>1. Answers("applied", <<>>)
      BY Zenon DEF Answers
    <3>2. Reply(<<>>)
      BY <1>3, <2>1 DEF ServeMute, Reply
    <3>3. QED
      BY <3>1, <3>2
  <2>3. Took("applied", <<>>)
    BY <1>3, <2>2 DEF ServeMute, Took
  <2>4. QED
    BY <2>3, Zenon
<1>4. QED
  BY <1>1, <1>2, <1>3

LEMMA ServingKeeps ==
    ASSUME TypeInv, TimelyRest, Serve \/ Refuse \/ ServeMute, UNCHANGED <<readVars, mutVars>>
    PROVE  TimelyRest'
BY ServingTakes, TookKeeps

-----------------------------------------------------------------------------
(* The connection dies, the network delivers, somebody enrols.             *)

\* The terminal restarts for the call that is waiting, or on a dead connection.
LEMMA RebootKeeps ==
    ASSUME TypeInv, TimelyRest, ServeReboot, UNCHANGED <<readVars, mutVars>>
    PROVE  TimelyRest'
<1> USE DEF TimelyRest
<1>1. /\ UNCHANGED <<pc, op, rd, start, table, stage, result, got, dev, path, mss, callNo>>
      /\ toDev # <<>> /\ toDev' = <<>> /\ devOut' = <<>> /\ conn' = "dead"
      /\ toDev \in Seq(Request) /\ got \in Seq(Piece) /\ toCli \in Seq(Piece)
      /\ devOut \in Seq(Piece)
  BY DEF ServeReboot, TypeInv, MTypeOK, ReadTypeOK, LinkTypeOK, readVars, mutVars
<1>2. /\ Len(toDev) \in Nat \ {0} /\ Head(toDev) = toDev[1] /\ toDev[1] \in Request
      /\ toDev[1].cmd = "reboot"
  BY <1>1, HeadTailProperties, EmptySeq DEF ServeReboot
<1>3. /\ Len(toDev) = 1
      /\ conn = "dead" \/ pc = "ackWrite"
      /\ toDev[1].call = callNo => fate = "sent" /\ op.cmd = "reboot"
  BY <1>2 DEF Queue, Mutations
<1>4. fate' = IF toDev[1].call = callNo THEN "applied" ELSE fate
  BY <1>2 DEF ServeReboot, SetFate, Mutations
<1>5. Queue' /\ NoWrites' /\ ~Stuck' /\ ~Flowing'
  BY <1>1, EmptySeq DEF Queue, NoWrites, Stuck, Flowing
<1>6. pc # "parsed"
  BY <1>1 DEF Known
<1>7. Known'
  BY <1>1, <1>6 DEF Known, Parsed
<1>8. fate # "sent" => fate' = fate
  BY <1>3, <1>4
<1>9. Progress'
  <2>1. fate' = "applied" => Done'
    BY <1>1, <1>3, <1>4 DEF Progress, Done, Wanted
  <2>2. (Done => Done') /\ (Shown => Shown')
    BY <1>1, <2>1 DEF Shown, Seen, Done, Wanted
  <2>3. result = "true" /\ op.cmd = "reboot" => fate' = "applied"
    BY <1>4 DEF Progress
  <2>4. QED
    BY <1>1, <1>5, <1>8, <2>1, <2>2, <2>3 DEF Progress
<1>10. Resting'
  <2>1. CASE toCli' = toCli
    BY <1>1, <1>5, <2>1 DEF Stream, Resting
  <2>2. CASE conn = "up"
    BY <1>1, <1>3, <1>5, <2>2 DEF Resting, Waiting, AckPcs
  <2>3. QED
    BY <2>1, <2>2 DEF ServeReboot
<1>11. pc \in Waiting => ~Decisive(Received)
  BY <1>1 DEF Stream, Awaiting
<1>12. pc \in Waiting => Fits(Received)'
  <2>1. SUFFICES ASSUME pc \in Waiting PROVE Fits(Received)'
    OBVIOUS
  <2>2. CASE toCli' = toCli
    <3>1. Fits(Received)'
      BY <1>1, <1>11, <2>1, <2>2, IndecisiveFits DEF Stream, Awaiting
    <3>2. QED
      BY <3>1
  <2>3. CASE conn = "up" /\ ~Stuck /\ toCli' = toCli \o devOut \o Ack(TRUE)
    <3>1. /\ pc = "ackWrite"
          /\ Len(toDev) = 1 /\ Asked(toDev[1]) /\ Received = <<>> /\ devOut = <<>>
      BY <1>1, <1>3, <2>1, <2>3 DEF Stream, Awaiting, Flowing
    <3>2. Received' = Ack(TRUE)
      <4>1. toCli \o devOut = toCli /\ Ack(TRUE) \in Seq(Piece)
        BY <1>1, <3>1, ConcatEmptySeq, AckType
      <4>2. Received' = got \o (toCli \o Ack(TRUE))
        BY <1>1, <2>3, <4>1 DEF Received
      <4>3. got \o (toCli \o Ack(TRUE)) = (got \o toCli) \o Ack(TRUE)
        BY <1>1, <4>1, JoinThree
      <4>4. <<>> \o Ack(TRUE) = Ack(TRUE)
        BY <4>1, ConcatEmptySeq
      <4>5. QED
        BY <3>1, <4>2, <4>3, <4>4 DEF Received
    <3>3. fate' = "applied" /\ op.cmd = "reboot"
      BY <1>2, <1>3, <1>4, <3>1 DEF Asked, Req
    <3>4. Len(Received') = 1 /\ Received'[1] = P("ok")
      BY <3>2 DEF Ack
    <3>5. AckHolds(Received[1])'
      BY <1>1, <3>3, <3>4 DEF AckHolds, IsAck, P, Done
    <3>6. QED
      BY <3>4, <3>5 DEF Fits, AckHolds
  <2>4. QED
    BY <2>2, <2>3 DEF ServeReboot
<1>13. Awaiting'
  BY <1>1, <1>5, <1>12 DEF Awaiting, Waiting
<1>14. QED
  BY <1>1, <1>5, <1>7, <1>9, <1>10, <1>13 DEF Stream

LEMMA FitsStays ==
    ASSUME NEW q, Fits(q), UNCHANGED <<pc, fate, op, rd, start>>, dev'.users = dev.users
    PROVE  /\ Received' = q => Fits(Received)'
           /\ (Received \o devOut)' = q => Fits(Received \o devOut)'
<1>1. ASSUME NEW p, AckHolds(p) PROVE AckHolds(p)'
  BY <1>1 DEF AckHolds, Done, Wanted
<1>2. ASSUME NEW i, NEW p, InPlace(i, p) PROVE InPlace(i, p)'
  BY <1>2 DEF InPlace, Current
<1>3. CASE Received' = q
  <2>1. CASE Len(q) <= 1 /\ \A i \in 1..Len(q) : AckHolds(q[i])
    BY <1>1, <1>3, <2>1 DEF Fits, AckHolds
  <2>2. CASE pc = "drain" /\ Len(q) <= 4 /\ \A i \in 1..Len(q) : InPlace(i, q[i])
    BY <1>2, <1>3, <2>2 DEF Fits, InPlace, Current
  <2>3. QED
    BY <2>1, <2>2 DEF Fits
<1>4. CASE (Received \o devOut)' = q
  <2>1. CASE Len(q) <= 1 /\ \A i \in 1..Len(q) : AckHolds(q[i])
    BY <1>1, <1>4, <2>1 DEF Fits, AckHolds
  <2>2. CASE pc = "drain" /\ Len(q) <= 4 /\ \A i \in 1..Len(q) : InPlace(i, q[i])
    BY <1>2, <1>4, <2>2 DEF Fits, InPlace, Current
  <2>3. QED
    BY <2>1, <2>2 DEF Fits
<1>5. QED
  BY <1>3, <1>4

LEMMA BreakKeeps ==
    ASSUME TypeInv, TimelyRest, Break, UNCHANGED <<readVars, mutVars>>
    PROVE  TimelyRest'
<1> USE DEF TimelyRest
<1>1. /\ UNCHANGED <<pc, op, rd, start, table, stage, result, got, dev, path, mss, callNo, fate>>
      /\ conn' = "dead" /\ devOut' = <<>> /\ toCli' \in {toCli, <<>>}
      /\ toDev \in Seq(Request) /\ got \in Seq(Piece) /\ toCli \in Seq(Piece)
  BY DEF Break, TypeInv, MTypeOK, ReadTypeOK, LinkTypeOK, readVars, mutVars
<1>2. PICK n \in 0..Len(toDev) : toDev' = SubSeq(toDev, 1, n)
  BY DEF Break
<1>3. /\ Len(toDev) \in Nat /\ Len(toDev') = n
      /\ \A i \in 1..n : i \in 1..Len(toDev) /\ toDev'[i] = toDev[i]
      /\ toDev' \in Seq(Request)
  <2>1. Len(toDev) \in Nat /\ \A i \in 1..n : i \in 1..Len(toDev) /\ toDev[i] \in Request
    BY <1>1, LenProperties, ElementOfSeq
  <2>2. QED
    BY <1>2, <2>1, SubSeqProperties
<1>4. toDev = <<>> => toDev' = <<>>
  BY <1>1, <1>3, EmptySeq
<1>5. Queue'
  BY <1>1, <1>3 DEF Queue
<1>6. NoWrites => NoWrites'
  BY <1>3 DEF NoWrites
<1>7. Known'
  BY <1>1, <1>4 DEF Known, Current, Parsed
<1>8. Progress'
  BY <1>1, <1>6 DEF Progress, Shown, Seen, Done, Wanted
<1>9. ~Stuck' /\ ~Flowing'
  BY <1>1 DEF Stuck, Flowing
<1>10. Resting'
  BY <1>1, <1>9 DEF Stream, Resting, Waiting
<1>11. Awaiting'
  <2>1. SUFFICES ASSUME pc \in Waiting PROVE Awaiting'
    BY <1>1 DEF Awaiting, Waiting
  <2>2. Received' = Received \/ Received' = got
    BY <1>1, ConcatEmptySeq DEF Received
  <2>3. Fits(Received) /\ Fits(got)
    BY <1>1, <2>1, BeginningFits DEF Stream, Awaiting, Received
  <2>4. Fits(Received)'
    BY <1>1, <2>2, <2>3, FitsStays
  <2>5. Decisive(got) => Decisive(Received)
    BY <1>1, JoinedPieces DEF Decisive, Received
  <2>6. Decisive(Received)' => toDev' = <<>>
    BY <1>4, <2>1, <2>2, <2>5 DEF Stream, Awaiting, Decisive
  <2>7. QED
    BY <1>9, <2>4, <2>6 DEF Awaiting
<1>12. QED
  BY <1>1, <1>5, <1>7, <1>8, <1>9, <1>10, <1>11 DEF Stream

LEMMA DeliverKeeps ==
    ASSUME TypeInv, TimelyRest, NEW n \in 1..Len(devOut), Deliver(n),
           UNCHANGED <<readVars, mutVars>>
    PROVE  TimelyRest'
<1> USE DEF TimelyRest
<1> DEFINE a == SubSeq(devOut, 1, n)
           b == SubSeq(devOut, n + 1, Len(devOut))
           all == Received \o devOut
<1>1. /\ UNCHANGED <<pc, op, rd, start, table, stage, result, got, dev, path, mss, callNo, fate,
                     toDev, conn>>
      /\ conn = "up" /\ ~Stuck /\ Flowing
      /\ toCli' = toCli \o a /\ devOut' = b
      /\ got \in Seq(Piece) /\ toCli \in Seq(Piece) /\ devOut \in Seq(Piece)
  BY DEF Deliver, TypeInv, MTypeOK, ReadTypeOK, LinkTypeOK, readVars, mutVars, Flowing
<1>2. n \in 0..Len(devOut) /\ devOut # <<>>
  BY <1>1, LenProperties, EmptySeq
<1>3. a \in Seq(Piece) /\ b \in Seq(Piece) /\ a \o b = devOut
  BY <1>1, <1>2, SubSeqType, CutJoins
<1> HIDE DEF a, b
<1>4. Received \in Seq(Piece) /\ all \in Seq(Piece)
  BY <1>1, ConcatProperties DEF Received
<1>5. Received' = Received \o a /\ Received' \in Seq(Piece)
  <2>1. (got \o toCli) \o a = got \o (toCli \o a)
    <3>1. got \in Seq(Piece) /\ toCli \in Seq(Piece) /\ a \in Seq(Piece)
      BY <1>1, <1>3
    <3>2. QED
      BY <3>1, JoinThree
  <2>2. Received' = Received \o a
    BY <1>1, <2>1 DEF Received
  <2>3. Received \o a \in Seq(Piece)
    BY <1>3, <1>4, ConcatProperties
  <2>4. QED
    BY <2>2, <2>3
<1>6. (Received \o devOut)' = all /\ Received' \o b = all
  <2>1. (Received \o a) \o b = Received \o (a \o b)
    BY <1>3, <1>4, JoinThree
  <2>2. (Received \o devOut)' = Received' \o b
    BY <1>1
  <2>3. QED
    BY <1>3, <1>5, <2>1, <2>2
<1>7. /\ pc \in Waiting /\ toDev = <<>> /\ Fits(all) /\ Ended(all)
  BY <1>1, <1>2 DEF Stream, Resting, Awaiting
<1>8. Fits(Received)'
  <2>1. Fits(Received \o a)
    <3>1. Received \o a \in Seq(Piece) /\ (Received \o a) \o b = all
      BY <1>5, <1>6
    <3>2. QED
      BY <1>3, <1>7, <3>1, BeginningFits
  <2>2. QED
    BY <1>1, <1>5, <2>1, FitsStays
<1>9. Fits(Received \o devOut)' /\ Ended(Received \o devOut)'
  BY <1>1, <1>6, <1>7, FitsStays DEF Ended
<1>10. Stuck' => pc = "drain" /\ ~Decisive(Received)'
  <2>1. SUFFICES ASSUME Stuck' PROVE pc = "drain" /\ ~Decisive(Received)'
    OBVIOUS
  <2>2. b # <<>> /\ b[1].k = "body" /\ Len(b) \in Nat \ {0}
    BY <1>1, <1>3, <2>1, EmptySeq DEF Stuck
  <2>3. /\ Len(Received') \in Nat /\ Len(Received') + 1 \in 1..Len(all)
        /\ all[Len(Received') + 1] = b[1]
        /\ \A i \in 1..Len(Received') : i \in 1..Len(all) /\ all[i] = Received'[i]
    <3>1. 1 \in 1..Len(b)
      BY <2>2
    <3> DEFINE r == Received'
    <3>2. r \in Seq(Piece) /\ r \o b = all
      BY <1>5, <1>6
    <3> HIDE DEF r, all
    <3>3. /\ Len(r) \in Nat /\ Len(r) + 1 \in 1..Len(r \o b) /\ (r \o b)[Len(r) + 1] = b[1]
          /\ \A i \in 1..Len(r) : i \in 1..Len(r \o b) /\ (r \o b)[i] = r[i]
      BY <1>3, <3>1, <3>2, JoinedPieces
    <3>4. QED
      BY <3>2, <3>3 DEF r
  <2>4. pc = "drain" /\ Len(Received') + 1 = 3
    BY <1>4, <1>7, <2>2, <2>3, BodyPlace
  <2>5. Len(Received') = 2
    <3> HIDE DEF all
    <3>1. Len(Received') \in Nat /\ Len(Received') + 1 = 3
      BY <2>3, <2>4
    <3>2. \A m \in Nat : m + 1 = 3 => m = 2
      OBVIOUS
    <3>3. QED
      BY <3>1, <3>2
  <2>6. 3 \in 1..Len(all)
    BY <2>3, <2>4
  <2>7. all[1].k = "prep" /\ all[2].k = "dhead"
    BY <1>4, <1>7, <2>4, <2>6, LenProperties DEF Fits, InPlace
  <2>8. Received'[1].k = "prep" /\ Received'[2].k = "dhead"
    BY <2>3, <2>5, <2>7
  <2>9. QED
    BY <2>4, <2>5, <2>8 DEF Decisive
<1>11. Stream'
  BY <1>1, <1>7, <1>8, <1>9, <1>10 DEF Stream, Resting, Awaiting, Waiting, AckPcs
<1>12. Queue' /\ (NoWrites => NoWrites')
  BY <1>1 DEF Queue, NoWrites
<1>13. Known' /\ Progress'
  BY <1>1, <1>2, <1>12 DEF Known, Parsed, Progress, Shown, Seen, Done, Wanted
<1>14. QED
  BY <1>11, <1>12, <1>13

LEMMA EnrolKeeps ==
    ASSUME TypeInv, TimelyRest, NEW u \in Uids, Enrol(u), UNCHANGED <<readVars, mutVars>>
    PROVE  TimelyRest'
<1> USE DEF TimelyRest
<1>1. /\ UNCHANGED <<pc, op, rd, start, table, stage, result, got, path, mss, callNo, fate,
                     toDev, conn, devOut, toCli>>
      /\ dev'.users = dev.users /\ dev.gen \in Nat /\ dev'.gen = dev.gen + 1 /\ start \in Nat
  BY DEF Enrol, TypeInv, MTypeOK, ReadTypeOK, LinkTypeOK, Memory, readVars, mutVars
<1>2. /\ Received' = Received /\ (Received \o devOut)' = Received \o devOut
      /\ Stuck' = Stuck /\ Flowing' = Flowing
  BY <1>1 DEF Received, Stuck, Flowing
<1>3. Fits(Received) => Fits(Received)'
  BY <1>1, <1>2, FitsStays
<1>4. Fits(Received \o devOut) => Fits(Received \o devOut)'
  BY <1>1, <1>2, FitsStays
<1>5. Resting'
  BY <1>1, <1>2 DEF Stream, Resting, Waiting
<1>6. Awaiting'
  <2>1. Ended(Received \o devOut)' = Ended(Received \o devOut)
    BY <1>2 DEF Ended
  <2>2. Decisive(Received)' = Decisive(Received)
    BY <1>2 DEF Decisive
  <2>3. Len(toDev) = 1 /\ Asked(toDev[1]) => (Len(toDev) = 1 /\ Asked(toDev[1]))'
    BY <1>1 DEF Asked, Req
  <2>4. QED
    BY <1>1, <1>2, <1>3, <1>4, <2>1, <2>2, <2>3 DEF Stream, Awaiting, Waiting
<1>7. Queue' /\ (NoWrites => NoWrites')
  BY <1>1 DEF Queue, NoWrites
<1>8. Known'
  BY <1>1 DEF Known, Current, Parsed
<1>9. Progress'
  BY <1>1, <1>7 DEF Progress, Shown, Seen, Done, Wanted
<1>10. QED
  BY <1>1, <1>2, <1>5, <1>6, <1>7, <1>8, <1>9 DEF Stream

LEMMA OutsideKeeps ==
    ASSUME TypeInv, TimelyRest, Outside, UNCHANGED <<readVars, mutVars>>
    PROVE  TimelyRest'
BY ServingKeeps, RebootKeeps, BreakKeeps, DeliverKeeps, EnrolKeeps DEF Outside

-----------------------------------------------------------------------------
(* The client asks, and rests.                                             *)

\* A client that stops waiting with nothing under way rests.
LEMMA Rests ==
    ASSUME pc' \notin Waiting, pc' = "write" => ~Stuck', got' = <<>>, toCli' = <<>>,
           Flowing' => toDev' = <<>> /\ devOut' = <<>>,
           conn' = "dead" => devOut' = <<>>
    PROVE  Stream'
BY DEF Stream, Resting, Awaiting, Waiting, AckPcs

\* A client that rests, and asks, waits for the answer to what it asked.
LEMMA Asks ==
    ASSUME TypeInv, Stream, pc \notin Waiting, NEW r \in Request, SendTo(r), got' = <<>>,
           pc' \in Waiting, UNCHANGED <<devOut, toCli, conn, path, mss>>,
           pc' = "drain" => r.cmd = rd',
           pc' = "freeAck" => r.cmd = "free",
           pc' \in {"ackRefresh", "ackRefresh2"} => r.cmd = "refresh",
           pc' = "ackWrite" => r = Req(op.cmd)' /\ ~Stuck
    PROVE  Stream'
<1>1. got' = <<>> /\ toCli' = <<>> /\ toDev \in Seq(Request)
  BY DEF Stream, Resting, TypeInv, MTypeOK, ReadTypeOK, LinkTypeOK
<1>2. Received' = <<>>
  BY <1>1, NothingFits DEF Received
<1>3. Fits(Received)' /\ ~Decisive(Received)'
  BY <1>2, NothingFits DEF Fits, Decisive
<1>4. Stuck' = Stuck /\ Flowing' = Flowing
  BY DEF Stuck, Flowing
<1>5. Flowing' => Len(toDev') = 1 /\ Asked(toDev[1])' /\ devOut' = <<>>
  <2>1. SUFFICES ASSUME Flowing' PROVE Len(toDev') = 1 /\ Asked(toDev[1])' /\ devOut' = <<>>
    OBVIOUS
  <2>2. toDev' = Append(toDev, r) /\ toDev = <<>> /\ devOut' = <<>>
    BY <1>4, <2>1 DEF Flowing, SendTo, Stream, Resting
  <2>3. Len(toDev') = 1 /\ toDev'[1] = r
    BY <1>1, <2>2, AppendProperties, EmptySeq
  <2>4. QED
    BY <2>2, <2>3 DEF Asked
<1>6. QED
  BY <1>1, <1>2, <1>3, <1>4, <1>5 DEF Stream, Resting, Awaiting, Waiting, AckPcs

\* In a network that answers in time only a lost or a held-up answer times out.
LEMMA TimesOut ==
    ASSUME TypeInv, Stream, Timely = TRUE, MayTimeOut
    PROVE  /\ toCli = <<>> /\ Received = got
           /\ Flowing => toDev = <<>> /\ devOut = <<>>
<1>1. toCli = <<>> /\ ~Coming
  BY DEF MayTimeOut
<1>2. got \in Seq(Piece)
  BY DEF TypeInv, MTypeOK, ReadTypeOK
<1>3. QED
  BY <1>1, <1>2, ConcatEmptySeq DEF Coming, Flowing, Received

\* Once an acknowledgement or a table is there, nothing else is under way.
LEMMA NothingBehind ==
    ASSUME TypeInv, Stream, pc \in Waiting, HasAck(Received)
    PROVE  toDev = <<>> /\ devOut = <<>>
<1>1. /\ got \in Seq(Piece) /\ toCli \in Seq(Piece) /\ devOut \in Seq(Piece)
      /\ conn \in {"up", "dead"}
  BY DEF TypeInv, MTypeOK, ReadTypeOK, LinkTypeOK
<1>2. Received \in Seq(Piece)
  BY <1>1, ConcatProperties DEF Received
<1>3. Decisive(Received)
  BY <1>2, LenProperties DEF HasAck, IsAck, Decisive
<1>4. toDev = <<>> /\ ~Stuck
  BY <1>3 DEF Stream, Awaiting
<1>5. CASE conn = "dead"
  BY <1>4, <1>5 DEF Stream
<1>6. CASE conn = "up"
  <2>1. Len(toDev) # 1
    BY <1>4, EmptySeq
  <2>2. Fits(Received \o devOut)
    BY <1>4, <1>6, <2>1 DEF Stream, Awaiting, Flowing
  <2>3. QED
    BY <1>1, <1>2, <1>4, <2>2, AckEnds
<1>7. QED
  BY <1>1, <1>5, <1>6

-----------------------------------------------------------------------------
(* The steps of a table read.                                              *)

LEMMA BulkEnds ==
    ASSUME NEW q, NEW acked, BulkDone(q, acked)
    PROVE  pc' \notin Waiting /\ pc' # "write" /\ got' = <<>>
BY DEF BulkDone, NextAttempt, NextCycle, Waiting, AckPcs

LEMMA FreeEnds ==
    ASSUME NEW ok, FreeDone(ok) PROVE pc' \in {"raw", "reconnect", "failed"}
BY DEF FreeDone, NextCycle

\* What is read from the socket and kept is still what was received.
LEMMA Collects ==
    ASSUME TypeInv, Stream, pc \in Waiting, pc # "freeAck", got' = Received, toCli' = <<>>,
           UNCHANGED <<pc, dev, toDev, devOut, conn, path, mss, fate, callNo, op, rd, start>>
    PROVE  Stream'
<1>1. Received \in Seq(Piece)
  BY ConcatProperties DEF Received, TypeInv, MTypeOK, ReadTypeOK, LinkTypeOK
<1>2. Received' = Received /\ (Received \o devOut)' = Received \o devOut
  BY <1>1, ConcatEmptySeq DEF Received
<1>3. Stuck' = Stuck /\ Flowing' = Flowing
  BY DEF Stuck, Flowing
<1>4. Fits(Received) => Fits(Received)'
  BY <1>2, FitsStays
<1>5. Fits(Received \o devOut) => Fits(Received \o devOut)'
  BY <1>2, FitsStays
<1>6. /\ Ended(Received \o devOut)' = Ended(Received \o devOut)
      /\ Decisive(Received)' = Decisive(Received)
  BY <1>2 DEF Ended, Decisive
<1>7. Asked(toDev[1]) => Asked(toDev[1])'
  BY DEF Asked, Req
<1>8. Awaiting'
  BY <1>2, <1>3, <1>4, <1>5, <1>6, <1>7 DEF Stream, Awaiting
<1>9. QED
  BY <1>3, <1>8 DEF Stream, Resting

\* CMD_FREE_DATA is answered by one acknowledgement, which its recv takes whole.
LEMMA FreeAnswer ==
    ASSUME TypeInv, Stream, pc = "freeAck", toCli # <<>>
    PROVE  Len(toCli) = 1 /\ IsAck(toCli[1]) /\ AfterRecv16(toCli) = <<>> /\ Received = toCli
<1>1. toCli \in Seq(Piece) /\ Received = toCli
  BY ConcatEmptySeq DEF Received, Stream, TypeInv, MTypeOK, ReadTypeOK, LinkTypeOK
<1>2. Fits(toCli) /\ Len(toCli) \in Nat \ {0}
  BY <1>1, EmptySeq, LenProperties DEF Stream, Awaiting, Waiting
<1>3. Len(toCli) = 1 /\ IsAck(toCli[1])
  BY <1>2 DEF Fits, AckHolds
<1>4. AfterRecv16(toCli) = Tail(toCli)
  BY <1>3 DEF AfterRecv16, IsAck
<1>5. QED
  BY <1>1, <1>3, <1>4, HeadTailProperties, EmptySeq

LEMMA TableStepKeepsStream ==
    ASSUME TypeInv, Stream, Timely = TRUE, TableSteps
    PROVE  Stream'
<1>1. /\ got \in Seq(Piece) /\ toCli \in Seq(Piece) /\ devOut \in Seq(Piece)
      /\ rd \in Reads /\ op \in Call /\ callNo \in Nat /\ conn \in {"up", "dead"}
  BY DEF TypeInv, MTypeOK, ReadTypeOK, LinkTypeOK
<1>2. \A c \in Reads \cup {"free"} : Req(c) \in Request /\ Req(c).cmd = c
  BY <1>1 DEF Req, Request, Call, Requests
<1>3. CASE RawSend
  <2>1. /\ pc \notin Waiting /\ pc' = "drain" /\ pc' \in Waiting /\ rd' = rd
        /\ SendTo(Req(rd)) /\ got' = <<>> /\ UNCHANGED <<devOut, toCli, conn, path, mss>>
    BY <1>3 DEF RawSend, Waiting, AckPcs
  <2>2. Req(rd) \in Request /\ Req(rd).cmd = rd
    BY <1>1, <1>2
  <2>3. QED
    BY <2>1, <2>2, Asks
<1>4. CASE FreeSend
  <2>1. /\ pc \notin Waiting /\ pc' = "freeAck" /\ pc' \in Waiting /\ got' = got
        /\ SendTo(Req("free")) /\ UNCHANGED <<devOut, toCli, conn, path, mss>>
    BY <1>4 DEF FreeSend, Waiting, AckPcs
  <2>2. got' = <<>>
    BY <2>1 DEF Stream, Resting
  <2>3. Req("free") \in Request /\ Req("free").cmd = "free"
    BY <1>2
  <2>4. QED
    BY <2>1, <2>2, <2>3, Asks
<1>5. CASE RawSendError
  <2>1. /\ pc' \notin Waiting /\ pc' # "write" /\ got' = <<>>
        /\ pc \notin Waiting /\ UNCHANGED linkVars
    BY <1>5, BulkEnds DEF RawSendError, Waiting, AckPcs
  <2>2. QED
    BY <2>1, Rests DEF linkVars, Stream, Resting, Flowing, Stuck
<1>6. CASE FreeSendError
  <2>1. /\ pc' \notin Waiting /\ pc' # "write" /\ got' = got
        /\ pc \notin Waiting /\ UNCHANGED linkVars
    BY <1>6, FreeEnds DEF FreeSendError, Waiting, AckPcs
  <2>2. QED
    BY <2>1, Rests DEF linkVars, Stream, Resting, Flowing, Stuck
<1>7. CASE DrainRecv
  <2>1. /\ pc = "drain" /\ pc \in Waiting /\ toCli' = <<>>
        /\ UNCHANGED <<dev, toDev, devOut, conn, path, mss, fate, callNo, op, rd, start>>
    BY <1>7 DEF DrainRecv, Waiting
  <2>2. CASE HasAck(Received) /\ BulkDone(Received, TRUE)
    <3>1. devOut' = <<>> /\ toDev' = <<>>
      BY <2>1, <2>2, NothingBehind
    <3>2. pc' \notin Waiting /\ pc' # "write" /\ got' = <<>>
      BY <2>2, BulkEnds
    <3>3. QED
      BY <2>1, <3>1, <3>2, Rests
  <2>3. CASE got' = Received /\ pc' = pc
    BY <1>1, <2>1, <2>3, Collects
  <2>4. QED
    BY <1>7, <2>2, <2>3 DEF DrainRecv, Received
<1>8. CASE DrainQuiet
  <2>1. pc \in Waiting /\ UNCHANGED linkVars /\ MayTimeOut
    BY <1>8 DEF DrainQuiet, Waiting
  <2>2. pc' \notin Waiting /\ pc' # "write" /\ got' = <<>>
    BY <1>8, BulkEnds DEF DrainQuiet, Waiting, AckPcs
  <2>3. toCli = <<>> /\ (Flowing => toDev = <<>> /\ devOut = <<>>)
    BY <2>1, TimesOut
  <2>4. QED
    BY <2>1, <2>2, <2>3, Rests DEF linkVars, Stream, Flowing, Stuck
<1>9. CASE FreeQuiet
  <2>1. pc = "freeAck" /\ UNCHANGED linkVars /\ MayTimeOut
    BY <1>9 DEF FreeQuiet
  <2>2. pc' \notin Waiting /\ pc' # "write" /\ got' = <<>>
    BY <1>9, <2>1, FreeEnds DEF FreeQuiet, Waiting, AckPcs, Stream
  <2>3. toCli = <<>> /\ (Flowing => toDev = <<>> /\ devOut = <<>>)
    BY <2>1, TimesOut
  <2>4. QED
    BY <2>1, <2>2, <2>3, Rests DEF linkVars, Stream, Flowing, Stuck
<1>10. CASE FreeRecv
  <2>1. /\ pc = "freeAck" /\ pc \in Waiting /\ toCli # <<>> /\ toCli' = AfterRecv16(toCli)
        /\ UNCHANGED <<toDev, devOut, conn, path, mss, got>>
    BY <1>10 DEF FreeRecv, Waiting
  <2>2. pc' \notin Waiting /\ pc' # "write" /\ got' = <<>>
    BY <1>10, <2>1, FreeEnds DEF FreeRecv, Waiting, AckPcs, Stream
  <2>3. Received = toCli /\ Len(toCli) = 1 /\ IsAck(toCli[1]) /\ toCli' = <<>>
    BY <2>1, FreeAnswer
  <2>4. HasAck(Received)
    BY <1>1, <2>3, LenProperties DEF HasAck
  <2>5. toDev' = <<>> /\ devOut' = <<>>
    BY <2>1, <2>4, NothingBehind
  <2>6. QED
    BY <2>1, <2>2, <2>3, <2>5, Rests
<1>11. CASE Reconnect \/ ReconnectFails
  <2>1. /\ pc \notin Waiting /\ pc' \in {"free", "reconnect", "failed"} /\ got' = got
        /\ toDev' = <<>> /\ devOut' = <<>> /\ toCli' = <<>>
    BY <1>11 DEF Reconnect, ReconnectFails, NewSocket, NextCycle, Waiting, AckPcs
  <2>2. pc' \notin Waiting /\ pc' # "write" /\ got' = <<>>
    BY <2>1 DEF Stream, Resting, Waiting, AckPcs
  <2>3. QED
    BY <2>1, <2>2, Rests
<1>12. QED
  BY <1>3, <1>4, <1>5, <1>6, <1>7, <1>8, <1>9, <1>10, <1>11 DEF TableSteps

\* A request that mutates nothing may be added to the queue of a read.
LEMMA SendKeepsQueue ==
    ASSUME TypeInv, Queue, pc # "ackWrite", NEW r \in Request, r.cmd \notin Mutations, SendTo(r),
           UNCHANGED <<conn, fate, callNo, op>>
    PROVE  Queue' /\ (NoWrites => NoWrites')
<1>1. toDev \in Seq(Request) /\ conn \in {"up", "dead"}
  BY DEF TypeInv, MTypeOK, ReadTypeOK, LinkTypeOK
<1>2. CASE conn = "up"
  <2>1. NoWrites
    BY <1>2 DEF Queue, NoWrites
  <2>2. /\ Len(toDev) \in Nat /\ Len(toDev') = Len(toDev) + 1 /\ toDev'[Len(toDev) + 1] = r
        /\ \A i \in 1..Len(toDev) : toDev'[i] = toDev[i]
    BY <1>1, <1>2, AppendProperties, LenProperties DEF SendTo
  <2>3. NoWrites'
    BY <2>1, <2>2 DEF NoWrites
  <2>4. QED
    BY <2>3 DEF Queue, NoWrites
<1>3. CASE conn = "dead"
  BY <1>3 DEF SendTo, Queue, NoWrites
<1>4. QED
  BY <1>1, <1>2, <1>3

LEMMA SameQueue ==
    ASSUME Queue, pc # "ackWrite" \/ pc' = pc \/ conn = "dead" \/ toDev = <<>>,
           UNCHANGED <<toDev, conn, fate, callNo, op>>
    PROVE  Queue' /\ (NoWrites => NoWrites')
BY DEF Queue, NoWrites

LEMMA TableStepKeepsQueue ==
    ASSUME TypeInv, Queue, TableSteps
    PROVE  Queue' /\ (NoWrites => NoWrites')
<1>1. pc # "ackWrite" /\ UNCHANGED <<fate, callNo, op>>
  BY TableStepFrame DEF TablePcs, ReadPcs
<1>2. CASE RawSend \/ FreeSend
  <2>1. rd \in Reads /\ op \in Call /\ callNo \in Nat
    BY DEF TypeInv, MTypeOK, ReadTypeOK, LinkTypeOK
  <2>2. PICK c \in {rd, "free"} : SendTo(Req(c)) /\ conn' = conn
    BY <1>2 DEF RawSend, FreeSend
  <2>3. Req(c) \in Request /\ Req(c).cmd \notin Mutations
    BY <2>1 DEF Req, Request, Call, Requests, Reads, Mutations
  <2>4. QED
    BY <1>1, <2>2, <2>3, SendKeepsQueue
<1>3. CASE RawSendError \/ DrainQuiet \/ FreeSendError \/ FreeQuiet \/ DrainRecv \/ FreeRecv
  <2>1. UNCHANGED <<toDev, conn>>
    BY <1>3 DEF RawSendError, DrainQuiet, FreeSendError, FreeQuiet, DrainRecv, FreeRecv, linkVars
  <2>2. QED
    BY <1>1, <2>1, SameQueue
<1>4. CASE Reconnect \/ ReconnectFails
  <2>1. toDev' = <<>>
    BY <1>4 DEF Reconnect, ReconnectFails, NewSocket
  <2>2. QED
    BY <2>1, EmptySeq DEF Queue, NoWrites
<1>5. QED
  BY <1>2, <1>3, <1>4 DEF TableSteps

\* A table that the gate lets through is the table asked for, as it is now.
LEMMA BulkTakes ==
    ASSUME TypeInv, Stream, Known, pc \in TablePcs, NEW q \in Seq(Piece), NEW acked, BulkDone(q, acked),
           Fits(q), HasAck(q) \/ Decisive(q) => toDev' = <<>> /\ devOut' = <<>>,
           UNCHANGED <<dev, op, rd, start>>
    PROVE  Known'
<1>1. /\ rd \in Reads /\ table \in [Reads -> Tables] /\ Len(q) \in Nat
      /\ DOMAIN q = 1..Len(q)
  BY LenProperties DEF TypeInv, MTypeOK, ReadTypeOK
<1>2. CASE \E j \in DOMAIN q : /\ Complete(q, j, rd)
                              /\ pc' = "parsed"
                              /\ table' = [table EXCEPT ![rd] = <<q[j]>>]
  <2>1. PICK j \in 1..Len(q) : /\ q[j].k = "body" /\ pc' = "parsed"
                               /\ table' = [table EXCEPT ![rd] = <<q[j]>>]
    BY <1>1, <1>2 DEF Complete
  <2>2. Current(q[j]) /\ Decisive(q)
    BY <2>1, BodyPlace DEF Decisive
  <2>3. table'[rd] = <<q[j]>> /\ \A c \in Reads \ {rd} : table'[c] = table[c]
    BY <1>1, <2>1
  <2>4. table'[rd] # <<>> /\ table'[rd][1] = q[j]
    BY <2>3
  <2>5. Current(table[rd][1])'
    BY <2>2, <2>4 DEF Current
  <2>6. \A c \in Reads : table'[c] # <<>> => table'[c][1].cmd = c
    <3>1. SUFFICES ASSUME NEW c \in Reads, table'[c] # <<>> PROVE table'[c][1].cmd = c
      OBVIOUS
    <3>2. CASE c = rd
      BY <2>2, <2>4, <3>2 DEF Current
    <3>3. CASE c # rd
      BY <2>3, <3>1, <3>3 DEF Known
    <3>4. QED
      BY <3>2, <3>3
  <2>7. QED
    BY <2>1, <2>2, <2>4, <2>5, <2>6 DEF Known
<1>3. CASE table' = table /\ pc' \in {"free", "reconnect", "failed"}
  BY <1>3 DEF Known
<1>4. QED
  BY <1>2, <1>3 DEF BulkDone, NextAttempt, NextCycle

LEMMA TableStepKeepsKnown ==
    ASSUME TypeInv, Stream, Known, Timely = TRUE, TableSteps
    PROVE  Known'
<1>1. /\ got \in Seq(Piece) /\ toCli \in Seq(Piece)
      /\ pc \in TablePcs /\ UNCHANGED <<dev, op, rd, start>>
      /\ Received \in Seq(Piece)
  BY TableStepFrame, ConcatProperties DEF TypeInv, MTypeOK, ReadTypeOK, LinkTypeOK, Received
<1>2. CASE table' = table /\ pc' # "parsed"
  BY <1>1, <1>2, TableStepFrame DEF Known, TablePcs, ReadPcs
<1>3. CASE RawSendError
  <2>1. BulkDone(<<>>, FALSE)
    BY <1>3, Zenon DEF RawSendError
  <2>2. Fits(<<>>) /\ ~Decisive(<<>>) /\ ~HasAck(<<>>) /\ <<>> \in Seq(Piece)
    BY NothingFits DEF HasAck
  <2>3. QED
    BY <1>1, <2>1, <2>2, BulkTakes
<1>4. CASE DrainRecv
  <2>1. pc \in Waiting /\ UNCHANGED <<toDev, devOut>>
    BY <1>4 DEF DrainRecv, Waiting
  <2>2. CASE HasAck(Received) /\ BulkDone(Received, TRUE)
    <3>1. toDev' = <<>> /\ devOut' = <<>>
      BY <2>1, <2>2, NothingBehind
    <3>2. Fits(Received)
      BY <2>1 DEF Stream, Awaiting
    <3>3. QED
      BY <1>1, <2>2, <3>1, <3>2, BulkTakes
  <2>3. CASE table' = table /\ pc' = pc
    BY <1>1, <1>2, <1>4, <2>3 DEF DrainRecv
  <2>4. QED
    BY <1>4, <2>2, <2>3 DEF DrainRecv, Received
<1>5. CASE DrainQuiet
  <2>1. pc \in Waiting /\ UNCHANGED linkVars /\ MayTimeOut
    BY <1>5 DEF DrainQuiet, Waiting
  <2>2. Received = got /\ (Flowing => toDev = <<>> /\ devOut = <<>>)
    BY <2>1, TimesOut
  <2>3. Fits(got) /\ (Decisive(got) => toDev = <<>> /\ devOut = <<>>)
    BY <2>1, <2>2 DEF Stream, Awaiting, Flowing, TypeInv, MTypeOK, ReadTypeOK, LinkTypeOK
  <2>4. CASE table' = table /\ pc' = "raw"
    BY <1>2, <2>4
  <2>5. CASE BulkDone(IF BigEnough(got) THEN got ELSE <<>>, FALSE)
    <3> DEFINE q == IF BigEnough(got) THEN got ELSE <<>>
    <3>1. q \in Seq(Piece) /\ Fits(q)
      BY <1>1, <2>3, NothingFits
    <3>2. HasAck(got) => Decisive(got)
      BY <1>1, LenProperties DEF HasAck, IsAck, Decisive
    <3>3. HasAck(q) \/ Decisive(q) => toDev' = <<>> /\ devOut' = <<>>
      <4>1. CASE q = got
        BY <2>1, <2>3, <3>2, <4>1 DEF linkVars
      <4>2. CASE q = <<>>
        BY <4>2, NothingFits, EmptySeq DEF HasAck
      <4>3. QED
        BY <4>1, <4>2
    <3>4. QED
      <4> HIDE DEF q
      <4>1. BulkDone(q, FALSE)
        BY <2>5 DEF q
      <4>2. QED
        BY <1>1, <3>1, <3>3, <4>1, BulkTakes
  <2>6. QED
    BY <1>5, <2>4, <2>5 DEF DrainQuiet
<1>6. CASE RawSend \/ FreeSend \/ Reconnect \/ ReconnectFails
  BY <1>2, <1>6 DEF RawSend, FreeSend, Reconnect, ReconnectFails, NextCycle
<1>7. CASE FreeSendError \/ FreeRecv \/ FreeQuiet
  BY <1>2, <1>7, FreeEnds DEF FreeSendError, FreeRecv, FreeQuiet
<1>8. QED
  BY <1>3, <1>4, <1>5, <1>6, <1>7 DEF TableSteps

LEMMA TableStepKeeps ==
    ASSUME TypeInv, TimelyRest, Timely = TRUE, TableSteps, UNCHANGED mutVars
    PROVE  TimelyRest'
<1>1. Progress'
  BY TableStepFrame, TableStepKeepsQueue
     DEF TimelyRest, Progress, Done, Wanted, TablePcs, ReadPcs, SendPcs, AckPcs, mutVars
<1>2. QED
  BY <1>1, TableStepKeepsStream, TableStepKeepsQueue, TableStepKeepsKnown DEF TimelyRest

-----------------------------------------------------------------------------
(* Calls begin and reads return.                                           *)

LEMMA ReadEndKeeps ==
    ASSUME TypeInv, TimelyRest, ReadReturns \/ AttendanceNext \/ ReadFails, UNCHANGED mutVars
    PROVE  TimelyRest'
<1> USE DEF TimelyRest
<1>1. /\ pc \in {"parsed", "failed"} /\ pc' \in {"idle", "free"} /\ op.cmd \notin Mutations
      /\ UNCHANGED linkVars /\ UNCHANGED <<op, got, table, start>>
      /\ UNCHANGED rd \/ (rd' = "attendance" /\ op.cmd = "attendance")
      /\ result' \in {"ok", "error", result}
      /\ rd \in Reads
  BY DEF ReadReturns, AttendanceNext, ReadFails, Return, BeginTable, Reads, Mutations,
         TypeInv, MTypeOK, ReadTypeOK
<1>2. Stream'
  BY <1>1, Rests DEF Stream, Resting, Waiting, AckPcs, linkVars, Flowing, Stuck
<1>3. Queue'
  BY <1>1, SameQueue DEF linkVars
<1>4. Known'
  BY <1>1 DEF Known, linkVars, Reads, Mutations
<1>5. Progress'
  <2>1. (Done => Done') /\ (NoWrites => NoWrites')
    BY <1>1 DEF Done, Wanted, NoWrites, linkVars
  <2>2. QED
    BY <1>1, <2>1 DEF Progress, linkVars, SendPcs, AckPcs, Mutations
<1>6. QED
  BY <1>2, <1>3, <1>4, <1>5

LEMMA CallKeeps ==
    ASSUME TypeInv, TimelyRest, NEW c, NewCall(c), got' = <<>>, UNCHANGED <<dev, table>>,
           \/ UNCHANGED <<toDev, devOut, toCli, conn, path, mss>>
           \/ toDev' = <<>> /\ devOut' = <<>> /\ toCli' = <<>>,
           pc' \in {"idle", "raw", "refresh"}, result' # "true",
           pc' = "refresh" => c.cmd = "reboot",
           c.cmd \in {"set", "delete"} => rd' = "users",
           c.cmd = "set" => c.uid \in Uids,
           c.cmd = "delete" => stage' = "preflight"
    PROVE  TimelyRest'
<1> USE DEF TimelyRest
<1>1. /\ pc = "idle" /\ callNo' = callNo + 1 /\ fate' = "unsent" /\ start' = dev.gen /\ op' = c
      /\ callNo \in Nat /\ dev.gen \in Nat /\ toDev \in Seq(Request)
      /\ conn \in {"up", "dead"}
  BY DEF NewCall, TypeInv, MTypeOK, ReadTypeOK, LinkTypeOK, Memory
<1>2. Stream'
  <2>1. pc' \notin Waiting /\ pc' # "write"
    BY DEF Waiting, AckPcs
  <2>2. CASE UNCHANGED <<toDev, devOut, toCli, conn, path, mss>>
    BY <1>1, <2>1, <2>2, Rests DEF Stream, Resting, Waiting, AckPcs, Flowing, Stuck
  <2>3. CASE toDev' = <<>> /\ devOut' = <<>> /\ toCli' = <<>>
    BY <2>1, <2>3, Rests
  <2>4. QED
    BY <2>2, <2>3
<1>3. Queue'
  <2>1. CASE UNCHANGED <<toDev, conn>>
    <3>1. SUFFICES ASSUME NEW i \in 1..Len(toDev), toDev[i].cmd \in Mutations
                   PROVE  /\ Len(toDev) = 1 /\ conn = "dead"
                          /\ toDev[i].cmd # "reboot" => toDev[i].uid \in Uids
                          /\ toDev[i].call <= callNo + 1 /\ toDev[i].call # callNo + 1
      BY <1>1, <2>1 DEF Queue
    <3>2. /\ Len(toDev) = 1 /\ conn = "dead" /\ toDev[i].call <= callNo
          /\ toDev[i].cmd # "reboot" => toDev[i].uid \in Uids
      BY <1>1, <3>1 DEF Queue
    <3>3. toDev[i].call \in Nat
      <4>1. toDev[i] \in Request
        BY <1>1, ElementOfSeq
      <4>2. QED
        BY <4>1 DEF Request
    <3>4. QED
      BY <1>1, <3>2, <3>3
  <2>2. CASE toDev' = <<>>
    BY <2>2, EmptySeq DEF Queue
  <2>3. QED
    BY <2>1, <2>2
<1>4. Known'
  <2>1. start' <= dev'.gen
    BY <1>1
  <2>2. QED
    BY <1>1, <2>1 DEF Known
<1>5. Progress'
  BY <1>1 DEF Progress, SendPcs, AckPcs
<1>6. QED
  BY <1>2, <1>3, <1>4, <1>5

LEMMA CallsKeep ==
    ASSUME TypeInv, TimelyRest, Calls, UNCHANGED mutVars
    PROVE  TimelyRest'
<1>1. CASE \E cmd \in ReadOps \cap Reads : StartRead(cmd)
  <2>1. PICK cmd \in ReadOps \cap Reads : StartRead(cmd)
    BY <1>1
  <2> DEFINE c == [NoCall EXCEPT !.cmd = cmd]
  <2>2. c.cmd = cmd /\ cmd \notin {"set", "delete", "reboot"}
    BY DEF NoCall, Reads
  <2>3. /\ NewCall(c) /\ got' = <<>> /\ pc' = "raw" /\ result' = "none"
        /\ UNCHANGED <<dev, table, toDev, devOut, toCli, conn, path, mss>>
    BY <2>1 DEF StartRead, BeginTable
  <2> HIDE DEF c
  <2>4. QED
    BY <2>2, <2>3, CallKeeps
<1>2. CASE ConnectSucceeds \/ ConnectFails
  <2>1. PICK up \in BOOLEAN : Connect(up)
    BY <1>2 DEF ConnectSucceeds, ConnectFails
  <2> DEFINE c == [NoCall EXCEPT !.cmd = "connect"]
  <2>2. c.cmd = "connect"
    BY DEF NoCall
  <2>3. /\ NewCall(c) /\ pc' = pc /\ got' = got /\ result' \in {"ok", "error"}
        /\ toDev' = <<>> /\ devOut' = <<>> /\ toCli' = <<>>
        /\ UNCHANGED <<dev, table>>
    BY <2>1 DEF Connect
  <2> HIDE DEF c
  <2>4. pc' = "idle" /\ got' = <<>>
    BY <2>3 DEF NewCall, TimelyRest, Stream, Resting, Waiting, AckPcs
  <2>5. QED
    BY <2>2, <2>3, <2>4, CallKeeps
<1>3. QED
  BY <1>1, <1>2 DEF Calls

LEMMA MutationCallsKeep ==
    ASSUME TypeInv, TimelyRest, MutationCalls
    PROVE  TimelyRest'
<1>1. PICK cmd \in MutateOps : \E c \in Arguments(cmd) : StartMutation(c)
  BY DEF MutationCalls
<1>2. PICK c \in Arguments(cmd) : StartMutation(c)
  BY <1>1
<1>3. c.cmd = cmd /\ cmd \in Mutations
  BY <1>2, ArgumentsType, MutateOpsAssumption
<1>4. c.cmd = "set" => c.uid \in Uids
  BY <1>2, <1>3 DEF Arguments
<1>5. /\ NewCall(c) /\ got' = <<>> /\ result' = "none" /\ stage' = "preflight"
      /\ UNCHANGED <<dev, table, toDev, devOut, toCli, conn, path, mss>>
      /\ \/ c.cmd # "reboot" /\ rd' = "users" /\ pc' = "raw"
         \/ c.cmd = "reboot" /\ pc' = "refresh"
  BY <1>2 DEF StartMutation, BeginTable
<1>6. QED
  BY <1>3, <1>4, <1>5, CallKeeps

-----------------------------------------------------------------------------
(* The steps of a mutation.                                                *)

LEMMA PreflightKeeps ==
    ASSUME TypeInv, TimelyRest, PreflightSet \/ PreflightDelete
    PROVE  TimelyRest'
<1> USE DEF TimelyRest
<1>1. /\ pc = "parsed" /\ pc' \in {"refresh", "idle"} /\ op.cmd \in {"set", "delete"}
      /\ stage = "preflight" /\ stage' = stage
      /\ UNCHANGED linkVars /\ UNCHANGED <<rd, got, table, start>>
      /\ op \in Call /\ dev.gen \in Nat
  BY DEF PreflightSet, PreflightDelete, Preflight, Proceed, Decline, Return, mutVars,
         TypeInv, MTypeOK, ReadTypeOK, LinkTypeOK, Memory
<1>2. \/ \E u \in Uids : Proceed(u)
      \/ op' = op /\ pc' = "idle" /\ result' \in {"reserved", "false"}
  BY <1>1 DEF PreflightSet, PreflightDelete, Matches, Decline, Return, Progress
<1>3. Stream'
  BY <1>1, Rests DEF Stream, Resting, Waiting, AckPcs, linkVars, Flowing, Stuck
<1>4. toDev' = <<>> /\ table["users"] # <<>> /\ Parsed.gen >= start
  BY <1>1 DEF Known, linkVars, Current, Parsed
<1>5. Queue'
  BY <1>4, EmptySeq DEF Queue
<1>6. result # "true" /\ fate = "unsent"
  BY <1>1 DEF Progress, TablePcs, ReadPcs, Mutations
<1>7. CASE \E u \in Uids : Proceed(u)
  <2>1. PICK u \in Uids : Proceed(u)
    BY <1>7
  <2>2. /\ op'.cmd = op.cmd /\ op'.uid = u /\ pc' = "refresh" /\ result' = result
        /\ u \notin Parsed.tpl
    BY <1>1, <2>1 DEF Proceed, SlotSafe, Call
  <2>3. Known'
    BY <1>1, <1>4, <2>2 DEF Known, Parsed, linkVars
  <2>4. Progress'
    BY <1>1, <1>6, <2>2 DEF Progress, linkVars
  <2>5. QED
    BY <1>3, <1>5, <2>3, <2>4
<1>8. CASE op' = op /\ pc' = "idle" /\ result' \in {"reserved", "false"}
  <2>1. Known'
    BY <1>1, <1>8 DEF Known, linkVars
  <2>2. Progress'
    BY <1>1, <1>6, <1>8 DEF Progress, linkVars, SendPcs, AckPcs, TablePcs
  <2>3. QED
    BY <1>3, <1>5, <2>1, <2>2
<1>9. QED
  BY <1>2, <1>7, <1>8

LEMMA DoneIsShown == Done => Shown
BY DEF Shown, Seen, Done, Wanted, Alike

\* A mutation that returns says no more than it knows.
LEMMA MutationEndKeeps ==
    ASSUME TypeInv, TimelyRest, TableReadFails \/ SendError \/ AckRaises \/ Verified
    PROVE  TimelyRest'
<1> USE DEF TimelyRest
<1>1. /\ pc' = "idle" /\ pc # "idle"
      /\ pc \notin Waiting \/ conn = "dead"
      /\ UNCHANGED linkVars /\ UNCHANGED <<op, rd, table, start, stage>>
      /\ got' \in {got, <<>>} /\ (pc \in Waiting => got' = <<>> /\ toCli = <<>>)
  BY DEF TableReadFails, SendError, AckRaises, Verified, Return, Waiting, AckPcs, SendPcs,
         mutVars
<1>2. Stream'
  BY <1>1, Rests DEF Stream, Resting, Waiting, AckPcs, linkVars, Flowing, Stuck
<1>3. Queue' /\ (NoWrites => NoWrites')
  BY <1>1, SameQueue DEF linkVars, Waiting, AckPcs
<1>4. Known'
  BY <1>1 DEF Known, linkVars
<1>5. result' = "true" => op.cmd \in {"set", "delete"} /\ Shown /\ NoWrites
  <2>1. CASE TableReadFails \/ AckRaises
    BY <2>1 DEF TableReadFails, AckRaises, Return
  <2>2. CASE SendError
    <3>1. pc \in SendPcs /\ (result' = "true" => pc = "refresh2")
      BY <2>2 DEF SendError, Return
    <3>2. QED
      BY <3>1, DoneIsShown DEF Progress, TypeInv, MutatingOp, Mutations
  <2>3. CASE Verified
    <3>1. /\ pc = "parsed" /\ op.cmd \in {"set", "delete"}
          /\ result' = "true" => Seen(Parsed.users[op.uid])
      BY <2>3 DEF Verified, Confirmed, Return, Seen
    <3>2. Parsed.users = dev.users /\ toDev = <<>>
      BY <3>1 DEF Known, Current, Parsed
    <3>3. QED
      BY <3>1, <3>2, EmptySeq DEF Shown, Progress, NoWrites
  <2>4. QED
    BY <2>1, <2>2, <2>3
<1>6. (Done => Done') /\ (Shown => Shown')
  BY <1>1 DEF Shown, Seen, Done, Wanted, linkVars
<1>7. Progress'
  BY <1>1, <1>3, <1>5, <1>6 DEF Progress, linkVars, SendPcs, AckPcs, TablePcs, Mutations
<1>8. QED
  BY <1>2, <1>3, <1>4, <1>7

LEMMA RefreshSendKeeps ==
    ASSUME TypeInv, TimelyRest, RefreshSend
    PROVE  TimelyRest'
<1> USE DEF TimelyRest
<1>1. /\ pc \notin Waiting /\ pc' \in Waiting /\ got' = <<>>
      /\ \/ pc = "refresh" /\ pc' = "ackRefresh"
         \/ pc = "refresh2" /\ pc' = "ackRefresh2"
      /\ SendTo(Req("refresh"))
      /\ UNCHANGED <<devOut, toCli, conn, path, mss, dev, fate, callNo, op, rd, table, start,
                     result, stage>>
  BY DEF RefreshSend, AwaitAck, Waiting, AckPcs
<1>2. Req("refresh") \in Request /\ Req("refresh").cmd = "refresh" /\ "refresh" \notin Mutations
  BY DEF Req, Request, Call, Requests, Mutations, TypeInv, MTypeOK, ReadTypeOK, LinkTypeOK
<1>3. Stream'
  BY <1>1, <1>2, Asks
<1>4. Queue' /\ (NoWrites => NoWrites')
  BY <1>1, <1>2, SendKeepsQueue
<1>5. Known'
  BY <1>1 DEF Known, Parsed
<1>6. Done => Done'
  BY <1>1 DEF Done, Wanted
<1>7. Progress'
  BY <1>1, <1>4, <1>6 DEF Progress, SendPcs, AckPcs, TablePcs, ReadPcs
<1>8. QED
  BY <1>3, <1>4, <1>5, <1>7

LEMMA WriteSendKeeps ==
    ASSUME TypeInv, TimelyRest, WriteSend
    PROVE  TimelyRest'
<1> USE DEF TimelyRest
<1> DEFINE r == Req(op.cmd)
<1>1. /\ pc = "write" /\ pc' = "ackWrite" /\ got' = <<>> /\ SendTo(r)
      /\ pc \notin Waiting /\ pc' \in Waiting
      /\ fate' = IF conn = "up" THEN "sent" ELSE fate
      /\ UNCHANGED <<devOut, toCli, conn, path, mss, dev, callNo, op, rd, table, start,
                     result, stage>>
      /\ ~Stuck /\ conn \in {"up", "dead"} /\ callNo \in Nat
  BY DEF WriteSend, AwaitAck, Waiting, AckPcs, Stream, TypeInv, MTypeOK, ReadTypeOK, LinkTypeOK
<1>2. r \in Request /\ r.cmd = op.cmd /\ r.uid = op.uid /\ r.val = op.val /\ r.call = callNo
  BY <1>1 DEF Req, Request, Call, Requests, Mutations, TypeInv, MutatingOp, SendPcs,
              MTypeOK, ReadTypeOK, LinkTypeOK
<1>3. Stream'
  <2>1. Req(op.cmd)' = r
    BY <1>1 DEF Req
  <2>2. QED
    BY <1>1, <1>2, <2>1, Asks
<1>4. Queue'
  <2>1. CASE conn = "dead"
    BY <1>1, <2>1 DEF SendTo, Queue
  <2>2. CASE conn = "up"
    <3>1. toDev = <<>> /\ toDev' = Append(toDev, r)
      BY <1>1, <2>2 DEF Stream, Resting, Flowing, SendTo
    <3>2. Len(toDev') = 1 /\ toDev'[1] = r
      BY <1>2, <3>1, AppendProperties, EmptySeq
    <3>3. op.cmd \in Mutations /\ (op.cmd # "reboot" => op.uid \in Uids)
      BY <1>1 DEF Progress, TypeInv, MutatingOp, SendPcs, Mutations
    <3> HIDE DEF r
    <3>4. QED
      BY <1>1, <1>2, <2>2, <3>2, <3>3 DEF Queue
  <2>3. QED
    BY <1>1, <2>1, <2>2
<1>5. Known'
  BY <1>1 DEF Known
<1>6. Progress'
  BY <1>1 DEF Progress, SendPcs, AckPcs, TablePcs, ReadPcs
<1>7. QED
  BY <1>3, <1>4, <1>5, <1>6

LEMMA AckRecvKeeps ==
    ASSUME TypeInv, TimelyRest, AckRecv
    PROVE  TimelyRest'
<1> USE DEF TimelyRest
<1>1. /\ pc \in AckPcs /\ pc \in Waiting /\ pc # "freeAck"
      /\ got' = Received /\ toCli' = <<>>
      /\ UNCHANGED <<pc, dev, toDev, devOut, conn, path, mss, fate, callNo, op, rd, start, table,
                     result, stage>>
  BY DEF AckRecv, AckPcs, Waiting, Received, mutVars
<1>2. Stream'
  BY <1>1, Collects
<1>3. Queue' /\ (NoWrites => NoWrites')
  BY <1>1, SameQueue
<1>4. Known'
  BY <1>1 DEF Known, Current, Parsed
<1>5. Progress'
  BY <1>1, <1>3 DEF Progress, Shown, Seen, Done, Wanted
<1>6. QED
  BY <1>2, <1>3, <1>4, <1>5

\* The acknowledgement says what became of the request, and silence says nothing.
LEMMA AckTells ==
    ASSUME TypeInv, TimelyRest, Timely = TRUE, MayTimeOut, pc \in AckPcs, NEW a \in AckValues(got)
    PROVE  /\ a \in {"ok", "other", "none"}
           /\ Flowing => toDev = <<>> /\ devOut = <<>>
           /\ a = "ok" => ~Stuck /\ toDev = <<>>
           /\ pc = "ackWrite" /\ a = "ok" => fate = "applied" /\ Done
           /\ pc = "ackWrite" /\ a = "other" => fate = "refused"
<1> USE DEF TimelyRest
<1>1. /\ pc \in Waiting /\ pc # "drain"
      /\ Received = got /\ got \in Seq(Piece)
      /\ Flowing => toDev = <<>> /\ devOut = <<>>
  BY TimesOut DEF Waiting, AckPcs, TypeInv, MTypeOK, ReadTypeOK
<1>2. Fits(got) /\ (Decisive(got) => toDev = <<>> /\ ~Stuck)
  BY <1>1 DEF Stream, Awaiting
<1>3. CASE got = <<>>
  BY <1>1, <1>3 DEF AckValues
<1>4. CASE got # <<>>
  <2>1. Len(got) \in Nat \ {0}
    BY <1>1, <1>4, EmptySeq, LenProperties
  <2>2. Len(got) <= 1 /\ \A i \in 1..Len(got) : AckHolds(got[i])
    BY <1>1, <1>2 DEF Fits
  <2>3. 1 \in 1..Len(got) /\ AckHolds(got[1]) /\ got[1].k \in {"ok", "err"}
    BY <2>1, <2>2 DEF AckHolds, IsAck
  <2>4. Decisive(got)
    BY <2>3 DEF Decisive
  <2>5. a = IF got[1].k = "ok" THEN "ok" ELSE "other"
    BY <1>4, <2>3 DEF AckValues
  <2>6. QED
    BY <1>1, <1>2, <2>3, <2>4, <2>5 DEF AckHolds
<1>5. QED
  BY <1>3, <1>4

LEMMA AckQuietKeeps ==
    ASSUME TypeInv, TimelyRest, Timely = TRUE, AckQuiet
    PROVE  TimelyRest'
<1> USE DEF TimelyRest
<1>1. /\ pc \in AckPcs /\ MayTimeOut /\ got' = <<>>
      /\ UNCHANGED linkVars /\ UNCHANGED <<op, table, start>>
      /\ op.cmd \in Mutations /\ conn \in {"up", "dead"}
  BY DEF AckQuiet, TypeInv, MutatingOp, MTypeOK, ReadTypeOK, LinkTypeOK
<1>2. PICK a \in AckValues(got) : \/ pc = "ackRefresh"  /\ AfterRefresh(a)
                                  \/ pc = "ackWrite"    /\ AfterWrite(a)
                                  \/ pc = "ackRefresh2" /\ AfterRefresh2
  BY DEF AckQuiet
<1>3. /\ toCli = <<>> /\ a \in {"ok", "other", "none"}
      /\ Flowing => toDev = <<>> /\ devOut = <<>>
      /\ a = "ok" => ~Stuck /\ toDev = <<>>
      /\ pc = "ackWrite" /\ a = "ok" => fate = "applied" /\ Done
      /\ pc = "ackWrite" /\ a = "other" => fate = "refused"
  BY <1>1, AckTells DEF MayTimeOut
<1>4. pc' \notin Waiting /\ (pc' = "write" => a = "ok" /\ pc = "ackRefresh")
  BY <1>2 DEF AfterRefresh, AfterWrite, AfterRefresh2, Return, BeginTable, Waiting, AckPcs
<1>5. Stream'
  BY <1>1, <1>3, <1>4, Rests DEF linkVars, Stream, Flowing, Stuck
<1>6. pc = "ackWrite" => toDev = <<>> \/ conn = "dead"
  BY <1>1, <1>3 DEF Flowing, Stream
<1>7. Queue' /\ (NoWrites => NoWrites')
  BY <1>1, <1>6, SameQueue DEF linkVars
<1>8. (Done => Done' /\ Shown') /\ (a = "ok" => NoWrites)
  BY <1>1, <1>3, EmptySeq, DoneIsShown DEF Shown, Seen, Done, Wanted, linkVars, NoWrites
<1>9. CASE pc = "ackRefresh" /\ AfterRefresh(a)
  <2>1. /\ \/ pc' = "write" /\ result' = result
           \/ pc' = "idle" /\ result' = "error"
        /\ UNCHANGED <<rd, stage>>
    BY <1>9 DEF AfterRefresh, Return
  <2>2. Known'
    BY <1>1, <1>9, <2>1 DEF Known, Parsed, linkVars
  <2>3. Progress'
    BY <1>1, <1>9, <2>1 DEF Progress, linkVars, SendPcs, AckPcs, TablePcs, ReadPcs
  <2>4. QED
    BY <1>5, <1>7, <2>2, <2>3
<1>10. CASE pc = "ackWrite" /\ AfterWrite(a)
  <2>1. \/ a = "ok" /\ op.cmd # "reboot" /\ pc' = "refresh2" /\ UNCHANGED <<rd, stage, result>>
        \/ op.cmd # "reboot" /\ pc' = "raw" /\ rd' = "users" /\ stage' = "verify" /\ result' = result
        \/ a = "ok" /\ op.cmd = "reboot" /\ pc' = "idle" /\ result' = "true" /\ UNCHANGED <<rd, stage>>
        \/ pc' = "idle" /\ result' # "true" /\ UNCHANGED <<rd, stage>>
    BY <1>10 DEF AfterWrite, Return, BeginTable
  <2>2. Known'
    BY <1>1, <1>10, <2>1 DEF Known, linkVars
  <2>3. result # "true"
    BY <1>10 DEF Progress
  <2>4. Progress'
    BY <1>1, <1>3, <1>7, <1>8, <1>10, <2>1, <2>3
       DEF Progress, linkVars, SendPcs, AckPcs, TablePcs, ReadPcs
  <2>5. QED
    BY <1>5, <1>7, <2>2, <2>4
<1>11. CASE pc = "ackRefresh2" /\ AfterRefresh2
  <2>1. pc' = "idle" /\ result' = "true" /\ UNCHANGED <<rd, stage>>
    BY <1>11 DEF AfterRefresh2, Return
  <2>2. Known'
    BY <1>1, <1>11, <2>1 DEF Known, linkVars
  <2>3. Progress'
    BY <1>1, <1>7, <1>8, <1>11, <2>1 DEF Progress, linkVars, SendPcs, AckPcs, TablePcs, ReadPcs
  <2>4. QED
    BY <1>5, <1>7, <2>2, <2>3
<1>12. QED
  BY <1>2, <1>9, <1>10, <1>11

-----------------------------------------------------------------------------
(* The invariant, and what it gives.                                       *)

LEMMA InitTimely == MInit => TimelyInv
<1> SUFFICES ASSUME MInit PROVE TimelyRest
  BY InitType DEF TimelyInv
<1>1. /\ toDev = <<>> /\ devOut = <<>> /\ toCli = <<>> /\ got = <<>> /\ pc = "idle"
      /\ start = 0 /\ dev.gen = 0 /\ op = NoCall /\ result = "none" /\ fate = "unsent"
      /\ table = [c \in Reads |-> <<>>]
  BY DEF MInit, Init, LinkInit
<1>2. Stream
  BY <1>1 DEF Stream, Resting, Awaiting, Waiting, AckPcs
<1>3. Queue
  BY <1>1, EmptySeq DEF Queue
<1>4. Known
  BY <1>1 DEF Known, NoCall, Reads
<1>5. Progress
  BY <1>1 DEF Progress, NoCall, TablePcs, Mutations
<1>6. QED
  BY <1>2, <1>3, <1>4, <1>5 DEF TimelyRest

LEMMA NextTimely ==
    ASSUME Timely = TRUE, TimelyInv, MNext
    PROVE  TimelyInv'
<1> USE DEF TimelyInv
<1>1. TypeInv'
  BY NextType, NextMutatingOp DEF TypeInv
<1>2. CASE TableSteps /\ UNCHANGED mutVars
  BY <1>1, <1>2, TableStepKeeps
<1>3. CASE Calls /\ UNCHANGED mutVars
  BY <1>1, <1>3, CallsKeep
<1>4. CASE (ReadReturns \/ AttendanceNext \/ ReadFails) /\ UNCHANGED mutVars
  BY <1>1, <1>4, ReadEndKeeps
<1>5. CASE Env /\ UNCHANGED mutVars
  <2>1. Outside /\ UNCHANGED <<readVars, mutVars>>
    BY <1>5 DEF Env
  <2>2. QED
    BY <1>1, <2>1, OutsideKeeps
<1>6. CASE MutationCalls
  BY <1>1, <1>6, MutationCallsKeep
<1>7. CASE MutateSteps
  BY <1>1, <1>7, PreflightKeeps, MutationEndKeeps, RefreshSendKeeps, WriteSendKeeps,
     AckRecvKeeps, AckQuietKeeps DEF MutateSteps
<1>8. QED
  BY <1>2, <1>3, <1>4, <1>5, <1>6, <1>7 DEF MNext, ReadPart, ReadSteps

LEMMA StutterTimely == ASSUME TimelyInv, UNCHANGED mvars PROVE TimelyInv'
<1>1. TypeInv'
  BY StutterType DEF TimelyInv
<1>2. /\ UNCHANGED <<dev, toDev, devOut, toCli, conn, path, mss, fate, callNo>>
      /\ UNCHANGED <<op, pc, rd, got, table, result, start, stage>>
  BY DEF mvars, vars, linkVars, readVars, mutVars
<1>3. /\ Received' = Received /\ (Received \o devOut)' = Received \o devOut
      /\ Stuck' = Stuck /\ Flowing' = Flowing
  BY <1>2 DEF Received, Stuck, Flowing
<1>4. (Fits(Received) => Fits(Received)') /\ (Fits(Received \o devOut) => Fits(Received \o devOut)')
  BY <1>2, <1>3, FitsStays
<1>5. /\ Ended(Received \o devOut)' = Ended(Received \o devOut)
      /\ Decisive(Received)' = Decisive(Received)
      /\ Asked(toDev[1]) => Asked(toDev[1])'
  BY <1>2, <1>3 DEF Ended, Decisive, Asked, Req
<1>6. Awaiting'
  BY <1>2, <1>3, <1>4, <1>5 DEF TimelyInv, TimelyRest, Stream, Awaiting
<1>7. Stream'
  BY <1>2, <1>3, <1>6 DEF TimelyInv, TimelyRest, Stream, Resting
<1>8. Queue' /\ Known'
  BY <1>2 DEF TimelyInv, TimelyRest, Queue, Known, Current, Parsed
<1>9. Progress'
  BY <1>2 DEF TimelyInv, TimelyRest, Progress, Shown, Seen, Done, Wanted, NoWrites
<1>10. QED
  BY <1>1, <1>7, <1>8, <1>9 DEF TimelyInv, TimelyRest

LEMMA TimelyAlways == ASSUME Timely = TRUE PROVE MSpec => []TimelyInv
<1>1. TimelyInv /\ [MNext]_mvars => TimelyInv'
  BY NextTimely, StutterTimely
<1>2. QED
  BY InitTimely, <1>1, PTL DEF MSpec

\* In time, a table the client accepts was taken by the terminal during the call
\* that returns it: no earlier answer is left for the drain to pick up.
THEOREM TablesAreFresh == ASSUME Timely = TRUE PROVE MSpec => []FreshTable
<1>1. TimelyInv => FreshTable
  BY DEF TimelyInv, TimelyRest, Known, Current, FreshTable
<1>2. QED
  BY TimelyAlways, <1>1, PTL

\* In time, a read that succeeded leaves nothing of its answers behind.
THEOREM ReadsLeaveNothing == ASSUME Timely = TRUE PROVE MSpec => []CleanAfterRead
<1>1. TimelyInv => CleanAfterRead
  BY DEF TimelyInv, TimelyRest, Known, Stream, Resting, Waiting, AckPcs, CleanAfterRead
<1>2. QED
  BY TimelyAlways, <1>1, PTL

\* In time, the gate never takes one table for the other, whatever the record
\* sizes are and however many records there are.
THEOREM TablesAreNotMixedUp == ASSUME Timely = TRUE PROVE MSpec => []RightTable
<1>1. TimelyInv => RightTable
  BY DEF TimelyInv, TimelyRest, Known, RightTable
<1>2. QED
  BY TimelyAlways, <1>1, PTL

\* In time, a write is only sent on the strength of a table of this very call
\* that shows its slot to hold no template.
THEOREM WritesAreGuarded == ASSUME Timely = TRUE PROVE MSpec => []GuardedWrite
<1>1. TimelyInv => GuardedWrite
  <2>1. SUFFICES ASSUME TimelyInv, pc = "write", op.cmd # "reboot"
                 PROVE  /\ table["users"] # <<>> /\ Parsed.gen >= start
                        /\ op.uid \in Uids /\ op.uid \notin Parsed.tpl
    BY DEF GuardedWrite
  <2>2. op.cmd \in {"set", "delete"} /\ op.uid \in Uids
    BY <2>1 DEF TimelyInv, TimelyRest, TypeInv, MutatingOp, Progress, SendPcs, Mutations
  <2>3. QED
    BY <2>1, <2>2 DEF TimelyInv, TimelyRest, Known
<1>2. QED
  BY TimelyAlways, <1>1, PTL

\* In time, True means that the terminal shows what was asked for, in every field
\* when the request was served, and that no request is left to change it.
THEOREM TrueIsShown == ASSUME Timely = TRUE PROVE MSpec => []TrueMeansShown
<1>1. TimelyInv => TrueMeansShown
  BY DEF TimelyInv, TimelyRest, Progress, Shown, Seen, Done, Wanted, TrueMeansShown, Mutations
<1>2. QED
  BY TimelyAlways, <1>1, PTL

-----------------------------------------------------------------------------
(* The refinement: every step of a mutation is a step of WL10Outcome, or   *)
(* none.                                                                   *)

Order(r) == [cmd |-> r.cmd, uid |-> r.uid, val |-> r.val]

\* At most one request is abandoned, and then it waits alone.
LEMMA AbandonedShape ==
    ASSUME TypeInv, Queue
    PROVE  /\ NoWrites => Abandoned = {}
           /\ \/ Abandoned = {}
              \/ /\ Len(toDev) = 1 /\ toDev[1].cmd \in {"set", "delete"}
                 /\ toDev[1].call # callNo /\ Abandoned = {Order(toDev[1])}
<1>1. Len(toDev) \in Nat /\ DOMAIN toDev = 1..Len(toDev)
  BY LenProperties DEF TypeInv, MTypeOK, ReadTypeOK, LinkTypeOK
<1>2. NoWrites => Abandoned = {}
  BY <1>1 DEF NoWrites, Abandoned, Mutations
<1>3. ASSUME Abandoned # {}
      PROVE  /\ Len(toDev) = 1 /\ toDev[1].cmd \in {"set", "delete"}
             /\ toDev[1].call # callNo /\ Abandoned = {Order(toDev[1])}
  <2>1. PICK i \in 1..Len(toDev) : toDev[i].cmd \in {"set", "delete"} /\ toDev[i].call # callNo
    BY <1>1, <1>3 DEF Abandoned
  <2>2. Len(toDev) = 1
    BY <2>1 DEF Queue, Mutations
  <2>3. i = 1 /\ DOMAIN toDev = {1}
    BY <1>1, <2>1, <2>2
  <2>4. {j \in DOMAIN toDev : toDev[j].cmd \in {"set", "delete"} /\ toDev[j].call # callNo} = {1}
    BY <2>1, <2>3
  <2>5. Abandoned = {Order(toDev[1])}
    BY <2>4 DEF Abandoned, Order
  <2>6. QED
    BY <2>1, <2>2, <2>3, <2>5
<1>4. QED
  BY <1>2, <1>3

\* A request of the current call is not abandoned.
LEMMA OwnRequest ==
    ASSUME TypeInv, Queue, NEW i \in 1..Len(toDev), toDev[i].cmd \in Mutations,
           toDev[i].call = callNo
    PROVE  /\ Abandoned = {} /\ Mutating /\ fate = "sent" /\ op = Order(toDev[i])
           /\ op.cmd # "reboot" => op.uid \in Uids
<1>1. Len(toDev) = 1 /\ i = 1
  BY LenProperties DEF Queue, TypeInv, MTypeOK, ReadTypeOK, LinkTypeOK
<1>2. Abandoned = {}
  BY <1>1, AbandonedShape
<1>3. /\ fate = "sent" /\ op.cmd = toDev[i].cmd /\ op.uid = toDev[i].uid /\ op.val = toDev[i].val
      /\ toDev[i].cmd # "reboot" => toDev[i].uid \in Uids
  BY DEF Queue
<1>4. op \in Call
  BY DEF TypeInv, MTypeOK, ReadTypeOK
<1>5. op = Order(toDev[i])
  BY <1>3, <1>4 DEF Call, Order
<1>6. QED
  BY <1>2, <1>3, <1>5 DEF Mutating

\* No step of the promise.
LEMMA Stutters ==
    ASSUME dev'.users = dev.users, dev'.tpl = dev.tpl, UNCHANGED <<op, fate>>,
           (pc' # "idle") <=> (pc # "idle"), Abandoned' = Abandoned,
           Mutating => result' = result
    PROVE  UNCHANGED Outcome!outcomeVars
BY DEF Outcome!outcomeVars, Mutating

LEMMA Returns ==
    ASSUME Mutating, pc # "idle", pc' = "idle", UNCHANGED <<dev, op, fate>>,
           Abandoned' = Abandoned, result' \in Outcome!Outcomes, Outcome!Truthful(result')
    PROVE  Outcome!OutcomeNext
<1>1. Outcome!Finish(result')
  BY DEF Outcome!Finish, Mutating
<1>2. QED
  BY <1>1 DEF Outcome!OutcomeNext, Outcome!Steps

Promised == Outcome!OutcomeNext \/ UNCHANGED Outcome!outcomeVars

\* An abandoned request that is lost.
LEMMA Loses ==
    ASSUME TypeInv, Queue, Abandoned' = {} \/ Abandoned' = Abandoned,
           dev'.users = dev.users, dev'.tpl = dev.tpl, UNCHANGED <<op, fate>>,
           (pc' # "idle") <=> (pc # "idle"), Mutating => result' = result
    PROVE  Promised
<1>1. CASE Abandoned' = Abandoned
  BY <1>1, Stutters DEF Promised
<1>2. CASE Abandoned' = {} /\ Abandoned # {}
  <2>1. Abandoned = {Order(toDev[1])} /\ Abandoned' = {}
    BY <1>2, AbandonedShape
  <2>2. Outcome!ServeLoose
    BY <2>1 DEF Outcome!ServeLoose, Mutating
  <2>3. QED
    BY <2>2 DEF Promised, Outcome!OutcomeNext, Outcome!Steps
<1>3. QED
  BY <1>1, <1>2

LEMMA NothingAbandoned ==
    ASSUME toDev' \in Seq(Request), NoWrites'
    PROVE  Abandoned' = {}
<1>1. DOMAIN toDev' = 1..Len(toDev')
  BY LenProperties
<1>2. QED
  BY <1>1 DEF NoWrites, Abandoned, Mutations

\* What becomes of the oldest request.
LEMMA TookPromised ==
    ASSUME TypeInv, Queue, SlotsGuarded, NEW f \in {"applied", "refused"}, NEW reply,
           Took(f, reply), toDev' \in Seq(Request), dev'.tpl = dev.tpl
    PROVE  Promised
<1> DEFINE req == Head(toDev)
<1>1. /\ req = toDev[1] /\ Len(toDev) \in Nat \ {0} /\ Abandoned' = {}
      /\ req \in Request /\ dev \in Memory
      /\ UNCHANGED <<op, pc, result, callNo>>
  BY TookHead, NothingAbandoned DEF Took, readVars, TypeInv, MTypeOK, ReadTypeOK, LinkTypeOK
<1>2. CASE req.cmd \notin Mutations
  <2>1. UNCHANGED <<dev, fate>>
    BY <1>2, TookHead
  <2>2. QED
    BY <1>1, <2>1, Loses
<1>3. CASE req.cmd \in Mutations /\ req.call = callNo
  <2>1. /\ Abandoned = {} /\ Mutating /\ fate = "sent" /\ op = Order(req)
        /\ op.cmd # "reboot" => op.uid \in Uids
    BY <1>1, <1>3, OwnRequest
  <2>2. fate' = f
    BY <1>3 DEF Took, SetFate
  <2>3. op.cmd = req.cmd /\ op.uid = req.uid /\ op.val = req.val
    BY <2>1 DEF Order
  <2>4. CASE f = "refused"
    <3>1. Outcome!Refuse
      BY <1>1, <2>1, <2>2, <2>4 DEF Took, Outcome!Refuse, Mutating
    <3>2. QED
      BY <3>1 DEF Promised, Outcome!OutcomeNext, Outcome!Steps
  <2>5. CASE f = "applied"
    <3>1. op.cmd \in {"set", "delete"} /\ dev' = Applied(req)
      BY <1>3, <2>3, <2>5 DEF Took, Mutations
    <3>2. op.uid \in Uids \ dev.tpl
      <4>1. 1 \in DOMAIN toDev
        BY <1>1, LenProperties DEF TypeInv, MTypeOK, ReadTypeOK, LinkTypeOK
      <4>2. QED
        BY <1>1, <2>1, <2>3, <3>1, <4>1 DEF SlotsGuarded, Spares
    <3>3. dev'.users = [dev.users EXCEPT ![op.uid] = IF op.cmd = "set" THEN op.val ELSE NoVal]
      <4>1. CASE op.cmd = "set"
        BY <1>1, <2>3, <3>1, <4>1, AppliedEffect
      <4>2. CASE op.cmd = "delete"
        BY <1>1, <2>3, <3>1, <4>2, AppliedEffect
      <4>3. QED
        BY <3>1, <4>1, <4>2
    <3>4. Outcome!Served(op)
      BY <3>2, <3>3 DEF Outcome!Served
    <3>5. Outcome!Serve
      BY <1>1, <2>1, <2>2, <2>5, <3>1, <3>4 DEF Outcome!Serve, Outcome!Served, Mutating
    <3>6. QED
      BY <3>5 DEF Promised, Outcome!OutcomeNext, Outcome!Steps
  <2>6. QED
    BY <2>4, <2>5
<1>4. CASE req.cmd \in Mutations /\ req.call # callNo
  <2>1. fate' = fate
    BY <1>4 DEF Took, SetFate
  <2>2. CASE dev' = dev
    BY <1>1, <2>1, <2>2, Loses
  <2>3. CASE f = "applied"
    <3>1. req.cmd \in {"set", "delete"} /\ dev' = Applied(req)
      BY <1>4, <2>3 DEF Took, Mutations
    <3>2. 1 \in DOMAIN toDev /\ 1 \in 1..Len(toDev)
      BY <1>1, LenProperties DEF TypeInv, MTypeOK, ReadTypeOK, LinkTypeOK
    <3>3. Abandoned = {Order(req)}
      <4>1. Abandoned # {}
        BY <1>1, <1>4, <3>1, <3>2 DEF Abandoned
      <4>2. QED
        BY <1>1, <4>1, AbandonedShape
    <3>4. req.uid \in Uids \ dev.tpl
      BY <1>1, <1>4, <3>1, <3>2 DEF SlotsGuarded, Spares, Queue
    <3>5. dev'.users = [dev.users EXCEPT ![req.uid] = IF req.cmd = "set" THEN req.val ELSE NoVal]
      <4>1. CASE req.cmd = "set"
        BY <1>1, <3>1, <4>1, AppliedEffect
      <4>2. CASE req.cmd = "delete"
        BY <1>1, <3>1, <4>2, AppliedEffect
      <4>3. QED
        BY <3>1, <4>1, <4>2
    <3>6. Outcome!Served(Order(req))
      BY <3>4, <3>5 DEF Outcome!Served, Order
    <3>7. Outcome!ServeLoose
      BY <1>1, <2>1, <3>3, <3>6 DEF Outcome!ServeLoose, Outcome!Served, Mutating
    <3>8. QED
      BY <3>7 DEF Promised, Outcome!OutcomeNext, Outcome!Steps
  <2>4. QED
    BY <2>2, <2>3 DEF Took
<1>5. QED
  BY <1>2, <1>3, <1>4

LEMMA OutsidePromised ==
    ASSUME TypeInv, TypeInv', Queue, SlotsGuarded, MaxEnrol = 0, Outside, dev'.tpl = dev.tpl,
           UNCHANGED <<readVars, mutVars>>
    PROVE  Promised
<1>1. /\ toDev' \in Seq(Request) /\ toDev \in Seq(Request) /\ enrols \in Nat
      /\ UNCHANGED <<pc, op, result>>
  BY DEF TypeInv, MTypeOK, ReadTypeOK, LinkTypeOK, readVars
<1>2. CASE Serve \/ Refuse \/ ServeMute
  BY <1>1, <1>2, ServingTakes, TookPromised
<1>3. CASE ServeReboot
  <2>1. /\ Head(toDev) = toDev[1] /\ Len(toDev) \in Nat \ {0} /\ toDev[1].cmd = "reboot"
        /\ 1 \in 1..Len(toDev)
        /\ toDev' = <<>> /\ UNCHANGED <<dev, callNo>>
    BY <1>1, <1>3, HeadTailProperties, EmptySeq DEF ServeReboot
  <2>2. Abandoned' = {}
    BY <1>1, <2>1, EmptySeq, NothingAbandoned DEF NoWrites
  <2>3. CASE toDev[1].call = callNo
    <3>1. /\ Abandoned = {} /\ Mutating /\ fate = "sent" /\ op = Order(toDev[1])
      BY <2>1, <2>3, OwnRequest DEF Mutations
    <3>2. fate' = "applied" /\ op.cmd = "reboot"
      BY <1>3, <2>1, <2>3, <3>1 DEF ServeReboot, SetFate, Mutations, Order
    <3>3. Outcome!Serve
      BY <1>1, <2>1, <2>2, <3>1, <3>2 DEF Outcome!Serve, Mutating
    <3>4. QED
      BY <3>3 DEF Promised, Outcome!OutcomeNext, Outcome!Steps
  <2>4. CASE toDev[1].call # callNo
    <3>1. fate' = fate
      BY <1>3, <2>1, <2>4 DEF ServeReboot, SetFate
    <3>2. QED
      BY <1>1, <2>1, <2>2, <3>1, Loses
  <2>5. QED
    BY <2>3, <2>4
<1>4. CASE Break
  <2>1. PICK n \in 0..Len(toDev) : toDev' = SubSeq(toDev, 1, n)
    BY <1>4 DEF Break
  <2>2. UNCHANGED <<dev, fate, callNo>>
    BY <1>4 DEF Break
  <2>3. Abandoned' = {} \/ Abandoned' = Abandoned
    <3>1. CASE n = Len(toDev)
      <4>1. toDev' = toDev
        BY <1>1, <2>1, <3>1, SubSeqFull
      <4>2. QED
        BY <2>2, <4>1 DEF Abandoned
    <3>2. CASE Abandoned # {} /\ n # Len(toDev)
      <4>1. n = 0
        <5>1. Len(toDev) = 1
          BY <3>2, AbandonedShape
        <5>2. QED
          BY <2>1, <3>2, <5>1
      <4>2. toDev' = <<>>
        BY <1>1, <2>1, <4>1, SubSeqProperties, EmptySeq
      <4>3. QED
        BY <1>1, <4>2, EmptySeq, NothingAbandoned DEF NoWrites
    <3>3. CASE Abandoned = {} /\ n # Len(toDev)
      <4>1. /\ Len(toDev) \in Nat /\ Len(toDev') = n
            /\ \A i \in 1..n : i \in 1..Len(toDev) /\ toDev'[i] = toDev[i]
        <5>1. Len(toDev) \in Nat /\ \A i \in 1..n : i \in 1..Len(toDev) /\ toDev[i] \in Request
          BY <1>1, LenProperties, ElementOfSeq
        <5>2. QED
          BY <2>1, <5>1, SubSeqProperties
      <4>2. DOMAIN toDev = 1..Len(toDev) /\ DOMAIN toDev' = 1..n
        BY <1>1, <4>1, LenProperties
      <4>3. \A i \in DOMAIN toDev : ~(toDev[i].cmd \in {"set", "delete"} /\ toDev[i].call # callNo)
        BY <3>3 DEF Abandoned
      <4>4. QED
        BY <2>2, <4>1, <4>2, <4>3 DEF Abandoned
    <3>4. QED
      BY <3>1, <3>2, <3>3
  <2>4. QED
    BY <1>1, <2>2, <2>3, Loses
<1>5. CASE \E n \in 1..Len(devOut) : Deliver(n)
  <2>1. UNCHANGED <<dev, toDev, fate, callNo>>
    BY <1>5 DEF Deliver
  <2>2. QED
    BY <1>1, <2>1, Loses DEF Abandoned
<1>6. CASE \E u \in Uids : Enrol(u)
  BY <1>1, <1>6 DEF Enrol
<1>7. QED
  BY <1>2, <1>3, <1>4, <1>5, <1>6 DEF Outside

\* The reads and their retries are no part of the promise.
LEMMA TableStepPromised ==
    ASSUME TypeInv, TypeInv', Queue, TableSteps
    PROVE  Promised
<1>1. /\ UNCHANGED <<dev, fate, callNo, op, result>> /\ pc # "idle" /\ pc' # "idle"
      /\ toDev \in Seq(Request) /\ toDev' \in Seq(Request)
  BY TableStepFrame DEF TablePcs, ReadPcs, TypeInv, MTypeOK, ReadTypeOK, LinkTypeOK
<1>2. CASE toDev' = toDev
  <2>1. Abandoned' = Abandoned
    BY <1>1, <1>2 DEF Abandoned
  <2>2. QED
    BY <1>1, <2>1, Loses
<1>3. CASE NoWrites' \/ toDev' = <<>>
  <2>1. Abandoned' = {}
    BY <1>1, <1>3, EmptySeq, NothingAbandoned DEF NoWrites
  <2>2. QED
    BY <1>1, <2>1, Loses
<1>4. CASE (RawSend \/ FreeSend) /\ toDev' # toDev
  <2>1. conn = "up" /\ pc # "ackWrite"
    BY <1>4 DEF RawSend, FreeSend, SendTo
  <2>2. NoWrites
    BY <2>1 DEF Queue, NoWrites
  <2>3. NoWrites'
    BY <2>2, TableStepKeepsQueue
  <2>4. QED
    BY <1>3, <2>3
<1>5. CASE ~(RawSend \/ FreeSend)
  <2>1. toDev' = toDev \/ toDev' = <<>>
    BY <1>5 DEF TableSteps, RawSendError, DrainQuiet, FreeSendError, FreeQuiet, DrainRecv,
                FreeRecv, Reconnect, ReconnectFails, NewSocket, linkVars
  <2>2. QED
    BY <1>2, <1>3, <2>1
<1>6. QED
  BY <1>2, <1>4, <1>5

LEMMA ReadEndPromised ==
    ASSUME ReadReturns \/ AttendanceNext \/ ReadFails, TypeInv
    PROVE  Promised
<1>1. /\ ~Mutating /\ ~Mutating' /\ UNCHANGED linkVars /\ op' = op
  BY DEF ReadReturns, AttendanceNext, ReadFails, Mutating, Reads, Mutations, TypeInv, MTypeOK,
         ReadTypeOK
<1>2. Abandoned' = Abandoned
  BY <1>1 DEF Abandoned, linkVars
<1>3. QED
  BY <1>1, <1>2 DEF Promised, Outcome!outcomeVars, linkVars

\* A request of the call before is abandoned when a new call begins.
LEMMA CallAbandons ==
    ASSUME TypeInv, Queue, toDev' = toDev \/ toDev' = <<>>, callNo' = callNo + 1
    PROVE  \/ Abandoned' \in SUBSET Abandoned
           \/ /\ Mutating /\ fate = "sent" /\ op.cmd # "reboot"
              /\ Abandoned' = Abandoned \cup {op}
<1>1. toDev \in Seq(Request) /\ callNo \in Nat /\ toDev' \in Seq(Request)
  BY EmptySeq DEF TypeInv, MTypeOK, ReadTypeOK, LinkTypeOK
<1>2. CASE toDev' = <<>>
  BY <1>1, <1>2, EmptySeq, NothingAbandoned DEF NoWrites
<1>3. CASE toDev' = toDev /\ NoWrites
  BY <1>1, <1>3, NothingAbandoned DEF NoWrites
<1>4. CASE toDev' = toDev /\ ~NoWrites
  <2>1. PICK i \in 1..Len(toDev) : toDev[i].cmd \in Mutations
    BY <1>4 DEF NoWrites
  <2>2. Len(toDev) = 1 /\ toDev[1].cmd \in Mutations /\ toDev[1].call <= callNo
        /\ 1 \in 1..Len(toDev) /\ DOMAIN toDev = {1} /\ toDev[1].call \in Nat
    <3>1. Len(toDev) = 1 /\ toDev[i].call <= callNo
      BY <2>1 DEF Queue
    <3>2. i = 1 /\ DOMAIN toDev = {1}
      BY <1>1, <2>1, <3>1, LenProperties
    <3>3. toDev[1] \in Request
      BY <1>1, <2>1, <3>2, ElementOfSeq
    <3>4. QED
      BY <2>1, <3>1, <3>2, <3>3 DEF Request
  <2>3. toDev[1].call # callNo + 1
    BY <1>1, <2>2
  <2>4. CASE toDev[1].cmd = "reboot"
    BY <1>4, <2>2, <2>4 DEF Abandoned
  <2>5. CASE toDev[1].cmd \in {"set", "delete"}
    <3>1. {j \in DOMAIN toDev' : toDev'[j].cmd \in {"set", "delete"} /\ toDev'[j].call # callNo'} = {1}
      BY <1>4, <2>2, <2>3, <2>5
    <3>2. Abandoned' = {Order(toDev[1])}
      BY <1>4, <3>1 DEF Abandoned, Order
    <3>3. CASE toDev[1].call = callNo
      BY <2>2, <2>5, <3>2, <3>3, OwnRequest DEF Order
    <3>4. CASE toDev[1].call # callNo
      <4>1. {j \in DOMAIN toDev : toDev[j].cmd \in {"set", "delete"} /\ toDev[j].call # callNo} = {1}
        BY <2>2, <2>5, <3>4
      <4>2. Abandoned = {Order(toDev[1])}
        BY <4>1 DEF Abandoned, Order
      <4>3. QED
        BY <3>2, <4>2
    <3>5. QED
      BY <3>3, <3>4
  <2>6. QED
    BY <2>2, <2>4, <2>5 DEF Mutations
<1>5. QED
  BY <1>2, <1>3, <1>4

LEMMA CallPromised ==
    ASSUME TypeInv, Queue, NEW c, NewCall(c), dev' = dev, toDev' = toDev \/ toDev' = <<>>,
           \/ c \in Outcome!Mutation /\ c.cmd \in Mutations /\ pc' # "idle" /\ result' = "none"
           \/ c.cmd \notin Mutations
    PROVE  Promised
<1>1. pc = "idle" /\ callNo' = callNo + 1 /\ fate' = "unsent" /\ op' = c
  BY DEF NewCall
<1>2. \/ Abandoned' \in SUBSET Abandoned
      \/ /\ Mutating /\ fate = "sent" /\ op.cmd # "reboot"
         /\ Abandoned' = Abandoned \cup {op}
  BY <1>1, CallAbandons
<1>3. CASE c \in Outcome!Mutation /\ c.cmd \in Mutations /\ pc' # "idle" /\ result' = "none"
  <2>1. Mutating'
    BY <1>1, <1>3 DEF Mutating
  <2>2. Outcome!Begin(c, FALSE)
    BY <1>1, <1>2, <1>3, <2>1 DEF Outcome!Begin
  <2>3. QED
    BY <1>3, <2>2 DEF Promised, Outcome!OutcomeNext
<1>4. CASE c.cmd \notin Mutations
  <2>1. ~Mutating'
    BY <1>1, <1>4 DEF Mutating
  <2>2. Outcome!Begin(Outcome!NoMutation, TRUE)
    BY <1>1, <1>2, <2>1 DEF Outcome!Begin, Outcome!NoMutation, NoCall
  <2>3. QED
    BY <2>2 DEF Promised, Outcome!OutcomeNext
<1>5. QED
  BY <1>3, <1>4

LEMMA CallsPromised ==
    ASSUME TypeInv, Queue, Calls
    PROVE  Promised
<1>1. CASE \E cmd \in ReadOps \cap Reads : StartRead(cmd)
  <2>1. PICK cmd \in ReadOps \cap Reads : StartRead(cmd)
    BY <1>1
  <2> DEFINE c == [NoCall EXCEPT !.cmd = cmd]
  <2>2. c.cmd = cmd /\ cmd \notin Mutations
    BY DEF NoCall, Reads, Mutations
  <2>3. NewCall(c) /\ dev' = dev /\ toDev' = toDev
    BY <2>1 DEF StartRead
  <2> HIDE DEF c
  <2>4. QED
    BY <2>2, <2>3, CallPromised
<1>2. CASE ConnectSucceeds \/ ConnectFails
  <2>1. PICK up \in BOOLEAN : Connect(up)
    BY <1>2 DEF ConnectSucceeds, ConnectFails
  <2> DEFINE c == [NoCall EXCEPT !.cmd = "connect"]
  <2>2. c.cmd = "connect" /\ "connect" \notin Mutations
    BY DEF NoCall, Mutations
  <2>3. NewCall(c) /\ dev' = dev /\ toDev' = <<>>
    BY <2>1 DEF Connect
  <2> HIDE DEF c
  <2>4. QED
    BY <2>2, <2>3, CallPromised
<1>3. QED
  BY <1>1, <1>2 DEF Calls

LEMMA MutationCallsPromised ==
    ASSUME TypeInv, Queue, MutationCalls
    PROVE  Promised
<1>1. PICK cmd \in MutateOps : \E c \in Arguments(cmd) : StartMutation(c)
  BY DEF MutationCalls
<1>2. PICK c \in Arguments(cmd) : StartMutation(c)
  BY <1>1
<1>3. c.cmd = cmd /\ cmd \in Mutations
  BY <1>2, ArgumentsType, MutateOpsAssumption
<1>4. c \in Outcome!Mutation
  <2>1. CASE cmd = "set"
    BY <1>2, <2>1 DEF Arguments, Outcome!Mutation
  <2>2. CASE cmd = "delete"
    BY <1>2, <2>2 DEF Arguments, Outcome!Mutation
  <2>3. CASE cmd = "reboot"
    BY <1>2, <2>3 DEF Arguments, NoCall, Outcome!Mutation
  <2>4. QED
    BY <1>3, <2>1, <2>2, <2>3 DEF Mutations
<1>5. /\ NewCall(c) /\ result' = "none" /\ pc' # "idle" /\ dev' = dev /\ toDev' = toDev
  BY <1>2 DEF StartMutation, BeginTable
<1>6. QED
  BY <1>3, <1>4, <1>5, CallPromised

-----------------------------------------------------------------------------
(* What a mutation tells its caller.                                       *)

LEMMA PreflightPromised ==
    ASSUME TypeInv, TimelyRest, PreflightSet \/ PreflightDelete
    PROVE  Promised
<1>1. /\ pc = "parsed" /\ op.cmd \in {"set", "delete"} /\ stage = "preflight"
      /\ UNCHANGED linkVars
      /\ op \in Call /\ rd = "users"
  BY DEF PreflightSet, PreflightDelete, Preflight, TypeInv, MTypeOK, ReadTypeOK, TimelyRest, Known
<1>2. /\ Mutating /\ fate = "unsent" /\ Parsed.users = dev.users
  BY <1>1 DEF TimelyRest, Progress, Known, Current, Parsed, Mutating, TablePcs, ReadPcs, Mutations
<1>3. UNCHANGED <<dev, fate>> /\ Abandoned' = Abandoned
  BY <1>1 DEF linkVars, Abandoned
<1>4. \/ Proceed(op.uid)
      \/ \E u \in Uids : op.cmd = "delete" /\ op.uid = 0 /\ Alike(Parsed.users[u], op.val) /\ Proceed(u)
      \/ Decline("reserved")
      \/ op.cmd = "delete" /\ Decline("false")
  BY DEF PreflightSet, PreflightDelete, Matches
<1>5. CASE Proceed(op.uid)
  <2>1. op' = op /\ pc' = "refresh" /\ result' = result
    BY <1>1, <1>5 DEF Proceed, Call
  <2>2. QED
    BY <1>1, <1>3, <2>1, Stutters DEF Promised
<1>6. CASE \E u \in Uids : op.cmd = "delete" /\ op.uid = 0 /\ Alike(Parsed.users[u], op.val) /\ Proceed(u)
  <2>1. PICK u \in Uids : /\ op.cmd = "delete" /\ op.uid = 0 /\ Alike(Parsed.users[u], op.val)
                          /\ Proceed(u)
    BY <1>6
  <2>2. op' = [op EXCEPT !.uid = u] /\ pc' = "refresh" /\ result' = result /\ op'.cmd = op.cmd
    BY <1>1, <2>1 DEF Proceed, Call
  <2>3. Outcome!Alike(dev.users[u], op.val)
    BY <1>2, <2>1 DEF Alike, Outcome!Alike
  <2>4. Outcome!Resolve(u)
    BY <1>1, <1>2, <1>3, <2>1, <2>2, <2>3 DEF Outcome!Resolve, Mutating
  <2>5. QED
    BY <2>4 DEF Promised, Outcome!OutcomeNext, Outcome!Steps
<1>7. CASE Decline("reserved") \/ (op.cmd = "delete" /\ Decline("false"))
  <2>1. /\ pc' = "idle" /\ op' = op /\ result' \in {"reserved", "false"}
        /\ result' = "false" => op.cmd = "delete"
    BY <1>7 DEF Decline, Return
  <2>2. result' \in Outcome!Outcomes /\ Outcome!Truthful(result')
    BY <1>2, <2>1 DEF Outcome!Outcomes, Outcome!Truthful, Mutating
  <2>3. QED
    BY <1>1, <1>2, <1>3, <2>1, <2>2, Returns DEF Promised
<1>8. QED
  BY <1>4, <1>5, <1>6, <1>7

LEMMA TrueIsTruthful ==
    ASSUME Mutating, op.cmd = "reboot" => fate = "applied", Shown, op.cmd = "delete" => op.uid \in Uids
    PROVE  Outcome!Truthful("true")
BY DEF Outcome!Truthful, Outcome!Alike, Alike, Mutating, Mutations, Shown, Seen, Done, Wanted

LEMMA MutationEndPromised ==
    ASSUME TypeInv, TimelyRest, TableReadFails \/ SendError \/ AckRaises \/ Verified
    PROVE  Promised
<1> USE DEF TimelyRest
<1>1. /\ pc' = "idle" /\ pc # "idle" /\ UNCHANGED linkVars /\ op' = op
  BY DEF TableReadFails, SendError, AckRaises, Verified, Return, SendPcs, AckPcs
<1>2. Mutating
  BY DEF TableReadFails, SendError, AckRaises, Verified, Mutating, Mutations, TypeInv, MutatingOp
<1>3. result' \in Outcome!Outcomes /\ Outcome!Truthful(result')
  <2>1. CASE TableReadFails
    <3>1. result' = IF stage = "preflight" THEN "error" ELSE "unknown"
      BY <2>1 DEF TableReadFails, Return
    <3>2. stage = "preflight" => fate = "unsent"
      BY <2>1 DEF TableReadFails, Progress, TablePcs, ReadPcs, Mutations
    <3>3. QED
      BY <3>1, <3>2 DEF Outcome!Outcomes, Outcome!Truthful
  <2>2. CASE SendError /\ pc # "refresh2"
    <3>1. result' = "error" /\ pc \in {"refresh", "write"}
      BY <2>2 DEF SendError, Return, SendPcs
    <3>2. fate = "unsent"
      BY <3>1 DEF Progress
    <3>3. QED
      BY <3>1, <3>2 DEF Outcome!Outcomes, Outcome!Truthful
  <2>3. CASE SendError /\ pc = "refresh2"
    <3>1. result' = "true"
      BY <2>3 DEF SendError, Return
    <3>2. op.cmd # "reboot" /\ Shown /\ (op.cmd = "delete" => op.uid \in Uids)
      BY <2>3, DoneIsShown DEF Progress, SendPcs
    <3>3. QED
      BY <1>2, <3>1, <3>2, TrueIsTruthful DEF Outcome!Outcomes
  <2>4. CASE AckRaises
    <3>1. result' = "oserror"
      BY <2>4 DEF AckRaises, Return
    <3>2. QED
      BY <3>1 DEF Outcome!Outcomes, Outcome!Truthful
  <2>5. CASE Verified
    <3>1. /\ pc = "parsed" /\ op.cmd \in {"set", "delete"} /\ stage = "verify"
          /\ result' = IF Seen(Parsed.users[op.uid]) THEN "true" ELSE "unknown"
      BY <2>5 DEF Verified, Confirmed, Return, Seen
    <3>2. Parsed.users = dev.users /\ (op.cmd = "delete" => op.uid \in Uids)
      BY <3>1 DEF Known, Current, Parsed, Progress
    <3>3. CASE Seen(Parsed.users[op.uid])
      <4>1. Shown
        BY <3>1, <3>2, <3>3 DEF Shown, Progress
      <4>2. QED
        BY <1>2, <3>1, <3>2, <3>3, <4>1, TrueIsTruthful DEF Outcome!Outcomes
    <3>4. CASE ~Seen(Parsed.users[op.uid])
      BY <3>1, <3>4 DEF Outcome!Outcomes, Outcome!Truthful
    <3>5. QED
      BY <3>3, <3>4
  <2>6. QED
    BY <2>1, <2>2, <2>3, <2>4, <2>5
<1>4. UNCHANGED <<dev, fate>> /\ Abandoned' = Abandoned
  BY <1>1 DEF linkVars, Abandoned
<1>5. QED
  BY <1>1, <1>2, <1>3, <1>4, Returns DEF Promised

LEMMA SendPromised ==
    ASSUME TypeInv, TypeInv', TimelyRest, RefreshSend \/ WriteSend \/ AckRecv
    PROVE  Promised
<1> USE DEF TimelyRest
<1>1. /\ pc # "idle" /\ pc' # "idle" /\ UNCHANGED <<dev, callNo, op, result>>
      /\ toDev \in Seq(Request) /\ toDev' \in Seq(Request)
  BY DEF RefreshSend, WriteSend, AckRecv, AwaitAck, AckPcs, TypeInv, MTypeOK, ReadTypeOK, LinkTypeOK
<1>2. CASE toDev' = toDev /\ fate' = fate
  BY <1>1, <1>2, Loses DEF Abandoned
<1>3. CASE RefreshSend /\ toDev' # toDev
  <2>1. conn = "up" /\ pc # "ackWrite" /\ SendTo(Req("refresh")) /\ UNCHANGED <<conn, fate>>
    BY <1>3 DEF RefreshSend, AwaitAck, SendTo
  <2>2. NoWrites
    BY <2>1 DEF Queue, NoWrites
  <2>3. Req("refresh") \in Request /\ Req("refresh").cmd \notin Mutations
    BY DEF Req, Request, Call, Requests, Mutations, TypeInv, MTypeOK, ReadTypeOK, LinkTypeOK
  <2>4. Abandoned' = {}
    BY <1>1, <2>1, <2>2, <2>3, SendKeepsQueue, NothingAbandoned
  <2>5. QED
    BY <1>1, <2>1, <2>4, Loses
<1>4. CASE WriteSend
  <2>1. pc = "write" /\ SendTo(Req(op.cmd)) /\ fate' = IF conn = "up" THEN "sent" ELSE fate
    BY <1>4 DEF WriteSend
  <2>2. CASE conn # "up"
    BY <1>2, <2>1, <2>2 DEF SendTo
  <2>3. CASE conn = "up"
    <3>1. toDev = <<>> /\ toDev' = Append(toDev, Req(op.cmd))
      BY <2>1, <2>3 DEF Stream, Resting, Flowing, SendTo, Waiting, AckPcs
    <3>2. DOMAIN toDev' = {1} /\ toDev'[1].call = callNo
      BY <3>1 DEF Req
    <3>3. Abandoned = {} /\ Abandoned' = {}
      <4>1. Abandoned = {}
        BY <3>1 DEF Abandoned
      <4>2. Abandoned' = {}
        BY <1>1, <3>2 DEF Abandoned
      <4>3. QED
        BY <4>1, <4>2
    <3>4. fate = "unsent" /\ Mutating
      BY <2>1 DEF Progress, Mutating, TypeInv, MutatingOp, SendPcs
    <3>5. Outcome!Send
      BY <1>1, <2>1, <2>3, <3>3, <3>4 DEF Outcome!Send, Mutating
    <3>6. QED
      BY <3>5 DEF Promised, Outcome!OutcomeNext, Outcome!Steps
  <2>4. QED
    BY <2>2, <2>3
<1>5. CASE AckRecv
  BY <1>2, <1>5 DEF AckRecv
<1>6. CASE RefreshSend /\ toDev' = toDev
  BY <1>2, <1>6 DEF RefreshSend
<1>7. QED
  BY <1>3, <1>4, <1>5, <1>6

LEMMA AckQuietPromised ==
    ASSUME TypeInv, TimelyRest, Timely = TRUE, AckQuiet
    PROVE  Promised
<1> USE DEF TimelyRest
<1>1. /\ pc \in AckPcs /\ pc # "idle" /\ MayTimeOut /\ UNCHANGED linkVars /\ op' = op
      /\ op.cmd \in Mutations /\ Mutating
  BY DEF AckQuiet, AckPcs, TypeInv, MutatingOp, Mutating
<1>2. PICK a \in AckValues(got) : \/ pc = "ackRefresh"  /\ AfterRefresh(a)
                                  \/ pc = "ackWrite"    /\ AfterWrite(a)
                                  \/ pc = "ackRefresh2" /\ AfterRefresh2
  BY DEF AckQuiet
<1>3. /\ a \in {"ok", "other", "none"}
      /\ pc = "ackWrite" /\ a = "ok" => fate = "applied" /\ Done
      /\ pc = "ackWrite" /\ a = "other" => fate = "refused"
  BY <1>1, AckTells
<1>4. UNCHANGED <<dev, fate>> /\ Abandoned' = Abandoned
  BY <1>1 DEF linkVars, Abandoned
<1>5. op.cmd = "delete" => op.uid \in Uids
  BY <1>1 DEF Progress
<1>6. CASE pc' # "idle" /\ result' = result
  BY <1>1, <1>4, <1>6, Stutters DEF Promised
<1>7. CASE pc' = "idle" /\ result' \in Outcome!Outcomes /\ Outcome!Truthful(result')
  BY <1>1, <1>4, <1>7, Returns DEF Promised
<1>8. CASE pc = "ackRefresh" /\ AfterRefresh(a)
  <2>1. \/ pc' = "write" /\ result' = result
        \/ pc' = "idle" /\ result' = "error"
    BY <1>8 DEF AfterRefresh, Return
  <2>2. fate = "unsent"
    BY <1>8 DEF Progress
  <2>3. QED
    BY <1>6, <1>7, <2>1, <2>2 DEF Outcome!Outcomes, Outcome!Truthful
<1>9. CASE pc = "ackWrite" /\ AfterWrite(a)
  <2>1. \/ pc' \in {"refresh2", "raw"} /\ result' = result
        \/ pc' = "idle" /\ result' = "unknown"
        \/ a = "other" /\ pc' = "idle" /\ result' = IF op.cmd = "delete" THEN "false" ELSE "rejected"
        \/ a = "ok" /\ op.cmd = "reboot" /\ pc' = "idle" /\ result' = "true"
    BY <1>3, <1>9 DEF AfterWrite, Return, BeginTable
  <2>2. CASE pc' \in {"refresh2", "raw"} /\ result' = result
    BY <1>6, <2>2
  <2>3. CASE pc' = "idle" /\ result' = "unknown"
    BY <1>7, <2>3 DEF Outcome!Outcomes, Outcome!Truthful
  <2>4. CASE a = "other" /\ pc' = "idle" /\ result' = IF op.cmd = "delete" THEN "false" ELSE "rejected"
    <3>1. fate = "refused"
      BY <1>3, <1>9, <2>4
    <3>2. Outcome!Truthful(result') /\ result' \in Outcome!Outcomes
      BY <1>1, <2>4, <3>1 DEF Outcome!Outcomes, Outcome!Truthful
    <3>3. QED
      BY <1>7, <2>4, <3>2
  <2>5. CASE a = "ok" /\ op.cmd = "reboot" /\ pc' = "idle" /\ result' = "true"
    <3>1. Outcome!Truthful("true")
      BY <1>1, <1>3, <1>9, <2>5, DoneIsShown, TrueIsTruthful
    <3>2. QED
      BY <1>7, <2>5, <3>1 DEF Outcome!Outcomes
  <2>6. QED
    BY <2>1, <2>2, <2>3, <2>4, <2>5
<1>10. CASE pc = "ackRefresh2" /\ AfterRefresh2
  <2>1. pc' = "idle" /\ result' = "true"
    BY <1>10 DEF AfterRefresh2, Return
  <2>2. Done /\ op.cmd # "reboot"
    BY <1>10 DEF Progress
  <2>3. Outcome!Truthful("true")
    BY <1>1, <1>5, <2>2, DoneIsShown, TrueIsTruthful
  <2>4. QED
    BY <1>7, <2>1, <2>3 DEF Outcome!Outcomes
<1>11. QED
  BY <1>2, <1>8, <1>9, <1>10

RefineInv == TimelyInv /\ SlotsGuarded

LEMMA InitRefines == MInit => RefineInv /\ Outcome!OutcomeInit
<1> SUFFICES ASSUME MInit PROVE RefineInv /\ Outcome!OutcomeInit
  OBVIOUS
<1>1. /\ toDev = <<>> /\ pc = "idle" /\ op = NoCall /\ fate = "unsent"
      /\ dev.users \in [Uids -> Vals \cup {NoVal}] /\ dev.tpl \in SUBSET Uids
  BY DEF MInit, Init, LinkInit
<1>2. SlotsGuarded
  BY DEF MInit, Init, LinkInit, SlotsGuarded, Shows, Spares, NoCall
<1>3. ~Mutating /\ Abandoned = {}
  BY <1>1 DEF Mutating, Abandoned, NoCall, Mutations
<1>4. Outcome!OutcomeInit
  BY <1>1, <1>3 DEF Outcome!OutcomeInit, Outcome!NoMutation, NoCall
<1>5. QED
  BY <1>2, <1>4, InitTimely DEF RefineInv

LEMMA NextRefines ==
    ASSUME Timely = TRUE, MaxEnrol = 0, RefineInv, MNext
    PROVE  RefineInv' /\ Promised
<1> USE DEF RefineInv, TimelyInv, TimelyRest
<1>1. TypeInv /\ TimelyInv' /\ SlotsGuarded' /\ dev'.tpl = dev.tpl
  BY NextTimely, NextSlotsGuarded
<1>2. CASE TableSteps
  BY <1>1, <1>2, TableStepPromised
<1>3. CASE Calls
  BY <1>1, <1>3, CallsPromised
<1>4. CASE ReadReturns \/ AttendanceNext \/ ReadFails
  BY <1>1, <1>4, ReadEndPromised
<1>5. CASE Env /\ UNCHANGED mutVars
  <2>1. Outside /\ UNCHANGED <<readVars, mutVars>>
    BY <1>5 DEF Env
  <2>2. QED
    BY <1>1, <2>1, OutsidePromised
<1>6. CASE MutationCalls
  BY <1>1, <1>6, MutationCallsPromised
<1>7. CASE MutateSteps
  BY <1>1, <1>7, PreflightPromised, MutationEndPromised, SendPromised, AckQuietPromised
     DEF MutateSteps
<1>8. Promised
  BY <1>2, <1>3, <1>4, <1>5, <1>6, <1>7 DEF MNext, ReadPart, ReadSteps
<1>9. QED
  BY <1>1, <1>8

\* In time, and with nobody enrolling at the terminal, whatever is lost, refused
\* or retried below it, a mutation sends at most one request, to a slot without
\* templates, and tells its caller nothing that did not happen.
THEOREM MutationsKeepTheirPromise ==
    ASSUME Timely = TRUE, MaxEnrol = 0
    PROVE  MSpec => ImplementsOutcome
<1>1. RefineInv /\ [MNext]_mvars => RefineInv' /\ [Outcome!OutcomeNext]_(Outcome!outcomeVars)
  <2>1. SUFFICES ASSUME RefineInv, [MNext]_mvars
                 PROVE  RefineInv' /\ Promised
    BY DEF Promised
  <2>2. CASE MNext
    BY <2>1, <2>2, NextRefines
  <2>3. CASE UNCHANGED mvars
    <3>1. TimelyInv' /\ SlotsGuarded'
      BY <2>1, <2>3, StutterTimely
         DEF RefineInv, SlotsGuarded, mvars, vars, linkVars, readVars, mutVars
    <3>2. Abandoned' = Abandoned
      BY <2>3 DEF Abandoned, mvars, vars, linkVars
    <3>3. UNCHANGED Outcome!outcomeVars
      BY <2>3, <3>2, Stutters DEF mvars, vars, linkVars, readVars
    <3>4. QED
      BY <3>1, <3>3 DEF RefineInv, Promised
  <2>4. QED
    BY <2>1, <2>2, <2>3
<1>2. QED
  BY InitRefines, <1>1, PTL DEF MSpec, ImplementsOutcome, Outcome!OutcomeSpec

-----------------------------------------------------------------------------
(* What the retries outlast.  Every setback of a read is paid for by an    *)
(* adversity: a fault, or a path that full-size segments do not cross.     *)

Adversities == faults + IF path = "narrow" THEN 1 ELSE 0
Unhindered == conn = "up" /\ (path = "clear" \/ mss = TRUE)

Refusal(q) == \E i \in 1..Len(q) : q[i].k = "err"
Refused == Refusal(got) \/ Refusal(toCli) \/ Refusal(devOut)
Silent == toDev = <<>> /\ got = <<>> /\ toCli = <<>> /\ devOut = <<>>

\* The answer that is waited for, and needed, is a refusal or will not come.
Troubled ==
    /\ pc = "drain" \/ (pc = "freeAck" /\ phase = "recovery")
    /\ Refused \/ Silent

ReadingPcs == {"raw", "drain", "free", "freeAck"}

NoRestarts ==
    /\ op.cmd # "reboot"
    /\ \A i \in 1..Len(toDev) : toDev[i].cmd # "reboot"

\* A table read is not answered by an acknowledgement alone.
Opens(q) == q # <<>> => q[1].k # "ok"
Opening == pc = "drain" => ~HasAck(got) /\ Opens(Received \o devOut)

\* What the state of the connection has cost.
Connection ==
    /\ mss = maxseg
    /\ maxseg = TRUE => Adversities >= 1
    /\ isConnect = FALSE => Adversities >= 2
    /\ conn = "dead" => faults >= 1 /\ (maxseg = TRUE \/ sawAck = TRUE => Adversities >= 2)
    /\ sawAck = TRUE => faults >= 1
    /\ Refused => faults >= 1 /\ (conn = "dead" => faults >= 2)

\* What the attempts of a table read have cost.
Normal ==
    pc \in ReadingPcs /\ phase = "normal" /\ Unhindered =>
        faults >= (tries - 1) + (raws - 1) + IF Troubled THEN 1 ELSE 0

Recovery ==
    pc \in ReadingPcs \cup {"reconnect"} /\ phase = "recovery" =>
        /\ Adversities >= 1
        /\ tries >= 2 => Adversities >= 2
        /\ pc # "reconnect" => mss = TRUE
        /\ pc \in {"raw", "drain"} /\ raws >= 2 => Adversities >= 2
        /\ Troubled => Adversities >= 2

Failure == pc = "failed" /\ Attempts >= 2 => Adversities >= 2

Spent == Connection /\ Normal /\ Recovery /\ Failure
Budget == NoRestarts /\ Opening /\ Spent

\* The types the arithmetic needs.
LEMMA BudgetTypes ==
    ASSUME TypeInv
    PROVE  /\ faults \in Nat /\ Adversities \in Nat /\ Adversities >= faults
           /\ path = "narrow" => Adversities >= 1 /\ (faults >= 1 => Adversities >= 2)
           /\ tries \in Nat \ {0} /\ raws \in Nat \ {0}
           /\ conn \in {"up", "dead"} /\ path \in {"clear", "narrow"}
           /\ phase \in {"normal", "recovery"}
<1>1. /\ faults \in Nat /\ tries \in Nat \ {0} /\ raws \in Nat \ {0}
      /\ conn \in {"up", "dead"} /\ path \in {"clear", "narrow"}
      /\ phase \in {"normal", "recovery"}
  BY DEF TypeInv, MTypeOK, ReadTypeOK, LinkTypeOK
<1>2. QED
  BY <1>1 DEF Adversities

LEMMA BudgetBooleans ==
    ASSUME TypeInv
    PROVE  mss \in BOOLEAN /\ maxseg \in BOOLEAN /\ isConnect \in BOOLEAN /\ sawAck \in BOOLEAN
BY DEF TypeInv, MTypeOK, ReadTypeOK, LinkTypeOK

\* A whole number of records.
LEMMA Multiple ==
    ASSUME NEW n \in Nat \ {0}, NEW c \in Nat
    PROVE  (n * c) % n = 0
OBVIOUS

LEMMA WholeRecords ==
    ASSUME NEW m \in Memory, NEW cmd \in Reads
    PROVE  Records(cmd, m) % RecordSize(cmd) = 0
<1> DEFINE slots == {u \in Uids : m.users[u] # NoVal} \cup m.tpl \cup m.side
<1>1. slots \subseteq Uids /\ m.log \in Nat
  BY DEF Memory
<1>2. Cardinality(slots) \in Nat
  BY <1>1, UidsAssumption, FS_Subset, FS_CardinalityType
<1>3. CASE cmd = "users"
  <2> HIDE DEF slots
  <2>1. (UserSize * Cardinality(slots)) % UserSize = 0
    BY <1>2, SizeAssumption, Multiple
  <2>2. QED
    BY <1>3, <2>1 DEF Records, RecordSize, slots
<1>4. CASE cmd = "attendance"
  <2>1. (AttSize * m.log) % AttSize = 0
    BY <1>1, SizeAssumption, Multiple
  <2>2. QED
    BY <1>4, <2>1 DEF Records, RecordSize
<1>5. QED
  BY <1>3, <1>4 DEF Reads

\* A whole answer passes the gate.
LEMMA WholeAnswer ==
    ASSUME TypeInv, NEW q \in Seq(Piece), Len(q) = 4, \A i \in 1..4 : InPlace(i, q[i])
    PROVE  \E j \in DOMAIN q : Complete(q, j, rd)
<1>1. DOMAIN q = 1..4 /\ rd \in Reads
  BY LenProperties DEF TypeInv, MTypeOK, ReadTypeOK
<1>2. q[1].k = "prep" /\ q[2].k = "dhead" /\ q[3].k = "body" /\ q[4].k = "ok" /\ q[3].cmd = rd
  BY DEF InPlace, Current
<1>3. q[3] \in Piece
  <2>1. 3 \in 1..Len(q)
    OBVIOUS
  <2>2. QED
    BY <2>1, ElementOfSeq
<1>4. q[3].tab \in Memory
  BY <1>2, <1>3 DEF Piece
<1>5. Whole(q) = {1, 3}
  <2>1. ASSUME NEW i \in 1..4
        PROVE  (q[i].k = "prep" \/ (q[i].k = "body" /\ i > 1 /\ q[i - 1].k = "dhead")) <=> i \in {1, 3}
    <3>1. i = 1 \/ i = 2 \/ i = 3 \/ i = 4
      OBVIOUS
    <3>2. QED
      BY <1>2, <3>1
  <2>2. QED
    BY <1>1, <2>1 DEF Whole
<1>6. Records(q[3].cmd, q[3].tab) % RecordSize(rd) = 0
  BY <1>1, <1>2, <1>4, WholeRecords
<1>7. Complete(q, 3, rd)
  BY <1>2, <1>5, <1>6 DEF Complete
<1>8. QED
  BY <1>1, <1>7

-----------------------------------------------------------------------------
(* Refusals and openings of a stream.                                      *)

LEMMA JoinedRefusal ==
    ASSUME NEW q \in Seq(Piece), NEW r \in Seq(Piece)
    PROVE  Refusal(q \o r) <=> Refusal(q) \/ Refusal(r)
<1>1. /\ Len(q) \in Nat /\ Len(r) \in Nat /\ Len(q \o r) = Len(q) + Len(r)
      /\ \A i \in 1..Len(q) : i \in 1..Len(q \o r) /\ (q \o r)[i] = q[i]
      /\ \A i \in 1..Len(r) : Len(q) + i \in 1..Len(q \o r) /\ (q \o r)[Len(q) + i] = r[i]
  BY JoinedPieces
<1>2. ASSUME NEW i \in 1..Len(q \o r), (q \o r)[i].k = "err"
      PROVE  Refusal(q) \/ Refusal(r)
  <2>1. CASE i \in 1..Len(q)
    BY <1>1, <1>2, <2>1 DEF Refusal
  <2>2. CASE i \notin 1..Len(q)
    <3>1. i - Len(q) \in 1..Len(r) /\ i = Len(q) + (i - Len(q))
      BY <1>1, <2>2
    <3>2. QED
      BY <1>1, <1>2, <3>1 DEF Refusal
  <2>3. QED
    BY <2>1, <2>2
<1>3. QED
  BY <1>1, <1>2 DEF Refusal

LEMMA NoRefusal ==
    /\ ~Refusal(<<>>)
    /\ \A cmd : ~Refusal(Snapshot(cmd)) /\ Snapshot(cmd) # <<>> /\ Opens(Snapshot(cmd))
    /\ ~Refusal(Ack(TRUE)) /\ Ack(TRUE) # <<>> /\ Ack(FALSE) # <<>> /\ Opens(Ack(FALSE))
<1>1. ~Refusal(<<>>)
  BY EmptySeq DEF Refusal
<1>2. ASSUME NEW cmd PROVE ~Refusal(Snapshot(cmd)) /\ Snapshot(cmd) # <<>> /\ Opens(Snapshot(cmd))
  BY DEF Snapshot, P, Refusal, Opens
<1>3. ~Refusal(Ack(TRUE)) /\ Ack(TRUE) # <<>> /\ Ack(FALSE) # <<>> /\ Opens(Ack(FALSE))
  BY DEF Ack, P, Refusal, Opens
<1>4. QED
  BY <1>1, <1>2, <1>3

LEMMA JoinedOpening ==
    ASSUME NEW q \in Seq(Piece), NEW r \in Seq(Piece)
    PROVE  /\ Opens(q \o r) => Opens(q)
           /\ Opens(q) /\ (q = <<>> => Opens(r)) => Opens(q \o r)
<1>1. CASE q = <<>>
  BY <1>1, ConcatEmptySeq DEF Opens
<1>2. CASE q # <<>>
  <2>1. Len(q) \in Nat \ {0}
    BY <1>2, EmptySeq, LenProperties
  <2>2. (q \o r)[1] = q[1] /\ q \o r # <<>>
    <3>1. 1 \in 1..Len(q)
      BY <2>1
    <3>2. (q \o r)[1] = q[1] /\ 1 \in 1..Len(q \o r)
      BY <3>1, JoinedPieces
    <3>3. QED
      BY <3>2, EmptySeq
  <2>3. QED
    BY <1>2, <2>2 DEF Opens
<1>3. QED
  BY <1>1, <1>2

\* Nothing comes of joining nothing.
LEMMA JoinedNothing ==
    ASSUME NEW q \in Seq(Piece), NEW r \in Seq(Piece)
    PROVE  q \o r = <<>> <=> q = <<>> /\ r = <<>>
<1>1. Len(q) \in Nat /\ Len(r) \in Nat /\ Len(q \o r) = Len(q) + Len(r) /\ q \o r \in Seq(Piece)
  BY JoinedPieces
<1>2. QED
  BY <1>1, EmptySeq

-----------------------------------------------------------------------------
(* The terminal and the network.                                           *)

\* What the outside does costs nothing and troubles nobody, or is a fault.
LEMMA OutsideSpends ==
    ASSUME TypeInv, Spent,
           UNCHANGED <<pc, phase, tries, raws, sawAck, maxseg, isConnect, path, mss>>,
           \/ /\ faults' = faults /\ conn' = conn
              /\ Refused' => Refused
              /\ Troubled' => Troubled \/ conn = "dead"
           \/ /\ faults' = faults + 1
              /\ conn' = conn \/ conn' = "dead"
              /\ Refused' => Refused \/ conn' = "up"
    PROVE  Spent'
<1>1. /\ UNCHANGED <<pc, phase, tries, raws, sawAck, maxseg, isConnect, path, mss>>
      /\ conn' \in {"up", "dead"} /\ (conn' = "dead" \/ conn' = conn)
  BY BudgetTypes
<1>2. CASE faults' = faults
  <2>1. /\ conn' = conn /\ Adversities' = Adversities /\ Unhindered' = Unhindered
        /\ Refused' => Refused
        /\ Troubled' => Troubled \/ conn = "dead"
    BY <1>1, <1>2, BudgetTypes DEF Adversities, Unhindered
  <2>2. Connection'
    BY <1>1, <1>2, <2>1 DEF Spent, Connection
  <2>3. Normal'
    BY <1>1, <1>2, <2>1, BudgetTypes DEF Spent, Normal, Unhindered
  <2>4. Recovery'
    <3>1. conn = "dead" /\ mss = TRUE => Adversities >= 2
      BY DEF Spent, Connection
    <3>2. Troubled' => pc \in {"drain", "freeAck"}
      BY <1>1 DEF Troubled
    <3>3. QED
      BY <1>1, <2>1, <3>1, <3>2 DEF Spent, Recovery, ReadingPcs
  <2>5. Failure'
    BY <1>1, <2>1 DEF Spent, Failure
  <2>6. QED
    BY <2>2, <2>3, <2>4, <2>5 DEF Spent
<1>3. CASE faults' = faults + 1
  <2>1. /\ Adversities' = Adversities + 1
        /\ Refused' => Refused \/ conn' = "up"
        /\ Unhindered' => Unhindered
    BY <1>1, <1>3, BudgetTypes DEF Adversities, Unhindered
  <2>2. Connection'
    BY <1>1, <1>3, <2>1, BudgetTypes DEF Spent, Connection
  <2>3. Normal'
    <3>1. ASSUME pc \in ReadingPcs, phase = "normal", Unhindered
          PROVE  faults >= (tries - 1) + (raws - 1)
      BY <3>1, BudgetTypes DEF Spent, Normal
    <3>2. QED
      BY <1>1, <1>3, <2>1, <3>1, BudgetTypes DEF Normal
  <2>4. Recovery'
    BY <1>1, <2>1, BudgetTypes DEF Spent, Recovery
  <2>5. Failure'
    BY <1>1, <2>1, BudgetTypes DEF Spent, Failure
  <2>6. QED
    BY <2>2, <2>3, <2>4, <2>5 DEF Spent
<1>4. QED
  BY <1>2, <1>3, BudgetTypes

\* The terminal answers the oldest request.
LEMMA TookOpens ==
    ASSUME TypeInv, TimelyRest, Budget, NEW f \in {"applied", "refused"}, NEW reply, Took(f, reply)
    PROVE  NoRestarts' /\ Opening'
<1>1. /\ toDev \in Seq(Request) /\ got \in Seq(Piece) /\ toCli \in Seq(Piece) /\ devOut \in Seq(Piece)
      /\ rd \in Reads /\ conn \in {"up", "dead"}
      /\ UNCHANGED <<pc, op, got, toCli, conn>> /\ toDev # <<>> /\ toDev' = Tail(toDev)
  BY DEF TypeInv, MTypeOK, ReadTypeOK, LinkTypeOK, Took, readVars
<1>2. reply \in Seq(Piece) /\ Head(toDev) = toDev[1] /\ Len(toDev) \in Nat \ {0}
  BY TookHead DEF TimelyRest
<1>3. NoRestarts'
  <2>1. /\ Len(toDev') = Len(toDev) - 1
        /\ \A i \in 1..Len(toDev') : i + 1 \in 1..Len(toDev) /\ toDev'[i] = toDev[i + 1]
    BY <1>1, <1>2, HeadTailProperties
  <2>2. QED
    BY <1>1, <2>1 DEF Budget, NoRestarts
<1>4. Opening'
  <2>1. SUFFICES ASSUME pc = "drain" PROVE Opens(Received \o devOut)'
    BY <1>1 DEF Opening, Budget, HasAck
  <2>2. /\ Received \in Seq(Piece) /\ Received' = Received /\ Opens(Received \o devOut)
        /\ Received \o devOut \in Seq(Piece)
    BY <1>1, <2>1, ConcatProperties DEF Received, Budget, Opening
  <2>3. CASE conn = "dead"
    <3>1. devOut' = devOut
      BY <2>3 DEF Took, Reply
    <3>2. QED
      BY <2>2, <3>1
  <2>4. CASE conn = "up"
    <3>1. devOut' = devOut \o reply
      BY <2>4 DEF Took, Reply
    <3>2. (Received \o devOut)' = (Received \o devOut) \o reply
      <4>1. (Received \o devOut) \o reply = Received \o (devOut \o reply)
        <5>1. Received \in Seq(Piece) /\ devOut \in Seq(Piece) /\ reply \in Seq(Piece)
          BY <1>1, <1>2, <2>2
        <5>2. QED
          BY <5>1, JoinThree
      <4>2. QED
        BY <2>2, <3>1, <4>1
    <3>3. Received \o devOut = <<>> => Opens(reply)
      <4>1. SUFFICES ASSUME Received \o devOut = <<>> PROVE Opens(reply)
        OBVIOUS
      <4>2. devOut = <<>>
        BY <1>1, <2>2, <4>1, JoinedNothing
      <4>3. Flowing /\ pc \in Waiting
        BY <2>1, <2>4, <4>2, EmptyFlows DEF Flowing, Waiting
      <4>4. toDev[1].cmd \in Reads
        BY <1>1, <2>1, <4>3 DEF TimelyRest, Stream, Awaiting, Asked
      <4>5. reply = <<>> \/ reply = Ack(FALSE) \/ reply = Snapshot(toDev[1].cmd)
        BY <1>2, <4>4 DEF Took, Answers
      <4>6. QED
        BY <4>5, NoRefusal DEF Opens
    <3>4. QED
      BY <1>2, <2>2, <3>2, <3>3, JoinedOpening
  <2>5. QED
    BY <1>1, <2>3, <2>4
<1>5. QED
  BY <1>3, <1>4

\* How it answers.
LEMMA Replies ==
    ASSUME TypeInv, NEW reply \in Seq(Piece), Reply(reply)
    PROVE  /\ Refusal(devOut') => Refusal(devOut) \/ (conn = "up" /\ Refusal(reply))
           /\ conn = "up" /\ reply # <<>> => devOut' # <<>>
<1>1. devOut \in Seq(Piece) /\ conn \in {"up", "dead"}
  BY DEF TypeInv, MTypeOK, ReadTypeOK, LinkTypeOK
<1>2. QED
  BY <1>1, JoinedRefusal, JoinedNothing DEF Reply

LEMMA ServingSpends ==
    ASSUME TypeInv, TimelyRest, Budget, Serve \/ Refuse \/ ServeMute, UNCHANGED <<readVars, mutVars>>
    PROVE  Budget'
<1>1. NoRestarts' /\ Opening'
  BY ServingTakes, TookOpens
<1>2. /\ UNCHANGED <<path, mss, conn, got, toCli>> /\ faults \in Nat
      /\ UNCHANGED <<pc, phase, tries, raws, sawAck, maxseg, isConnect>>
  BY BudgetTypes DEF Serve, Refuse, ServeMute, readVars
<1>3. CASE Serve
  <2>1. PICK reply \in Seq(Piece) : Reply(reply) /\ ~Refusal(reply) /\ reply # <<>>
    <3>1. dev \in Memory
      BY DEF TypeInv, MTypeOK, ReadTypeOK, LinkTypeOK
    <3>2. CASE Head(toDev).cmd \in Reads
      BY <1>3, <3>1, <3>2, SnapshotType, NoRefusal DEF Serve
    <3>3. CASE Head(toDev).cmd \notin Reads
      BY <1>3, <3>3, AckType, NoRefusal DEF Serve
    <3>4. QED
      BY <3>2, <3>3
  <2>2. /\ Refusal(devOut') => Refusal(devOut)
        /\ conn = "up" => devOut' # <<>>
    BY <2>1, Replies
  <2>3. Refused' => Refused
    BY <1>2, <2>2 DEF Refused
  <2>4. Troubled' => Troubled \/ conn = "dead"
    BY <1>2, <2>2, <2>3, BudgetTypes DEF Troubled, Silent
  <2>5. faults' = faults
    BY <1>3 DEF Serve
  <2>6. Spent'
    BY <1>2, <2>3, <2>4, <2>5, OutsideSpends DEF Budget
  <2>7. QED
    BY <1>1, <2>6 DEF Budget
<1>4. CASE Refuse \/ ServeMute
  <2>1. faults' = faults + 1
    BY <1>4 DEF Refuse, ServeMute, Fault
  <2>2. Refusal(devOut') => Refusal(devOut) \/ conn = "up"
    <3>1. CASE Refuse
      BY <3>1, Replies, AckType DEF Refuse
    <3>2. CASE ServeMute
      BY <3>2 DEF ServeMute
    <3>3. QED
      BY <1>4, <3>1, <3>2
  <2>3. Refused' => Refused \/ conn' = "up"
    BY <1>2, <2>2 DEF Refused
  <2>4. Spent'
    BY <1>2, <2>1, <2>3, OutsideSpends DEF Budget
  <2>5. QED
    BY <1>1, <2>4 DEF Budget
<1>5. QED
  BY <1>3, <1>4

LEMMA BreakSpends ==
    ASSUME TypeInv, Budget, Break, UNCHANGED <<readVars, mutVars>>
    PROVE  Budget'
<1>1. /\ UNCHANGED <<pc, phase, tries, raws, sawAck, maxseg, isConnect, path, mss>>
      /\ UNCHANGED <<got, op>> /\ faults' = faults + 1 /\ conn' = "dead"
      /\ devOut' = <<>> /\ toCli' \in {toCli, <<>>}
      /\ got \in Seq(Piece) /\ toCli \in Seq(Piece) /\ devOut \in Seq(Piece)
      /\ toDev \in Seq(Request)
  BY DEF Break, Fault, readVars, TypeInv, MTypeOK, ReadTypeOK, LinkTypeOK
<1>2. Refused' => Refused
  BY <1>1, NoRefusal DEF Refused
<1>3. Spent'
  BY <1>1, <1>2, OutsideSpends DEF Budget
<1>4. NoRestarts'
  <2>1. PICK n \in 0..Len(toDev) : toDev' = SubSeq(toDev, 1, n)
    BY DEF Break
  <2>2. Len(toDev) \in Nat /\ \A i \in 1..n : i \in 1..Len(toDev) /\ toDev[i] \in Request
    BY <1>1, LenProperties, ElementOfSeq
  <2>3. Len(toDev') = n /\ \A i \in 1..n : toDev'[i] = toDev[i]
    BY <2>1, <2>2, SubSeqProperties
  <2>4. QED
    BY <1>1, <2>2, <2>3 DEF Budget, NoRestarts
<1>5. Opening'
  <2>1. SUFFICES ASSUME pc = "drain" PROVE Opens(Received \o devOut)'
    BY <1>1 DEF Opening, Budget, HasAck
  <2>2. Received \in Seq(Piece) /\ Opens(Received \o devOut)
    BY <1>1, <2>1, ConcatProperties DEF Received, Budget, Opening
  <2>3. Opens(Received)
    BY <1>1, <2>2, JoinedOpening
  <2>4. Opens(got)
    BY <1>1, <2>3, JoinedOpening DEF Received
  <2>5. Received' = Received \/ Received' = got
    BY <1>1, ConcatEmptySeq DEF Received
  <2>6. (Received \o devOut)' = Received'
    BY <1>1, <2>2, <2>5, ConcatEmptySeq
  <2>7. QED
    BY <2>3, <2>4, <2>5, <2>6
<1>6. QED
  BY <1>3, <1>4, <1>5 DEF Budget

LEMMA DeliverSpends ==
    ASSUME TypeInv, Budget, NEW n \in 1..Len(devOut), Deliver(n), UNCHANGED <<readVars, mutVars>>
    PROVE  Budget'
<1> DEFINE a == SubSeq(devOut, 1, n)
           b == SubSeq(devOut, n + 1, Len(devOut))
<1>1. /\ UNCHANGED <<pc, phase, tries, raws, sawAck, maxseg, isConnect, path, mss>>
      /\ UNCHANGED <<got, op, toDev, conn, faults>>
      /\ toCli' = toCli \o a /\ devOut' = b
      /\ got \in Seq(Piece) /\ toCli \in Seq(Piece) /\ devOut \in Seq(Piece)
  BY DEF Deliver, readVars, TypeInv, MTypeOK, ReadTypeOK, LinkTypeOK
<1>2. n \in 0..Len(devOut) /\ devOut # <<>>
  BY <1>1, LenProperties, EmptySeq
<1>3. a \in Seq(Piece) /\ b \in Seq(Piece) /\ a \o b = devOut
  BY <1>1, <1>2, SubSeqType, CutJoins
<1>4. a # <<>>
  <2>1. Len(a) = n /\ n \in Nat \ {0}
    BY <1>1, LenProperties, SubSeqProperties
  <2>2. QED
    BY <2>1, EmptySeq
<1> HIDE DEF a, b
<1>5. Refused' => Refused
  <2>1. Refusal(toCli') <=> Refusal(toCli) \/ Refusal(a)
    BY <1>1, <1>3, JoinedRefusal
  <2>2. Refusal(devOut) <=> Refusal(a) \/ Refusal(b)
    BY <1>3, JoinedRefusal
  <2>3. QED
    BY <1>1, <2>1, <2>2 DEF Refused
<1>6. toCli' # <<>>
  BY <1>1, <1>3, <1>4, JoinedNothing
<1>7. Troubled' => Troubled
  BY <1>1, <1>5, <1>6 DEF Troubled, Silent
<1>8. Spent'
  BY <1>1, <1>5, <1>7, OutsideSpends DEF Budget
<1>9. (Received \o devOut)' = Received \o devOut
  <2>1. Received \in Seq(Piece)
    BY <1>1, ConcatProperties DEF Received
  <2>2. Received' = Received \o a
    <3>1. (got \o toCli) \o a = got \o (toCli \o a)
      <4>1. got \in Seq(Piece) /\ toCli \in Seq(Piece) /\ a \in Seq(Piece)
        BY <1>1, <1>3
      <4>2. QED
        BY <4>1, JoinThree
    <3>2. QED
      BY <1>1, <3>1 DEF Received
  <2>3. (Received \o a) \o b = Received \o (a \o b)
    BY <1>3, <2>1, JoinThree
  <2>4. QED
    BY <1>1, <1>3, <2>2, <2>3
<1>10. QED
  BY <1>1, <1>8, <1>9 DEF Budget, NoRestarts, Opening, HasAck, Opens

LEMMA OutsideBudget ==
    ASSUME TypeInv, TimelyRest, Budget, Outside, UNCHANGED <<readVars, mutVars>>
    PROVE  Budget'
<1>1. ~ServeReboot
  <2>1. ASSUME toDev # <<>> PROVE Head(toDev) = toDev[1] /\ 1 \in 1..Len(toDev)
    <3>1. toDev \in Seq(Request) /\ Len(toDev) \in Nat \ {0}
      BY <2>1, EmptySeq, LenProperties DEF TypeInv, MTypeOK, ReadTypeOK, LinkTypeOK
    <3>2. QED
      BY <2>1, <3>1
  <2>2. QED
    BY <2>1 DEF ServeReboot, Budget, NoRestarts
<1>2. ASSUME NEW u \in Uids, Enrol(u) PROVE Budget'
  <2>1. /\ UNCHANGED <<pc, phase, tries, raws, sawAck, maxseg, isConnect, path, mss>>
        /\ UNCHANGED <<conn, faults, toDev, devOut, toCli, got, op>>
    BY <1>2 DEF Enrol, readVars
  <2>2. (Refused' => Refused) /\ (Troubled' => Troubled)
    BY <2>1 DEF Refused, Troubled, Silent, Refusal
  <2>3. Spent'
    BY <2>1, <2>2, OutsideSpends DEF Budget
  <2>4. QED
    BY <2>1, <2>3 DEF Budget, NoRestarts, Opening, HasAck, Opens, Received
<1>3. QED
  BY <1>1, <1>2, ServingSpends, BreakSpends, DeliverSpends DEF Outside

-----------------------------------------------------------------------------
(* The client.                                                             *)

Fixed == UNCHANGED <<faults, path, mss, conn, maxseg, isConnect>>

\* Why an attempt may fail.
Setback == conn = "dead" \/ Troubled \/ (path = "narrow" /\ mss = FALSE)

LEMMA SetbackCosts ==
    ASSUME TypeInv, Spent, Setback, pc \in {"raw", "drain", "freeAck"}
    PROVE  /\ phase = "normal" => Adversities >= 1
           /\ phase = "normal" /\ Unhindered => faults >= (tries - 1) + (raws - 1) + 1
           /\ phase = "normal" /\ (maxseg = TRUE \/ sawAck = TRUE \/ Refused) /\ tries >= 2 =>
                Adversities >= 2
           /\ phase = "recovery" => Adversities >= 2
<1>1. ASSUME conn = "dead"
      PROVE  /\ Adversities >= 1 /\ ~Unhindered
             /\ maxseg = TRUE \/ sawAck = TRUE \/ Refused => Adversities >= 2
  BY <1>1, BudgetTypes DEF Spent, Connection, Unhindered
<1>2. ASSUME path = "narrow", mss = FALSE
      PROVE  /\ Adversities >= 1 /\ ~Unhindered
             /\ maxseg = TRUE \/ sawAck = TRUE \/ Refused => Adversities >= 2
  BY <1>2, BudgetTypes DEF Spent, Connection, Unhindered
<1>3. ASSUME Troubled, Unhindered, phase = "normal"
      PROVE  faults >= (tries - 1) + (raws - 1) + 1
  BY <1>3 DEF Spent, Normal, ReadingPcs
<1>4. Unhindered \/ conn = "dead" \/ (path = "narrow" /\ mss = FALSE)
  BY BudgetTypes, BudgetBooleans DEF Unhindered
<1>5. CASE phase = "normal"
  <2>1. CASE conn = "dead"
    BY <1>1, <1>5, <2>1
  <2>2. CASE path = "narrow" /\ mss = FALSE
    BY <1>2, <1>5, <2>2
  <2>3. CASE Troubled /\ Unhindered
    <3>1. faults >= (tries - 1) + (raws - 1) + 1
      BY <1>3, <1>5, <2>3
    <3>2. Adversities >= 1 /\ (tries >= 2 => Adversities >= 2)
      BY <3>1, BudgetTypes
    <3>3. QED
      BY <1>5, <3>1, <3>2
  <2>4. QED
    BY <1>4, <2>1, <2>2, <2>3 DEF Setback
<1>6. CASE phase = "recovery"
  <2>1. mss = TRUE /\ maxseg = TRUE /\ (Troubled => Adversities >= 2)
    BY <1>6 DEF Spent, Recovery, Connection, ReadingPcs
  <2>2. QED
    BY <1>1, <1>6, <2>1 DEF Setback
<1>7. QED
  BY <1>5, <1>6, BudgetTypes

\* Where one bulk read leads.
LEMMA BulkLeads ==
    ASSUME TypeInv, NEW q, NEW acked \in BOOLEAN, BulkDone(q, acked)
    PROVE  \/ pc' = "parsed" /\ sawAck' = sawAck
           \/ /\ \A j \in DOMAIN q : ~Complete(q, j, rd)
              /\ phase = "normal" /\ (sawAck' = TRUE => sawAck = TRUE \/ acked = TRUE)
              /\ \/ pc' = "free" /\ phase' = phase /\ tries' = tries + 1 /\ raws' = raws
                 \/ /\ pc' = "reconnect" /\ phase' = "recovery" /\ tries' = 1
                 \/ /\ pc' = "failed" /\ tries = Attempts
                    /\ sawAck = TRUE \/ acked = TRUE \/ maxseg = TRUE
           \/ /\ \A j \in DOMAIN q : ~Complete(q, j, rd)
              /\ phase = "recovery" /\ phase' = phase /\ sawAck' = sawAck
              /\ pc' \in {"reconnect", "failed"}
<1>1. CASE pc' = "parsed" /\ sawAck' = sawAck
  BY <1>1
<1>2. CASE /\ \A j \in DOMAIN q : ~Complete(q, j, rd)
           /\ phase = "normal" /\ sawAck' = (sawAck \/ acked) /\ NextAttempt(sawAck \/ acked)
  <2>1. sawAck' = TRUE => sawAck = TRUE \/ acked = TRUE
    BY <1>2, BudgetBooleans
  <2>2. \/ pc' = "free" /\ phase' = phase /\ tries' = tries + 1 /\ raws' = raws
        \/ pc' = "reconnect" /\ phase' = "recovery" /\ tries' = 1
        \/ pc' = "failed" /\ tries = Attempts /\ (sawAck = TRUE \/ acked = TRUE \/ maxseg = TRUE)
    BY <1>2, BudgetBooleans DEF NextAttempt
  <2>3. QED
    BY <1>2, <2>1, <2>2
<1>3. CASE /\ \A j \in DOMAIN q : ~Complete(q, j, rd)
           /\ phase = "recovery" /\ NextCycle /\ sawAck' = sawAck
  BY <1>3 DEF NextCycle
<1>4. QED
  BY <1>1, <1>2, <1>3, Zenon DEF BulkDone

LEMMA BulkSpends ==
    ASSUME TypeInv, Spent, pc \in {"raw", "drain"}, NEW q, NEW acked \in BOOLEAN, BulkDone(q, acked),
           (\A j \in DOMAIN q : ~Complete(q, j, rd)) => Setback /\ (acked = TRUE => Refused),
           Fixed, Refused' => Refused
    PROVE  Spent'
<1>1. /\ Adversities' = Adversities /\ Unhindered' = Unhindered
      /\ UNCHANGED <<faults, path, mss, conn, maxseg, isConnect>>
  BY DEF Fixed, Adversities, Unhindered
<1>2. pc' # "drain" /\ pc' # "freeAck" /\ ~Troubled'
  BY DEF BulkDone, NextAttempt, NextCycle, Troubled
<1>3. (sawAck' = TRUE => sawAck = TRUE \/ Refused) => Connection'
  BY <1>1, BudgetTypes DEF Spent, Connection
<1>4. CASE pc' = "parsed" /\ sawAck' = sawAck
  BY <1>3, <1>4 DEF Spent, Normal, Recovery, Failure, ReadingPcs
<1>5. CASE /\ Setback /\ (acked = TRUE => Refused)
           /\ phase = "normal" /\ (sawAck' = TRUE => sawAck = TRUE \/ acked = TRUE)
           /\ \/ pc' = "free" /\ phase' = phase /\ tries' = tries + 1 /\ raws' = raws
              \/ pc' = "reconnect" /\ phase' = "recovery" /\ tries' = 1
              \/ /\ pc' = "failed" /\ tries = Attempts
                 /\ sawAck = TRUE \/ acked = TRUE \/ maxseg = TRUE
  <2>1. Connection'
    BY <1>3, <1>5
  <2>2. Normal'
    <3>1. SUFFICES ASSUME pc' = "free", Unhindered PROVE faults >= (tries' - 1) + (raws' - 1)
      BY <1>1, <1>2, <1>5, BudgetTypes DEF Normal, ReadingPcs
    <3>2. tries' = tries + 1 /\ raws' = raws
      BY <1>5, <3>1
    <3>3. faults >= (tries - 1) + (raws - 1) + 1
      BY <1>5, <3>1, SetbackCosts
    <3>4. QED
      BY <3>2, <3>3, BudgetTypes
  <2>3. Recovery'
    <3>1. SUFFICES ASSUME pc' = "reconnect" PROVE Adversities' >= 1 /\ tries' = 1
      BY <1>2, <1>5 DEF Recovery, ReadingPcs
    <3>2. QED
      BY <1>1, <1>5, <3>1, SetbackCosts
  <2>4. Failure'
    BY <1>1, <1>5, SetbackCosts DEF Failure
  <2>5. QED
    BY <2>1, <2>2, <2>3, <2>4 DEF Spent
<1>6. CASE /\ Setback
           /\ phase = "recovery" /\ phase' = phase /\ sawAck' = sawAck
           /\ pc' \in {"reconnect", "failed"}
  <2>1. Adversities' >= 2
    BY <1>1, <1>6, SetbackCosts
  <2>2. Adversities' >= 1
    BY <1>1, <2>1, BudgetTypes
  <2>3. Recovery'
    BY <1>2, <1>6, <2>1, <2>2 DEF Recovery, ReadingPcs
  <2>4. Connection' /\ Normal' /\ Failure'
    BY <1>3, <1>6, <2>1 DEF Normal, Failure
  <2>5. QED
    BY <2>3, <2>4 DEF Spent
<1>7. QED
  BY <1>4, <1>5, <1>6, BulkLeads

\* A free that fails costs a recovery cycle, and an attempt nothing.
LEMMA FreeSpends ==
    ASSUME TypeInv, Spent, pc \in {"free", "freeAck"}, NEW ok, FreeDone(ok),
           ~ok /\ phase = "recovery" => Adversities >= 2,
           Fixed, Refused' => Refused, sawAck' = sawAck
    PROVE  Spent'
<1>1. /\ Adversities' = Adversities /\ Unhindered' = Unhindered
      /\ UNCHANGED <<faults, path, mss, conn, maxseg, isConnect>>
  BY DEF Fixed, Adversities, Unhindered
<1>2. pc' # "drain" /\ pc' # "freeAck" /\ ~Troubled'
  BY DEF FreeDone, NextCycle, Troubled
<1>3. Connection'
  BY <1>1, BudgetTypes DEF Spent, Connection
<1>4. CASE pc' = "raw" /\ raws' = 1 /\ UNCHANGED <<phase, tries>>
  <2>1. Normal'
    <3>1. ASSUME phase = "normal", Unhindered PROVE faults >= tries - 1
      BY <3>1, BudgetTypes DEF Spent, Normal, ReadingPcs
    <3>2. QED
      BY <1>1, <1>2, <1>4, <3>1, BudgetTypes DEF Normal
  <2>2. Recovery'
    BY <1>1, <1>2, <1>4 DEF Spent, Recovery, ReadingPcs
  <2>3. QED
    BY <1>3, <1>4, <2>1, <2>2 DEF Spent, Failure
<1>5. CASE phase = "recovery" /\ phase' = phase /\ pc' \in {"reconnect", "failed"} /\ ~ok
  BY <1>1, <1>2, <1>3, <1>5, BudgetTypes DEF Spent, Normal, Recovery, Failure, ReadingPcs
<1>6. QED
  BY <1>4, <1>5 DEF FreeDone, NextCycle

\* Elsewhere nothing is spent, and a table read begins with nothing spent on it.
LEMMA ElsewhereSpends ==
    ASSUME TypeInv, Spent, Fixed, Refused' => Refused, sawAck' = TRUE => sawAck = TRUE,
           \/ pc' \notin ReadingPcs \cup {"reconnect", "failed"}
           \/ pc' \in {"raw", "free"} /\ phase' = "normal" /\ tries' = 1 /\ raws' = 1
    PROVE  Spent'
<1>1. /\ Adversities' = Adversities
      /\ UNCHANGED <<faults, path, mss, conn, maxseg, isConnect>>
  BY DEF Fixed, Adversities
<1>2. Connection'
  BY <1>1, BudgetTypes DEF Spent, Connection
<1>3. Normal'
  BY <1>1, BudgetTypes DEF Normal, Troubled
<1>4. QED
  BY <1>2, <1>3 DEF Spent, Recovery, Failure, ReadingPcs

\* In a network that answers in time a silent line is a setback.
LEMMA QuietSetback ==
    ASSUME TypeInv, Stream, Opening, Timely = TRUE, MayTimeOut,
           pc = "drain" \/ (pc = "freeAck" /\ phase = "recovery")
    PROVE  Setback
<1> SUFFICES ASSUME Unhindered PROVE Silent
  BY BudgetTypes, BudgetBooleans DEF Setback, Troubled, Unhindered
<1>1. Flowing /\ pc \in Waiting
  BY DEF Unhindered, Flowing, Stuck, Waiting
<1>2. /\ toCli = <<>> /\ toDev = <<>> /\ devOut = <<>> /\ Received = got
      /\ got \in Seq(Piece)
  BY <1>1, TimesOut DEF TypeInv, MTypeOK, ReadTypeOK
<1>3. Received \o devOut = got /\ Len(got) \in Nat
  BY <1>2, ConcatEmptySeq, LenProperties
<1>4. Fits(got) /\ Ended(got)
  BY <1>1, <1>2, <1>3, EmptySeq DEF Stream, Awaiting
<1>5. got = <<>>
  <2>1. CASE pc = "freeAck"
    BY <2>1 DEF Stream
  <2>2. CASE pc = "drain"
    <3>1. ~HasAck(got) /\ DOMAIN got = 1..Len(got)
      BY <1>2, <2>2, LenProperties DEF Opening
    <3>2. Len(got) # 1
      BY <1>4, <3>1 DEF Ended, HasAck
    <3>3. Len(got) # 4
      BY <1>4, <3>1 DEF Fits, HasAck, InPlace, IsAck
    <3>4. QED
      BY <1>2, <1>3, <1>4, <3>2, <3>3, EmptySeq DEF Ended
  <2>3. QED
    BY <2>1, <2>2
<1>6. QED
  BY <1>2, <1>5 DEF Silent

\* What ends the drain with an acknowledgement and is not a whole table is a refusal.
LEMMA DrainRefused ==
    ASSUME TypeInv, Stream, Opening, pc = "drain", HasAck(Received),
           \A j \in DOMAIN Received : ~Complete(Received, j, rd)
    PROVE  Refused /\ Setback
<1>1. /\ got \in Seq(Piece) /\ toCli \in Seq(Piece) /\ devOut \in Seq(Piece)
  BY DEF TypeInv, MTypeOK, ReadTypeOK, LinkTypeOK
<1>2. Received \in Seq(Piece) /\ Len(Received) \in Nat /\ DOMAIN Received = 1..Len(Received)
  BY <1>1, ConcatProperties, LenProperties DEF Received
<1>3. Fits(Received)
  BY DEF Stream, Awaiting, Waiting
<1>4. Opens(Received)
  BY <1>1, <1>2, JoinedOpening DEF Opening
<1>5. PICK i \in 1..Len(Received) : IsAck(Received[i])
  BY <1>2 DEF HasAck
<1>6. CASE Len(Received) <= 4 /\ \A n \in 1..Len(Received) : InPlace(n, Received[n])
  <2>1. i \notin {1, 2, 3}
    BY <1>5, <1>6 DEF InPlace, IsAck
  <2>2. Len(Received) = 4
    BY <1>2, <1>6, <2>1
  <2>3. QED
    BY <1>2, <1>6, <2>2, WholeAnswer
<1>7. CASE Len(Received) <= 1
  <2>1. i = 1 /\ Received # <<>>
    BY <1>2, <1>7, EmptySeq
  <2>2. Received[1].k = "err"
    BY <1>4, <1>5, <2>1 DEF Opens, IsAck
  <2>3. Refusal(Received)
    BY <2>1, <2>2 DEF Refusal
  <2>4. Refusal(got) \/ Refusal(toCli)
    BY <1>1, <2>3, JoinedRefusal DEF Received
  <2>5. QED
    BY <2>4 DEF Refused, Setback, Troubled
<1>8. QED
  BY <1>3, <1>6, <1>7 DEF Fits

\* A request that is sent troubles nobody yet.
LEMMA SendSpends ==
    ASSUME TypeInv, Stream, Spent, NEW r \in Request, SendTo(r), got' = <<>>, Fixed,
           UNCHANGED <<devOut, toCli, phase, tries, raws, sawAck>>,
           \/ pc = "raw" /\ pc' = "drain"
           \/ pc = "free" /\ pc' = "freeAck"
    PROVE  Spent'
<1>1. /\ Adversities' = Adversities /\ Unhindered' = Unhindered
      /\ UNCHANGED <<faults, path, mss, conn, maxseg, isConnect>>
      /\ got' = <<>> /\ toCli' = <<>> /\ devOut' = devOut
      /\ got = <<>> /\ toCli = <<>> /\ toDev \in Seq(Request)
  BY DEF Fixed, Adversities, Unhindered, Stream, Resting, Waiting, AckPcs, TypeInv, MTypeOK,
         ReadTypeOK, LinkTypeOK
<1>2. Refused' => Refused
  BY <1>1 DEF Refused
<1>3. Unhindered => ~Troubled'
  <2>1. SUFFICES ASSUME Unhindered PROVE ~Refused' /\ ~Silent'
    BY DEF Troubled
  <2>2. conn = "up" /\ Flowing
    BY <2>1 DEF Unhindered, Flowing, Stuck
  <2>3. devOut' = <<>>
    BY <1>1, <2>2 DEF Stream, Resting, Waiting, AckPcs
  <2>4. toDev' # <<>>
    BY <1>1, <2>2, AppendProperties, EmptySeq DEF SendTo
  <2>5. QED
    BY <1>1, <2>3, <2>4, NoRefusal DEF Refused, Silent
<1>4. Connection'
  BY <1>1, <1>2 DEF Spent, Connection
<1>5. Normal'
  <2>1. SUFFICES ASSUME phase = "normal", Unhindered PROVE faults >= (tries - 1) + (raws - 1)
    BY <1>1, <1>3, BudgetTypes DEF Normal
  <2>2. QED
    BY <2>1, BudgetTypes DEF Spent, Normal, ReadingPcs
<1>6. Recovery'
  <2>1. SUFFICES ASSUME phase = "recovery"
                 PROVE  /\ Adversities >= 1 /\ mss = TRUE
                        /\ tries >= 2 => Adversities >= 2
                        /\ pc = "raw" /\ raws >= 2 => Adversities >= 2
                        /\ ~Unhindered => Adversities >= 2
    BY <1>1, <1>3 DEF Recovery
  <2>2. /\ Adversities >= 1 /\ mss = TRUE
        /\ tries >= 2 => Adversities >= 2
        /\ pc = "raw" /\ raws >= 2 => Adversities >= 2
    BY <2>1 DEF Spent, Recovery, ReadingPcs
  <2>3. ~Unhindered => conn = "dead"
    BY <2>2, BudgetTypes DEF Unhindered
  <2>4. QED
    BY <2>2, <2>3 DEF Spent, Connection
<1>7. QED
  BY <1>4, <1>5, <1>6 DEF Spent, Failure

LEMMA DrainSpends ==
    ASSUME TypeInv, Stream, Budget, Timely = TRUE, DrainRecv \/ DrainQuiet
    PROVE  Spent'
<1>1. /\ got \in Seq(Piece) /\ toCli \in Seq(Piece)
      /\ pc = "drain" /\ devOut' = devOut /\ Fixed
  BY DEF DrainRecv, DrainQuiet, Fixed, linkVars, TypeInv, MTypeOK, ReadTypeOK, LinkTypeOK
<1>2. Spent /\ Opening
  BY DEF Budget
<1>3. CASE DrainRecv
  <2>1. toCli' = <<>> /\ toCli # <<>> /\ toDev' = toDev
    BY <1>3 DEF DrainRecv
  <2>2. CASE HasAck(Received) /\ BulkDone(Received, TRUE)
    <3>1. got' = <<>>
      BY <2>2, BulkEnds
    <3>2. Refused' => Refused
      BY <1>1, <2>1, <3>1, NoRefusal DEF Refused
    <3>3. (\A j \in DOMAIN Received : ~Complete(Received, j, rd)) => Setback /\ Refused
      BY <1>1, <1>2, <2>2, DrainRefused
    <3>4. TRUE \in BOOLEAN /\ BulkDone(Received, TRUE)
      BY <2>2
    <3>5. QED
      BY <1>1, <1>2, <3>2, <3>3, <3>4, BulkSpends
  <2>3. CASE got' = Received /\ UNCHANGED <<pc, phase, tries, raws, sawAck>>
    <3>1. Refusal(Received) <=> Refusal(got) \/ Refusal(toCli)
      BY <1>1, JoinedRefusal DEF Received
    <3>2. Refused' => Refused
      BY <1>1, <2>1, <2>3, <3>1, NoRefusal DEF Refused
    <3>3. got' # <<>>
      BY <1>1, <2>1, <2>3, JoinedNothing DEF Received
    <3>4. Troubled' => Troubled
      BY <1>1, <2>3, <3>2, <3>3 DEF Troubled, Silent
    <3>5. QED
      BY <1>1, <1>2, <2>3, <3>2, <3>4, OutsideSpends DEF Fixed
  <2>4. QED
    BY <1>3, <2>2, <2>3 DEF DrainRecv, Received
<1>4. CASE DrainQuiet
  <2>1. MayTimeOut /\ UNCHANGED linkVars
    BY <1>4 DEF DrainQuiet
  <2>2. Setback
    BY <1>1, <1>2, <2>1, QuietSetback
  <2>3. got' = <<>>
    BY <1>4, BulkEnds DEF DrainQuiet
  <2>4. Refused' => Refused
    BY <2>1, <2>3, NoRefusal DEF Refused, linkVars
  <2>5. CASE raws' = raws + 1 /\ pc' = "raw" /\ UNCHANGED <<phase, tries, sawAck>>
    <3>1. /\ Adversities' = Adversities /\ Unhindered' = Unhindered /\ ~Troubled'
          /\ UNCHANGED <<faults, path, mss, conn, maxseg, isConnect>>
      BY <1>1, <2>5 DEF Fixed, Adversities, Unhindered, Troubled
    <3>2. Connection'
      BY <1>2, <2>4, <2>5, <3>1 DEF Spent, Connection
    <3>3. Normal'
      <4>1. SUFFICES ASSUME phase = "normal", Unhindered PROVE faults >= (tries - 1) + raws
        BY <2>5, <3>1, BudgetTypes DEF Normal
      <4>2. faults >= (tries - 1) + (raws - 1) + 1
        BY <1>1, <1>2, <2>2, <4>1, SetbackCosts
      <4>3. QED
        BY <4>2, BudgetTypes
    <3>4. Recovery'
      <4>1. SUFFICES ASSUME phase = "recovery" PROVE Adversities >= 2 /\ mss = TRUE
        BY <2>5, <3>1, BudgetTypes DEF Recovery
      <4>2. QED
        BY <1>1, <1>2, <2>2, <4>1, SetbackCosts DEF Spent, Recovery, ReadingPcs
    <3>5. QED
      BY <2>5, <3>2, <3>3, <3>4 DEF Spent, Failure
  <2>6. CASE BulkDone(IF BigEnough(got) THEN got ELSE <<>>, FALSE)
    <3> DEFINE q == IF BigEnough(got) THEN got ELSE <<>>
    <3>1. BulkDone(q, FALSE) /\ FALSE \in BOOLEAN
      BY <2>6
    <3> HIDE DEF q
    <3>2. QED
      BY <1>1, <1>2, <2>2, <2>4, <3>1, BulkSpends
  <2>7. QED
    BY <1>4, <2>5, <2>6 DEF DrainQuiet
<1>5. QED
  BY <1>3, <1>4

LEMMA FreeingSpends ==
    ASSUME TypeInv, Stream, Budget, Timely = TRUE, FreeSendError \/ FreeRecv \/ FreeQuiet
    PROVE  Spent'
<1>1. /\ pc \in {"free", "freeAck"} /\ UNCHANGED <<got, sawAck, devOut>> /\ Fixed
  BY DEF FreeSendError, FreeRecv, FreeQuiet, Fixed, linkVars
<1>2. Spent /\ Opening
  BY DEF Budget
<1>3. phase = "recovery" => mss = TRUE /\ maxseg = TRUE /\ (conn = "dead" => Adversities >= 2)
  BY <1>1, <1>2 DEF Spent, Recovery, Connection, ReadingPcs
<1>4. CASE FreeSendError
  <2>1. FreeDone(FALSE) /\ toCli' = toCli
    BY <1>4 DEF FreeSendError, linkVars
  <2>2. phase = "recovery" => Adversities >= 2
    BY <1>2, <1>3, <1>4, BudgetBooleans DEF FreeSendError, Spent, Connection
  <2>3. Refused' => Refused
    BY <1>1, <2>1 DEF Refused
  <2>4. QED
    BY <1>1, <1>2, <2>1, <2>2, <2>3, FreeSpends
<1>5. CASE FreeRecv
  <2>1. /\ pc = "freeAck" /\ toCli # <<>> /\ toCli' = AfterRecv16(toCli)
        /\ FreeDone(Recv16Status(toCli))
    BY <1>5 DEF FreeRecv
  <2>2. Len(toCli) = 1 /\ IsAck(toCli[1]) /\ toCli' = <<>>
    BY <2>1, FreeAnswer
  <2>3. Refused' => Refused
    BY <1>1, <2>2, NoRefusal DEF Refused
  <2>4. ~Recv16Status(toCli) => Refused
    BY <2>2 DEF Recv16Status, IsAck, Refused, Refusal
  <2>5. ~Recv16Status(toCli) /\ phase = "recovery" => Adversities >= 2
    BY <1>2, <2>1, <2>4 DEF Spent, Recovery, Troubled, ReadingPcs
  <2>6. QED
    BY <1>1, <1>2, <2>1, <2>3, <2>5, FreeSpends
<1>6. CASE FreeQuiet
  <2>1. FreeDone(FALSE) /\ UNCHANGED linkVars /\ MayTimeOut /\ pc = "freeAck"
    BY <1>6 DEF FreeQuiet
  <2>2. phase = "recovery" => Adversities >= 2
    BY <1>2, <2>1, QuietSetback, SetbackCosts
  <2>3. Refused' => Refused
    BY <1>1, <2>1 DEF Refused, linkVars
  <2>4. QED
    BY <1>1, <1>2, <2>1, <2>2, <2>3, FreeSpends
<1>7. QED
  BY <1>4, <1>5, <1>6

LEMMA ReconnectSpends ==
    ASSUME TypeInv, Stream, Budget, Reconnect \/ ReconnectFails, phase = "recovery"
    PROVE  Spent'
<1>1. /\ Adversities >= 1 /\ (tries >= 2 => Adversities >= 2) /\ (sawAck = TRUE => faults >= 1)
      /\ got = <<>> /\ pc = "reconnect"
  BY DEF Budget, Spent, Recovery, Connection, Reconnect, ReconnectFails, Stream, Resting, Waiting, AckPcs
<1>2. /\ toCli' = <<>> /\ devOut' = <<>> /\ got' = <<>> /\ path' = path /\ sawAck' = sawAck
      /\ mss' = TRUE /\ maxseg' = TRUE /\ phase' = phase
  BY <1>1 DEF Reconnect, ReconnectFails, NewSocket, NextCycle
<1>3. ~Refused'
  BY <1>2, NoRefusal DEF Refused
<1>4. CASE Reconnect
  <2>1. /\ isConnect' = TRUE /\ conn' = "up" /\ pc' = "free" /\ faults' = faults /\ tries' = tries
        /\ Adversities' = Adversities
    BY <1>2, <1>4 DEF Reconnect, NewSocket, Adversities
  <2>2. Connection'
    BY <1>1, <1>2, <1>3, <2>1 DEF Connection
  <2>3. Normal' /\ Failure'
    BY <1>2, <2>1 DEF Normal, Failure
  <2>4. Recovery'
    BY <1>1, <1>2, <2>1 DEF Recovery, Troubled
  <2>5. QED
    BY <2>2, <2>3, <2>4 DEF Spent
<1>5. CASE ReconnectFails
  <2>1. /\ faults' = faults + 1 /\ pc' \in {"reconnect", "failed"}
        /\ Adversities' = Adversities + 1
    BY <1>2, <1>5, BudgetTypes DEF ReconnectFails, Fault, NextCycle, Adversities
  <2>2. Adversities' >= 2 /\ Adversities' >= 1 /\ faults' >= 1
    BY <1>1, <2>1, BudgetTypes
  <2>3. Connection'
    BY <1>2, <1>3, <2>2 DEF Connection
  <2>4. Normal' /\ Failure'
    BY <1>2, <2>1, <2>2 DEF Normal, Failure
  <2>5. Recovery'
    BY <1>2, <2>1, <2>2 DEF Recovery, Troubled, ReadingPcs
  <2>6. QED
    BY <2>3, <2>4, <2>5 DEF Spent
<1>6. QED
  BY <1>4, <1>5

\* Requests are added to the queue, or dropped from it.
LEMMA NoRestartsSend ==
    ASSUME TypeInv, NoRestarts, NEW r \in Request, r.cmd # "reboot", SendTo(r), op' = op
    PROVE  NoRestarts'
<1>1. toDev \in Seq(Request)
  BY DEF TypeInv, MTypeOK, ReadTypeOK, LinkTypeOK
<1>2. CASE toDev' = toDev
  BY <1>2 DEF NoRestarts
<1>3. CASE toDev' = Append(toDev, r)
  <2>1. /\ Len(toDev) \in Nat /\ Len(toDev') = Len(toDev) + 1 /\ toDev'[Len(toDev) + 1] = r
        /\ \A i \in 1..Len(toDev) : toDev'[i] = toDev[i]
    BY <1>1, <1>3, LenProperties, AppendProperties
  <2>2. \A i \in 1..Len(toDev') : i \in 1..Len(toDev) \/ i = Len(toDev) + 1
    BY <2>1
  <2>3. QED
    BY <2>1, <2>2 DEF NoRestarts
<1>4. QED
  BY <1>2, <1>3 DEF SendTo

LEMMA TableStepBudget ==
    ASSUME TypeInv, Stream, ClampInRecovery, Budget, Timely = TRUE, TableSteps
    PROVE  Budget'
<1>1. /\ got \in Seq(Piece) /\ toCli \in Seq(Piece) /\ devOut \in Seq(Piece)
      /\ rd \in Reads /\ op \in Call /\ callNo \in Nat /\ op' = op
  BY TableStepFrame DEF TypeInv, MTypeOK, ReadTypeOK, LinkTypeOK
<1>2. \A c \in Reads \cup {"free"} : Req(c) \in Request /\ Req(c).cmd = c /\ c # "reboot"
  BY <1>1 DEF Req, Request, Call, Requests, Reads
<1>3. NoRestarts /\ Opening /\ Spent
  BY DEF Budget
<1>4. CASE RawSend
  <2>1. /\ SendTo(Req(rd)) /\ got' = <<>> /\ Fixed /\ pc = "raw" /\ pc' = "drain"
        /\ UNCHANGED <<devOut, toCli, phase, tries, raws, sawAck>>
    BY <1>4 DEF RawSend, Fixed
  <2>2. Req(rd) \in Request /\ Req(rd).cmd # "reboot"
    BY <1>1, <1>2
  <2>3. NoRestarts' /\ Spent'
    BY <1>1, <1>3, <2>1, <2>2, NoRestartsSend, SendSpends
  <2>4. toCli' = <<>> /\ Opens(devOut)
    <3>1. toCli' = <<>> /\ (devOut # <<>> => Stuck)
      BY <2>1, BudgetTypes DEF Stream, Resting, Waiting, AckPcs, Flowing
    <3>2. Stuck => devOut[1].k = "body"
      BY <1>1 DEF Stuck
    <3>3. QED
      BY <3>1, <3>2 DEF Opens
  <2>5. (Received \o devOut)' = devOut
    BY <1>1, <2>1, <2>4, ConcatEmptySeq DEF Received
  <2>6. ~HasAck(got)'
    BY <2>1, EmptySeq DEF HasAck
  <2>7. QED
    BY <2>3, <2>4, <2>5, <2>6 DEF Budget, Opening, Opens
<1>5. CASE FreeSend
  <2>1. /\ SendTo(Req("free")) /\ got' = got /\ Fixed /\ pc = "free" /\ pc' = "freeAck"
        /\ UNCHANGED <<devOut, toCli, phase, tries, raws, sawAck>>
    BY <1>5 DEF FreeSend, Fixed
  <2>2. got' = <<>>
    BY <2>1 DEF Stream, Resting, Waiting, AckPcs
  <2>3. Req("free") \in Request /\ Req("free").cmd # "reboot"
    BY <1>2
  <2>4. NoRestarts' /\ Spent'
    BY <1>1, <1>3, <2>1, <2>2, <2>3, NoRestartsSend, SendSpends
  <2>5. QED
    BY <2>1, <2>4 DEF Budget, Opening
<1>6. CASE RawSendError
  <2>1. UNCHANGED linkVars /\ BulkDone(<<>>, FALSE) /\ pc = "raw" /\ conn = "dead" /\ Fixed
    BY <1>6 DEF RawSendError, Fixed, linkVars
  <2>2. got' = <<>> /\ pc' # "drain"
    BY <2>1, BulkEnds DEF Waiting
  <2>3. Refused' => Refused
    BY <2>1, <2>2, NoRefusal DEF Refused, linkVars
  <2>4. Setback /\ FALSE \in BOOLEAN
    BY <2>1 DEF Setback
  <2>5. Spent'
    BY <1>3, <2>1, <2>3, <2>4, BulkSpends
  <2>6. QED
    BY <1>1, <1>3, <2>1, <2>2, <2>5 DEF Budget, NoRestarts, Opening, linkVars
<1>7. CASE DrainRecv \/ DrainQuiet
  <2>1. Spent'
    BY <1>7, DrainSpends
  <2>2. NoRestarts'
    BY <1>1, <1>3, <1>7 DEF DrainRecv, DrainQuiet, NoRestarts, linkVars
  <2>3. CASE pc' = "drain"
    <3>1. got' = Received /\ ~HasAck(Received) /\ toCli' = <<>> /\ devOut' = devOut /\ pc = "drain"
      BY <1>7, <2>3, BulkEnds DEF DrainRecv, DrainQuiet, Received, Waiting
    <3>2. Received \in Seq(Piece)
      BY <1>1, ConcatProperties DEF Received
    <3>3. Received' = Received
      BY <3>1, <3>2, ConcatEmptySeq DEF Received
    <3>4. QED
      BY <1>3, <2>1, <2>2, <3>1, <3>3 DEF Budget, Opening, HasAck, Opens
  <2>4. QED
    BY <2>1, <2>2, <2>3 DEF Budget, Opening
<1>8. CASE FreeSendError \/ FreeRecv \/ FreeQuiet
  <2>1. pc' # "drain" /\ toDev' = toDev
    BY <1>8, FreeEnds DEF FreeSendError, FreeRecv, FreeQuiet, linkVars
  <2>2. QED
    BY <1>1, <1>3, <1>8, <2>1, FreeingSpends DEF Budget, NoRestarts, Opening
<1>9. CASE Reconnect \/ ReconnectFails
  <2>1. phase = "recovery" /\ pc' # "drain" /\ toDev' = <<>>
    BY <1>9 DEF ClampInRecovery, Reconnect, ReconnectFails, NextCycle, NewSocket
  <2>2. NoRestarts'
    BY <1>1, <1>3, <2>1, EmptySeq DEF NoRestarts
  <2>3. QED
    BY <1>9, <2>1, <2>2, ReconnectSpends DEF Budget, Opening
<1>10. QED
  BY <1>4, <1>5, <1>6, <1>7, <1>8, <1>9 DEF TableSteps

LEMMA ConnectBudget ==
    ASSUME TypeInv, Stream, Budget, ConnectSucceeds \/ ConnectFails
    PROVE  Budget'
<1>1. PICK up \in BOOLEAN : /\ Connect(up)
                            /\ \/ up = TRUE /\ faults' = faults
                               \/ up = FALSE /\ faults' = faults + 1
  BY DEF ConnectSucceeds, ConnectFails, Fault
<1>2. /\ pc = "idle" /\ pc' = pc /\ UNCHANGED <<got, path, maxseg, sawAck>>
      /\ toDev' = <<>> /\ devOut' = <<>> /\ toCli' = <<>>
      /\ op'.cmd = "connect" /\ mss' = maxseg
      /\ isConnect' = (up \/ isConnect) /\ (up = TRUE => conn' = "up")
  BY <1>1 DEF Connect, NewCall, NoCall
<1>3. got' = <<>>
  BY <1>2 DEF Stream, Resting, Waiting, AckPcs
<1>4. ~Refused'
  BY <1>2, <1>3, NoRefusal DEF Refused
<1>5. isConnect' = FALSE => isConnect = FALSE
  BY <1>2, BudgetBooleans
<1>6. /\ maxseg = TRUE => Adversities >= 1
      /\ isConnect = FALSE => Adversities >= 2
      /\ sawAck = TRUE => faults >= 1
  BY DEF Budget, Spent, Connection
<1>7. /\ up = TRUE => faults' = faults /\ Adversities' = Adversities
      /\ up = FALSE => faults' = faults + 1 /\ Adversities' = Adversities + 1
  BY <1>1, <1>2, BudgetTypes DEF Adversities
<1>8. Connection'
  <2>1. CASE up = TRUE
    BY <1>2, <1>4, <1>5, <1>6, <1>7, <2>1 DEF Connection
  <2>2. CASE up = FALSE
    BY <1>2, <1>4, <1>5, <1>6, <1>7, <2>2, BudgetTypes DEF Connection
  <2>3. QED
    BY <2>1, <2>2
<1>9. Spent'
  BY <1>2, <1>8 DEF Spent, Normal, Recovery, Failure, ReadingPcs
<1>10. QED
  BY <1>2, <1>9, EmptySeq DEF Budget, NoRestarts, Opening

\* A step that sends no restart and starts no drain.
LEMMA ElsewhereBudget ==
    ASSUME TypeInv, Budget, Fixed, op'.cmd # "reboot",
           \/ toDev' = toDev
           \/ op' = op /\ \E r \in Request : r.cmd # "reboot" /\ SendTo(r),
           devOut' = devOut,
           \/ got' = <<>> /\ toCli' = toCli
           \/ got' = got /\ toCli' = toCli
           \/ got' = got \o toCli /\ toCli' = <<>>,
           sawAck' = sawAck \/ sawAck' = FALSE,
           \/ pc' \notin ReadingPcs \cup {"reconnect", "failed"}
           \/ pc' \in {"raw", "free"} /\ phase' = "normal" /\ tries' = 1 /\ raws' = 1
    PROVE  Budget'
<1>1. Refused' => Refused
  <2>1. got \in Seq(Piece) /\ toCli \in Seq(Piece)
    BY DEF TypeInv, MTypeOK, ReadTypeOK, LinkTypeOK
  <2>2. Refusal(got \o toCli) <=> Refusal(got) \/ Refusal(toCli)
    BY <2>1, JoinedRefusal
  <2>3. QED
    BY <2>2, NoRefusal DEF Refused
<1>2. Spent'
  BY <1>1, ElsewhereSpends DEF Budget
<1>3. NoRestarts'
  BY NoRestartsSend DEF Budget, NoRestarts
<1>4. QED
  BY <1>2, <1>3 DEF Budget, Opening, ReadingPcs

LEMMA CallsBudget ==
    ASSUME TypeInv, Stream, Budget, Calls
    PROVE  Budget'
<1>1. CASE \E cmd \in ReadOps \cap Reads : StartRead(cmd)
  <2>1. PICK cmd \in ReadOps \cap Reads : StartRead(cmd)
    BY <1>1
  <2>2. op'.cmd # "reboot"
    BY <2>1 DEF StartRead, NewCall, NoCall, Reads
  <2>3. /\ Fixed /\ UNCHANGED <<toDev, devOut, toCli>> /\ got' = <<>> /\ sawAck' = FALSE
        /\ pc' = "raw" /\ phase' = "normal" /\ tries' = 1 /\ raws' = 1
    BY <2>1 DEF StartRead, BeginTable, NewCall, Fixed
  <2>4. QED
    BY <2>2, <2>3, ElsewhereBudget
<1>2. QED
  BY <1>1, ConnectBudget DEF Calls

LEMMA ReadEndBudget ==
    ASSUME TypeInv, Budget, ReadReturns \/ AttendanceNext \/ ReadFails
    PROVE  Budget'
<1>1. /\ Fixed /\ UNCHANGED <<toDev, devOut, toCli, got, op>>
      /\ sawAck' = sawAck \/ sawAck' = FALSE
      /\ \/ pc' = "idle"
         \/ pc' = "free" /\ phase' = "normal" /\ tries' = 1 /\ raws' = 1
  BY DEF ReadReturns, AttendanceNext, ReadFails, Return, BeginTable, Fixed, linkVars
<1>2. op'.cmd # "reboot"
  BY <1>1 DEF Budget, NoRestarts
<1>3. pc' = "idle" => pc' \notin ReadingPcs \cup {"reconnect", "failed"}
  BY DEF ReadingPcs
<1>4. QED
  BY <1>1, <1>2, <1>3, ElsewhereBudget

LEMMA MutationCallsBudget ==
    ASSUME TypeInv, Budget, "reboot" \notin MutateOps, MutationCalls
    PROVE  Budget'
<1>1. PICK cmd \in MutateOps : \E c \in Arguments(cmd) : StartMutation(c)
  BY DEF MutationCalls
<1>2. PICK c \in Arguments(cmd) : StartMutation(c)
  BY <1>1
<1>3. c.cmd = cmd /\ cmd # "reboot"
  BY <1>1, <1>2, ArgumentsType, MutateOpsAssumption
<1>4. /\ Fixed /\ UNCHANGED <<toDev, devOut, toCli>> /\ got' = <<>> /\ sawAck' = FALSE /\ op' = c
      /\ pc' = "raw" /\ phase' = "normal" /\ tries' = 1 /\ raws' = 1
  BY <1>2, <1>3 DEF StartMutation, BeginTable, NewCall, Fixed
<1>5. QED
  BY <1>3, <1>4, ElsewhereBudget

LEMMA MutateStepsBudget ==
    ASSUME TypeInv, Budget, MutateSteps
    PROVE  Budget'
<1>1. op \in Call /\ op.cmd # "reboot" /\ callNo \in Nat
  BY DEF Budget, NoRestarts, TypeInv, MTypeOK, ReadTypeOK, LinkTypeOK
<1>2. \A p \in {"idle", "refresh", "write", "refresh2"} \cup AckPcs :
        p \notin ReadingPcs \cup {"reconnect", "failed"}
  BY DEF AckPcs, ReadingPcs
<1>3. CASE PreflightSet \/ PreflightDelete
  <2>1. /\ Fixed /\ UNCHANGED <<toDev, devOut, toCli, got, sawAck>>
        /\ pc' \in {"refresh", "idle"} /\ op'.cmd = op.cmd
    BY <1>1, <1>3 DEF PreflightSet, PreflightDelete, Preflight, Proceed, Decline, Return, Fixed,
                      linkVars, Call
  <2>2. QED
    BY <1>1, <1>2, <2>1, ElsewhereBudget
<1>4. CASE TableReadFails \/ SendError \/ AckRaises \/ Verified
  <2>1. /\ Fixed /\ UNCHANGED <<toDev, devOut, toCli, sawAck, op>> /\ got' \in {got, <<>>}
        /\ pc' = "idle"
    BY <1>4 DEF TableReadFails, SendError, AckRaises, Verified, Return, Fixed, linkVars
  <2>2. QED
    BY <1>1, <1>2, <2>1, ElsewhereBudget
<1>5. CASE RefreshSend \/ WriteSend
  <2>1. /\ Fixed /\ UNCHANGED <<devOut, toCli, sawAck, op>> /\ got' = <<>> /\ pc' \in AckPcs
    BY <1>5 DEF RefreshSend, WriteSend, AwaitAck, Fixed, AckPcs
  <2>2. SendTo(Req("refresh")) \/ (SendTo(Req(op.cmd)) /\ pc = "write")
    BY <1>5 DEF RefreshSend, WriteSend
  <2>3. \E r \in Request : r.cmd # "reboot" /\ SendTo(r)
    <3>1. Req("refresh") \in Request /\ Req("refresh").cmd # "reboot"
      BY <1>1 DEF Req, Request, Call, Requests
    <3>2. pc = "write" => Req(op.cmd) \in Request /\ Req(op.cmd).cmd # "reboot"
      BY <1>1 DEF Req, Request, Call, Requests, Mutations, TypeInv, MutatingOp, SendPcs
    <3>3. QED
      BY <2>2, <3>1, <3>2
  <2>4. QED
    BY <1>1, <1>2, <2>1, <2>3, ElsewhereBudget
<1>6. CASE AckRecv
  <2>1. /\ Fixed /\ UNCHANGED <<toDev, devOut, sawAck, op>> /\ got' = got \o toCli /\ toCli' = <<>>
        /\ pc' \in AckPcs
    BY <1>6 DEF AckRecv, Fixed
  <2>2. QED
    BY <1>1, <1>2, <2>1, ElsewhereBudget
<1>7. CASE AckQuiet
  <2>1. /\ Fixed /\ UNCHANGED <<toDev, devOut, toCli, op>> /\ got' = <<>>
        /\ sawAck' = sawAck \/ sawAck' = FALSE
        /\ \/ pc' \in {"idle", "write", "refresh2"}
           \/ pc' = "raw" /\ phase' = "normal" /\ tries' = 1 /\ raws' = 1
    BY <1>1, <1>7 DEF AckQuiet, AfterRefresh, AfterWrite, AfterRefresh2, Return, BeginTable, Fixed,
                      linkVars
  <2>2. QED
    BY <1>1, <1>2, <2>1, ElsewhereBudget
<1>8. QED
  BY <1>3, <1>4, <1>5, <1>6, <1>7 DEF MutateSteps

-----------------------------------------------------------------------------
(* The theorems.                                                           *)

BudgetInv == TimelyInv /\ ClampInRecovery /\ Budget

LEMMA InitBudget == ASSUME ExplicitMss = FALSE PROVE MInit => BudgetInv
<1> SUFFICES ASSUME MInit PROVE ClampInRecovery /\ Budget
  BY InitTimely DEF BudgetInv
<1>1. /\ toDev = <<>> /\ devOut = <<>> /\ toCli = <<>> /\ got = <<>> /\ pc = "idle"
      /\ op = NoCall /\ conn = "up" /\ timeout = "own"
      /\ mss = FALSE /\ maxseg = FALSE /\ isConnect = TRUE /\ sawAck = FALSE
  BY DEF MInit, Init, LinkInit
<1>2. ClampInRecovery
  BY <1>1 DEF ClampInRecovery
<1>3. NoRestarts
  BY <1>1, EmptySeq DEF NoRestarts, NoCall
<1>4. Connection
  BY <1>1, NoRefusal DEF Connection, Refused
<1>5. QED
  BY <1>1, <1>2, <1>3, <1>4 DEF Budget, Opening, Spent, Normal, Recovery, Failure, ReadingPcs

LEMMA NextBudget ==
    ASSUME Timely = TRUE, "reboot" \notin MutateOps, BudgetInv, MNext
    PROVE  BudgetInv'
<1> USE DEF BudgetInv, TimelyInv, TimelyRest
<1>1. TypeInv /\ Stream /\ TimelyInv' /\ ClampInRecovery'
  BY NextTimely, NextClamp, MutateClamp DEF MNext, ReadPart, Next
<1>2. CASE TableSteps
  BY <1>1, <1>2, TableStepBudget
<1>3. CASE Calls
  BY <1>1, <1>3, CallsBudget
<1>4. CASE ReadReturns \/ AttendanceNext \/ ReadFails
  BY <1>1, <1>4, ReadEndBudget
<1>5. CASE Env /\ UNCHANGED mutVars
  <2>1. Outside /\ UNCHANGED <<readVars, mutVars>>
    BY <1>5 DEF Env
  <2>2. QED
    BY <1>1, <2>1, OutsideBudget
<1>6. CASE MutationCalls
  BY <1>1, <1>6, MutationCallsBudget
<1>7. CASE MutateSteps
  BY <1>1, <1>7, MutateStepsBudget
<1>8. QED
  BY <1>2, <1>3, <1>4, <1>5, <1>6, <1>7 DEF MNext, ReadPart, ReadSteps

LEMMA StutterBudget == ASSUME BudgetInv, UNCHANGED mvars PROVE BudgetInv'
<1>1. TimelyInv' /\ ClampInRecovery'
  BY StutterTimely DEF BudgetInv, ClampInRecovery, mvars, vars, readVars
<1>2. /\ UNCHANGED <<toDev, devOut, toCli, conn, path, mss, faults>>
      /\ UNCHANGED <<op, pc, phase, tries, raws, got, sawAck, maxseg, isConnect>>
  BY DEF mvars, vars, linkVars, readVars
<1>3. /\ Refused' = Refused /\ Silent' = Silent /\ Adversities' = Adversities
      /\ Unhindered' = Unhindered /\ Received' = Received
  BY <1>2 DEF Refused, Refusal, Silent, Adversities, Unhindered, Received
<1>4. Troubled' = Troubled
  BY <1>2, <1>3 DEF Troubled
<1>5. NoRestarts' /\ Opening'
  BY <1>2, <1>3 DEF BudgetInv, Budget, NoRestarts, Opening, HasAck, Opens
<1>6. Connection' /\ Normal' /\ Recovery' /\ Failure'
  BY <1>2, <1>3, <1>4 DEF BudgetInv, Budget, Spent, Connection, Normal, Recovery, Failure
<1>7. QED
  BY <1>1, <1>5, <1>6 DEF BudgetInv, Budget, Spent

LEMMA BudgetAlways ==
    ASSUME Timely = TRUE, ExplicitMss = FALSE, "reboot" \notin MutateOps
    PROVE  MSpec => []BudgetInv
<1>1. BudgetInv /\ [MNext]_mvars => BudgetInv'
  BY NextBudget, StutterBudget
<1>2. QED
  BY InitBudget, <1>1, PTL DEF MSpec

\* In time, and as long as nobody restarts the terminal, the three sends of a
\* command, the attempts and the recovery outlast any single adversity: a table
\* read fails only after two, however many attempts, sends and cycles there are
\* (one attempt alone would give up at the first refusal).
THEOREM ReadsSurvive ==
    ASSUME Timely = TRUE, ExplicitMss = FALSE, "reboot" \notin MutateOps, Attempts >= 2
    PROVE  MSpec => []ReadsSurviveOneFault
<1>1. BudgetInv => ReadsSurviveOneFault
  <2>1. SUFFICES ASSUME BudgetInv, pc = "failed" PROVE Adversities > 1
    BY DEF ReadsSurviveOneFault, Adversities
  <2>2. Adversities >= 2
    BY <2>1 DEF BudgetInv, Budget, Spent, Failure
  <2>3. QED
    BY <2>1, <2>2, BudgetTypes DEF BudgetInv, TimelyInv
<1>2. QED
  BY BudgetAlways, <1>1, PTL

\* In time, a client on a clear path that meets no fault never reconnects with a
\* small MSS, and never sets tcp_maxseg for the calls that follow.
THEOREM RecoveryIsNotNeedless ==
    ASSUME Timely = TRUE, "reboot" \notin MutateOps
    PROVE  MSpec => []NoNeedlessRecovery
<1>1. CASE ExplicitMss = FALSE
  <2>1. BudgetInv => NoNeedlessRecovery
    <3>1. SUFFICES ASSUME BudgetInv, path = "clear", faults = 0 PROVE maxseg = FALSE
      BY DEF NoNeedlessRecovery
    <3>2. Adversities = 0
      BY <3>1 DEF Adversities
    <3>3. maxseg = TRUE => Adversities >= 1
      BY <3>1 DEF BudgetInv, Budget, Spent, Connection
    <3>4. maxseg \in BOOLEAN
      BY <3>1, BudgetBooleans DEF BudgetInv, TimelyInv
    <3>5. QED
      BY <3>2, <3>3, <3>4
  <2>2. QED
    BY BudgetAlways, <1>1, <2>1, PTL
<1>2. CASE ExplicitMss = TRUE
  <2>1. NoNeedlessRecovery
    BY <1>2 DEF NoNeedlessRecovery
  <2>2. QED
    BY <2>1, PTL
<1>3. QED
  BY <1>1, <1>2, AttemptsAssumption
=============================================================================
