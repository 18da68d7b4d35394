---------------------------- MODULE ZKLiveProofs ----------------------------
(***************************************************************************)
(* Proofs about ZKLive, for every set of event sizes and any number of     *)
(* events, calls and faults.                                               *)
(*                                                                         *)
(* As long as every call came to its regular end (clean), the exchange is  *)
(* in step: at most one request is under way, and for each place of a call *)
(* the invariant says what the terminal may send meanwhile.  LInv is that, *)
(* in parts: what rests between calls, a plain request, and the three      *)
(* places at which events mix with answers: registering, the capture loop  *)
(* with its parser, and an enrolment with its touches.  When a call does   *)
(* not end regularly nothing of it is left, and nothing is claimed.        *)
(***************************************************************************)
EXTENDS ZKLive, FiniteSetTheorems, SequenceTheorems, TLAPS

Outcomes == {"fail", "other", "ok", "zero", "duplicate"}
Packets == [k : {"ok", "refused", "event"}, id : Nat, res : Outcomes \cup {"none"}]
Pcs == CommandPcs \cup Loop \cup EnrolPcs \cup {"idle"}

LType ==
    /\ size \in {12, 32, 36, 52}
    /\ registered \in BOOLEAN /\ enabled \in BOOLEAN /\ enrolled \in BOOLEAN
    /\ enrolment \in 0..7 /\ punched \in Nat
    /\ up \in BOOLEAN /\ skew \in BOOLEAN
    /\ asked \in Seq(CommandPcs) /\ wire \in Seq(Packets)
    /\ op \in {"none", "capture", "enroll"} /\ pc \in Pcs
    /\ is_enabled \in BOOLEAN /\ was_enabled \in BOOLEAN /\ end_live_capture \in BOOLEAN
    /\ data \in Seq(Packets) /\ pos \in Nat /\ left \in Nat /\ yielded \in Seq(Nat)
    /\ attempts \in Int /\ done \in BOOLEAN
    /\ first \in Nat /\ clean \in BOOLEAN

-----------------------------------------------------------------------------
(* The invariant.                                                          *)

Silent == registered = FALSE /\ enrolment = NoEnrolment
Unserved == asked = <<pc>> /\ wire = <<>>
Unanswered == asked = <<>> /\ wire = <<>>
Answered(k) == asked = <<>> /\ wire = <<Reply(k)>>

\* Which call is at which place.
Place ==
    /\ pc \in {"cancel", "verify", "enable", "register", "disable"} \cup Loop => op = "capture"
    /\ pc \in {"enrolCancel", "startEnrol", "cancelAgain", "verifyAgain"} \cup EnrolPcs
         => op = "enroll"
    /\ op = "none" => pc = "idle"

\* A connection that is gone carries nothing.
Gone == up = FALSE => Unanswered

\* What a call changes is as it should be where it stands.
Settings ==
    /\ pc \notin Loop \cup EnrolPcs => sockTimeout = "own"
    /\ pc \notin {"enable", "disable"} => enabled = is_enabled
    /\ op = "enroll" \/ pc \in {"idle", "users", "cancel", "verify"} => is_enabled = was_enabled
    /\ pc = "enable" => is_enabled = FALSE /\ was_enabled = FALSE
    /\ op = "capture" /\ pc \in {"register", "unregister"} \cup Loop => is_enabled = TRUE
    /\ pc = "disable" => is_enabled = TRUE /\ was_enabled = FALSE

AtRest == pc = "idle" => Silent /\ Unanswered

PlainPcs == {"users", "cancel", "verify", "enable", "disable", "enrolCancel", "cancelAgain",
             "verifyAgain"}
PlainRequest ==
    pc \in PlainPcs =>
        /\ Silent
        /\ Unserved \/ Unanswered \/ Answered("ok") \/ Answered("refused")
        /\ pc = "enable" /\ Answered("ok") => enabled = TRUE
        /\ pc = "disable" /\ Answered("ok") => enabled = FALSE

\* A call that has not begun to listen has nothing to account for.
Fresh ==
    /\ pc \in {"users", "cancel", "verify", "enable", "register"} =>
         yielded = <<>> /\ data = <<>> /\ left = 0
    /\ pc \in {"users", "enrolCancel", "startEnrol"} => attempts = 3
    /\ done = TRUE => enrolled = TRUE

\* Behind its first h packets, the stream holds the events after the one
\* numbered from, up to the last one sent.
Upcoming(h, from) ==
    /\ h <= Len(wire)
    /\ \A i \in 1..Len(wire) :
         i > h => wire[i].k = "event" /\ wire[i].id = from + i - h
    /\ punched = from + Len(wire) - h

Registering ==
    pc = "register" =>
        /\ enrolment = NoEnrolment
        /\ \/ Unserved /\ registered = FALSE
           \/ Unanswered /\ (up = TRUE => registered = FALSE)
           \/ Answered("refused") /\ registered = FALSE
           \/ asked = <<>> /\ wire # <<>> /\ wire[1].k = "ok" /\ Upcoming(1, first)

\* Of the receive, k records are behind the parser.  Whatever the receive is
\* cut into, that is all of it, or a record starts every 52 bytes, or the next
\* one will not be recognised.
Parsed(k) ==
    /\ k \in 0..Len(data)
    /\ \A i \in 1..Len(yielded) : yielded[i] = first + i
    /\ \A i \in 1..Len(data) : data[i].k = "event"
    /\ \A i \in 1..Len(data) : i > k => data[i].id = first + Len(yielded) + i - k
    /\ Upcoming(0, first + Len(yielded) + Len(data) - k)
    /\ \/ left = 0 /\ k = Len(data)
       \/ /\ left > 0 /\ k < Len(data)
          /\ pos = 52 * k
          /\ left = (16 + size) * Len(data) - 16 - 52 * k
          /\ k = 0 \/ size = 36 \/ (k = 1 /\ size \in {32, 52})

Listening ==
    pc \in Loop =>
        /\ asked = <<>> /\ enrolment = NoEnrolment
        /\ up = TRUE =>
             /\ \E k \in 0..Len(data) : Parsed(k)
             /\ pc = "wait" => left = 0
             /\ pc = "parse" => left > 0

\* An event ahead of the answer, like a refusal, makes the call fail.
Unregistering ==
    pc = "unregister" =>
        /\ enrolment = NoEnrolment
        /\ asked = <<>> \/ asked = <<pc>>
        /\ \/ wire # <<>> /\ wire[1].k # "ok"
           \/ Unserved \/ Unanswered
           \/ Answered("ok") /\ registered = FALSE

Last == {"fail", "zero", "duplicate"}

\* Behind its first h packets, the stream holds the events of the enrolment
\* that follow the first e.  Two touches of each pair are an attempt.
Touched(h, e) ==
    /\ h <= Len(wire)
    /\ e \in 0..6
    /\ 2 * (3 - attempts) <= e
    /\ \A i \in 1..Len(wire) :
         i > h =>
           /\ Stored(wire[i].res) => enrolled = TRUE
           /\ wire[i].res \in Last => i = Len(wire) /\ enrolment = NoEnrolment
           /\ wire[i].res = "ok" => e + i - h \in {2, 4, 6}
    /\ \/ enrolment = e + Len(wire) - h /\ enrolment # NoEnrolment
       \/ /\ enrolment = NoEnrolment /\ e + Len(wire) - h <= 7
          /\ wire # <<>> => wire[Len(wire)].res \in Last

StartingEnrolment ==
    pc = "startEnrol" =>
        /\ registered = FALSE
        /\ \/ Unserved /\ enrolment = NoEnrolment
           \/ Unanswered /\ (up = TRUE => enrolment = NoEnrolment)
           \/ Answered("refused") /\ enrolment = NoEnrolment
           \/ /\ asked = <<>> /\ wire # <<>> /\ wire[1].k = "ok" /\ Len(wire) >= 1
              /\ Touched(1, 0)

Enrolling ==
    pc \in EnrolPcs =>
        /\ registered = FALSE /\ asked = <<>>
        /\ up = TRUE => \E e \in 0..6 : Touched(0, e)
        /\ pc = "final" => attempts = 0
        /\ pc # "final" => attempts \in 1..3

InStep ==
    clean = TRUE =>
        /\ skew = FALSE
        /\ Settings /\ Fresh /\ AtRest /\ PlainRequest
        /\ Registering /\ Listening /\ Unregistering
        /\ StartingEnrolment /\ Enrolling

LInv == LType /\ Place /\ Gone /\ InStep
-----------------------------------------------------------------------------
(* Streams.                                                                *)

\* What a packet added to the stream, and packets taken off its front, leave.
LEMMA StreamGrows ==
    ASSUME NEW S, NEW s \in Seq(S), NEW x \in S
    PROVE  /\ Append(s, x) \in Seq(S) /\ Len(Append(s, x)) = Len(s) + 1
           /\ Append(s, x) # <<>>
           /\ \A i \in 1..Len(s) : Append(s, x)[i] = s[i]
           /\ Append(s, x)[Len(s) + 1] = x
BY AppendProperties

LEMMA StreamCut ==
    ASSUME NEW S, NEW s \in Seq(S), NEW n \in 1..Len(s)
    PROVE  /\ SubSeq(s, n + 1, Len(s)) \in Seq(S)
           /\ Len(SubSeq(s, n + 1, Len(s))) = Len(s) - n
           /\ \A i \in 1..(Len(s) - n) : SubSeq(s, n + 1, Len(s))[i] = s[n + i]
<1> DEFINE t == SubSeq(s, n + 1, Len(s))
<1>1. /\ t \in Seq(S)
      /\ Len(t) = IF n + 1 <= Len(s) THEN Len(s) - (n + 1) + 1 ELSE 0
      /\ \A i \in 1..Len(t) : t[i] = s[n + 1 + i - 1]
  <2>1. \A i \in (n + 1)..Len(s) : i \in 1..Len(s)
    BY LenProperties
  <2> QED
    BY <2>1, LenProperties, SubSeqProperties
<1> HIDE DEF t
<1>2. Len(t) = Len(s) - n
  BY <1>1, LenProperties
<1>3. \A i \in 1..(Len(s) - n) : t[i] = s[n + i]
  BY <1>1, <1>2, LenProperties
<1> QED
  BY <1>1, <1>2, <1>3 DEF t

LEMMA StreamTaken ==
    ASSUME NEW S, NEW s \in Seq(S), NEW n \in 1..Len(s)
    PROVE  /\ SubSeq(s, 1, n) \in Seq(S) /\ Len(SubSeq(s, 1, n)) = n
           /\ \A i \in 1..n : SubSeq(s, 1, n)[i] = s[i]
BY LenProperties, SubSeqProperties

LEMMA StreamTail ==
    ASSUME NEW S, NEW s \in Seq(S), s # <<>>
    PROVE  /\ Tail(s) \in Seq(S) /\ Len(Tail(s)) = Len(s) - 1
           /\ \A i \in 1..(Len(s) - 1) : Tail(s)[i] = s[i + 1]
           /\ Head(s) = s[1] /\ s[1] \in S /\ Len(s) >= 1
BY HeadTailProperties, EmptySeq, LenProperties

\* A stream of one packet, and what is left without it.
LEMMA Single ==
    ASSUME NEW x
    PROVE  <<x>> # <<>> /\ <<x>>[1] = x /\ Len(<<x>>) = 1 /\ Head(<<x>>) = x /\ Tail(<<x>>) = <<>>
OBVIOUS

LEMMA AnswersTyped ==
    ASSUME NEW k \in {"ok", "refused"} PROVE Reply(k) \in Packets /\ Reply(k).k = k
BY DEF Reply, Packets

LEMMA EventsTyped ==
    ASSUME NEW i \in Nat, NEW r \in Outcomes
    PROVE  /\ Event(i, r) \in Packets
           /\ Event(i, r).k = "event" /\ Event(i, r).id = i /\ Event(i, r).res = r
BY DEF Event, Packets

-----------------------------------------------------------------------------
(* Types.                                                                  *)

LEMMA GoTyped ==
    ASSUME LType, NEW p \in Pcs, Go(p)
    PROVE  pc' \in Pcs /\ asked' \in Seq(CommandPcs)
<1>1. pc' \in Pcs
  BY DEF Go
<1>2. CASE p \in CommandPcs
  BY <1>2, StreamGrows DEF Go, LType
<1>3. CASE p \notin CommandPcs
  BY <1>3 DEF Go, LType
<1> QED
  BY <1>1, <1>2, <1>3

LEMMA LeaveTyped ==
    ASSUME LType, NEW r, Leave(r) \/ End(r)
    PROVE  pc' \in Pcs /\ asked' \in Seq(CommandPcs) /\ clean' \in BOOLEAN
BY DEF Leave, End, LType, Pcs

\* What one step leaves alone keeps its type.
TermType ==
    /\ size \in {12, 32, 36, 52}
    /\ registered \in BOOLEAN /\ enabled \in BOOLEAN /\ enrolled \in BOOLEAN
    /\ enrolment \in 0..7 /\ punched \in Nat
StreamType == up \in BOOLEAN /\ skew \in BOOLEAN /\ asked \in Seq(CommandPcs) /\ wire \in Seq(Packets)
PlaceType == op \in {"none", "capture", "enroll"} /\ pc \in Pcs
SettingsType == is_enabled \in BOOLEAN /\ was_enabled \in BOOLEAN /\ end_live_capture \in BOOLEAN
ParserType == data \in Seq(Packets) /\ pos \in Nat /\ left \in Nat /\ yielded \in Seq(Nat)
CallType == attempts \in Int /\ done \in BOOLEAN /\ first \in Nat /\ clean \in BOOLEAN

LEMMA TypeParts ==
    LType <=> TermType /\ StreamType /\ PlaceType /\ SettingsType /\ ParserType /\ CallType
BY DEF LType, TermType, StreamType, PlaceType, SettingsType, ParserType, CallType

LEMMA TypePartsNext ==
    LType' <=> TermType' /\ StreamType' /\ PlaceType' /\ SettingsType' /\ ParserType' /\ CallType'
BY DEF LType, TermType, StreamType, PlaceType, SettingsType, ParserType, CallType

\* A step that changes nothing of a part.
LEMMA TermTyped == TermType /\ UNCHANGED termVars => TermType'
BY DEF TermType, termVars
LEMMA SettingsTyped ==
    SettingsType /\ UNCHANGED <<is_enabled, was_enabled, end_live_capture>> => SettingsType'
BY DEF SettingsType
LEMMA ParserTyped == ParserType /\ UNCHANGED parseVars => ParserType'
BY DEF ParserType, parseVars

LEMMA InitTyped == ASSUME LInit PROVE LType
<1>1. size \in {12, 32, 36, 52}
  BY LiveAssumption DEF LInit
<1>2. TermType
  <2>1. registered \in BOOLEAN /\ enabled \in BOOLEAN /\ enrolled \in BOOLEAN
    BY DEF LInit
  <2>2. enrolment \in 0..7 /\ punched \in Nat
    BY DEF LInit, NoEnrolment
  <2> QED
    BY <1>1, <2>1, <2>2 DEF TermType
<1>3. StreamType
  <2>1. up \in BOOLEAN /\ skew \in BOOLEAN
    BY DEF LInit
  <2>2. asked \in Seq(CommandPcs) /\ wire \in Seq(Packets)
    BY DEF LInit
  <2> QED
    BY <2>1, <2>2 DEF StreamType
<1>4. PlaceType
  BY DEF LInit, PlaceType, Pcs
<1>5. SettingsType
  BY DEF LInit, SettingsType
<1>6. ParserType
  BY DEF LInit, ParserType
<1>7. CallType
  <2>1. done \in BOOLEAN /\ clean \in BOOLEAN
    BY DEF LInit
  <2>2. attempts \in Int /\ first \in Nat
    BY DEF LInit
  <2> QED
    BY <2>1, <2>2 DEF CallType
<1> QED
  BY <1>2, <1>3, <1>4, <1>5, <1>6, <1>7, TypeParts

LEMMA ServeTyped ==
    ASSUME LType, Serve PROVE LType'
<1>0. TermType /\ StreamType /\ PlaceType /\ SettingsType /\ ParserType /\ CallType
  BY TypeParts
<1> USE <1>0
<1>1. TermType'
  <2>1. registered' \in BOOLEAN
    BY DEF Serve, TermType
  <2>2. enabled' \in BOOLEAN
    BY DEF Serve, TermType
  <2>3. enrolment' \in 0..7
    BY DEF Serve, TermType, NoEnrolment
  <2>4. UNCHANGED <<size, enrolled, punched>>
    BY DEF Serve
  <2> QED
    BY <2>1, <2>2, <2>3, <2>4 DEF TermType
<1>2. asked' \in Seq(CommandPcs)
  BY StreamTail DEF Serve, LType
<1>3. wire' \in Seq(Packets)
  <2>1. wire' = wire \/ wire' = Append(wire, Reply("ok")) \/ wire' = Append(wire, Reply("refused"))
    BY DEF Serve
  <2>2. Reply("ok") \in Packets /\ Reply("refused") \in Packets
    BY AnswersTyped
  <2>3. Append(wire, Reply("ok")) \in Seq(Packets) /\ Append(wire, Reply("refused")) \in Seq(Packets)
    BY <2>2, StreamGrows DEF StreamType
  <2> QED
    BY <2>1, <2>3 DEF StreamType
<1>4. StreamType'
  BY <1>2, <1>3 DEF StreamType, Serve
<1>5. CallType'
  BY DEF Serve, CallType, TermType
<1>6. PlaceType' /\ SettingsType' /\ ParserType'
  BY DEF Serve, PlaceType, SettingsType, ParserType, parseVars
<1> QED
  BY <1>1, <1>4, <1>5, <1>6, TypePartsNext

LEMMA PunchTyped ==
    ASSUME LType, Punch PROVE LType'
<1>0. TermType /\ StreamType /\ PlaceType /\ SettingsType /\ ParserType /\ CallType
  BY TypeParts
<1> USE <1>0
<1>1. wire' \in Seq(Packets)
  <2>1. punched' \in Nat
    BY DEF Punch, LType
  <2>2. Event(punched', "other") \in Packets
    BY <2>1, EventsTyped DEF Outcomes
  <2> QED
    BY <2>2, StreamGrows DEF Punch, LType
<1>2. TermType' /\ StreamType'
  BY <1>1 DEF Punch, TermType, StreamType
<1>3. PlaceType' /\ SettingsType' /\ ParserType' /\ CallType'
  BY DEF Punch, PlaceType, SettingsType, ParserType, CallType, parseVars, callVars
<1> QED
  BY <1>2, <1>3, TypePartsNext

LEMMA EnrolEventTyped ==
    ASSUME LType, EnrolEvent PROVE LType'
<1>0. TermType /\ StreamType /\ PlaceType /\ SettingsType /\ ParserType /\ CallType
  BY TypeParts
<1> USE <1>0
<1>1. PICK res \in Outcomes :
        /\ res = "other" => enrolment \in {0, 2, 4}
        /\ res = "ok" => enrolment \in {1, 3, 5}
        /\ res \in {"zero", "duplicate"} => enrolment = 6
        /\ wire' = Append(wire, Event(0, res))
        /\ enrolment' = IF res \in {"fail", "zero", "duplicate"} THEN NoEnrolment ELSE enrolment + 1
        /\ enrolled' = (enrolled \/ res = "zero")
  BY DEF EnrolEvent, Outcomes
<1>2. wire' \in Seq(Packets)
  BY <1>1, EventsTyped, StreamGrows DEF LType
<1>3. enrolment' \in 0..7 /\ enrolled' \in BOOLEAN
  BY <1>1 DEF LType, NoEnrolment, Outcomes
<1>4. TermType' /\ StreamType'
  BY <1>2, <1>3 DEF EnrolEvent, TermType, StreamType
<1>5. PlaceType' /\ SettingsType' /\ ParserType' /\ CallType'
  BY DEF EnrolEvent, PlaceType, SettingsType, ParserType, CallType, parseVars, callVars
<1> QED
  BY <1>4, <1>5, TypePartsNext

LEMMA BreakTyped ==
    ASSUME LType, Break PROVE LType'
<1>0. TermType /\ StreamType /\ PlaceType /\ SettingsType /\ ParserType /\ CallType
  BY TypeParts
<1> USE <1>0
<1>1. TermType'
  BY TermTyped DEF Break
<1>3. StreamType'
  <2>1. up' \in BOOLEAN /\ skew' \in BOOLEAN
    BY DEF Break, StreamType
  <2>2. asked' \in Seq(CommandPcs) /\ wire' \in Seq(Packets)
    BY DEF Break
  <2> QED
    BY <2>1, <2>2 DEF StreamType
<1>2. PlaceType' /\ SettingsType' /\ ParserType' /\ CallType'
  BY DEF Break, PlaceType, SettingsType, ParserType, CallType, parseVars, callVars
<1> QED
  BY <1>1, <1>2, <1>3, TypePartsNext

LEMMA CallTyped ==
    ASSUME LType, NEW c \in LiveOps, Call(c) PROVE LType'
<1>0. TermType /\ StreamType /\ PlaceType /\ SettingsType /\ ParserType /\ CallType
  BY TypeParts
<1> USE <1>0
<1>1. Go("users") \/ Go("enrolCancel")
  BY DEF Call
<1>2. pc' \in Pcs /\ asked' \in Seq(CommandPcs)
  BY <1>1, GoTyped DEF Pcs, CommandPcs
<1>3. op' \in {"capture", "enroll"}
  BY LiveAssumption DEF Call
<1>4. PlaceType' /\ StreamType'
  BY <1>2, <1>3 DEF Call, PlaceType, StreamType
<1>5. TermType'
  BY DEF Call, TermType
<1>6. SettingsType'
  BY DEF Call, SettingsType
<1>7. ParserType'
  BY DEF Call, ParserType
<1>8. CallType'
  <2>1. done' \in BOOLEAN /\ clean' \in BOOLEAN
    BY DEF Call, CallType
  <2>2. attempts' \in Int /\ first' \in Nat
    BY DEF Call, CallType
  <2> QED
    BY <2>1, <2>2 DEF CallType
<1> QED
  BY <1>4, <1>5, <1>6, <1>7, <1>8, TypePartsNext

\* The place of a payload in a receive is a number of bytes.
LEMMA StartType ==
    ASSUME LType, NEW b, NEW i \in Nat, i >= 1
    PROVE  StartOf(b, i) \in Nat
<1> DEFINE E == {j \in 1..(i - 1) : b[j].k = "event"}
<1>1. IsFiniteSet(1..(i - 1))
  BY FS_Interval
<1>2. IsFiniteSet(E)
  BY <1>1, FS_Subset
<1>3. Cardinality(E) \in Nat
  BY <1>2, FS_CardinalityType
<1> HIDE DEF E
<1>4. size * Cardinality(E) \in Nat
  BY <1>3 DEF LType
<1> QED
  BY <1>4 DEF StartOf, E

LEMMA OnwardTyped ==
    ASSUME LType, pc \in CommandPcs PROVE Onward \in CommandPcs \cup {"wait", "event1", "idle"}
BY DEF Onward, CommandPcs, LType

LEMMA SucceededTyped ==
    ASSUME LType, pc \in CommandPcs, Succeeded
    PROVE  /\ pc' \in Pcs /\ asked' \in Seq(CommandPcs) /\ clean' \in BOOLEAN
           /\ is_enabled' \in BOOLEAN /\ end_live_capture' \in BOOLEAN
<1>1. Onward \in Pcs
  BY OnwardTyped DEF Pcs, Loop, EnrolPcs
<1>2. is_enabled' \in BOOLEAN /\ end_live_capture' \in BOOLEAN
  BY DEF Succeeded, LType
<1>3. CASE \E r : End(r)
  BY <1>2, <1>3, LeaveTyped
<1>4. CASE Go(Onward) /\ UNCHANGED <<result, clean>>
  BY <1>1, <1>2, <1>4, GoTyped DEF LType
<1>5. (\E r : End(r)) \/ (Go(Onward) /\ UNCHANGED <<result, clean>>)
  BY DEF Succeeded
<1> QED
  BY <1>3, <1>4, <1>5

LEMMA FailedTyped ==
    ASSUME LType, pc \in CommandPcs, Failed
    PROVE  /\ pc' \in Pcs /\ asked' \in Seq(CommandPcs) /\ clean' \in BOOLEAN
           /\ is_enabled' \in BOOLEAN /\ end_live_capture' \in BOOLEAN
<1>1. CASE Succeeded
  BY <1>1, SucceededTyped
<1>2. CASE Leave("error") /\ UNCHANGED <<is_enabled, sockTimeout, end_live_capture>>
  BY <1>2, LeaveTyped DEF LType
<1> QED
  BY <1>1, <1>2 DEF Failed

LEMMA ReadReplyTyped ==
    ASSUME LType, ReadReply PROVE LType'
<1>0. TermType /\ StreamType /\ PlaceType /\ SettingsType /\ ParserType /\ CallType
  BY TypeParts
<1> USE <1>0
<1>1. Succeeded \/ Failed
  BY DEF ReadReply
<1>2. /\ pc' \in Pcs /\ asked' \in Seq(CommandPcs) /\ clean' \in BOOLEAN
      /\ is_enabled' \in BOOLEAN /\ end_live_capture' \in BOOLEAN
  BY <1>1, SucceededTyped, FailedTyped DEF ReadReply
<1>3. wire' \in Seq(Packets)
  BY StreamTail DEF ReadReply, StreamType
<1>4. StreamType'
  <2>1. skew' \in BOOLEAN /\ up' \in BOOLEAN
    BY DEF ReadReply, StreamType
  <2> QED
    BY <1>2, <1>3, <2>1 DEF StreamType
<1>5. TermType'
  BY TermTyped DEF ReadReply
<1>6. ParserType'
  BY ParserTyped DEF ReadReply
<1>7. SettingsType' /\ PlaceType'
  BY <1>2 DEF ReadReply, SettingsType, PlaceType
<1>8. CallType'
  BY <1>2 DEF ReadReply, CallType
<1> QED
  BY <1>4, <1>5, <1>6, <1>7, <1>8, TypePartsNext

\* A call that stops where it is.
LEMMA StoppedTyped ==
    ASSUME LType, NEW r, Leave(r), UNCHANGED <<termVars, up, wire, is_enabled,
             end_live_capture, parseVars, callVars>>, skew' \in {skew, FALSE}
    PROVE  LType'
<1>0. TermType /\ StreamType /\ PlaceType /\ SettingsType /\ ParserType /\ CallType
  BY TypeParts
<1> USE <1>0
<1>1. pc' \in Pcs /\ asked' \in Seq(CommandPcs) /\ clean' \in BOOLEAN
  BY LeaveTyped
<1>2. TermType'
  BY TermTyped
<1>3. ParserType'
  BY ParserTyped
<1>4. StreamType'
  <2>1. skew' \in BOOLEAN /\ up' \in BOOLEAN
    BY DEF StreamType
  <2> QED
    BY <1>1, <2>1 DEF StreamType
<1>5. SettingsType' /\ PlaceType'
  BY <1>1 DEF SettingsType, PlaceType, callVars
<1>6. CallType'
  BY <1>1 DEF CallType, callVars
<1> QED
  BY <1>2, <1>3, <1>4, <1>5, <1>6, TypePartsNext

LEMMA LeavingTyped ==
    ASSUME LType, NoReply \/ ReceiveFails \/ Abandon PROVE LType'
<1>1. CASE NoReply
  BY <1>1, StoppedTyped DEF NoReply
<1>2. CASE ReceiveFails
  BY <1>2, StoppedTyped DEF ReceiveFails
<1>3. CASE Abandon
  BY <1>3, StoppedTyped DEF Abandon
<1> QED
  BY <1>1, <1>2, <1>3

\* A step of the loop that goes to another place of the call.
LEMMA MovedTyped ==
    ASSUME LType, NEW p \in Pcs, Go(p), StreamType', ParserType',
           UNCHANGED <<termVars, is_enabled, end_live_capture, callVars, clean>>
    PROVE  LType'
<1>0. TermType /\ StreamType /\ PlaceType /\ SettingsType /\ ParserType /\ CallType
  BY TypeParts
<1> USE <1>0
<1>1. pc' \in Pcs
  BY GoTyped
<1>2. TermType'
  BY TermTyped
<1>3. SettingsType' /\ PlaceType'
  BY <1>1 DEF SettingsType, PlaceType, callVars
<1>4. CallType'
  BY DEF CallType, callVars
<1> QED
  BY <1>2, <1>3, <1>4, TypePartsNext

LEMMA GoStream ==
    ASSUME LType, NEW p \in Pcs, Go(p), wire' \in Seq(Packets), skew' \in BOOLEAN, UNCHANGED up
    PROVE  StreamType'
BY GoTyped DEF StreamType, LType

LEMMA InPcs ==
    {"wait", "parse", "suspended", "unregister", "event1", "event2", "final", "users",
     "enrolCancel", "idle"} \subseteq Pcs
BY DEF Pcs, CommandPcs, Loop, EnrolPcs

LEMMA ReceiveTyped ==
    ASSUME LType, Receive PROVE LType'
<1>0. TermType /\ StreamType /\ PlaceType /\ SettingsType /\ ParserType /\ CallType
  BY TypeParts
<1> USE <1>0
<1>1. PICK n \in 1..Len(wire) :
        /\ wire' = SubSeq(wire, n + 1, Len(wire))
        /\ IF skew \/ Head(wire).k # "event"
           THEN /\ IF StopSeen THEN PutBack ELSE Go("wait") /\ UNCHANGED sockTimeout
                /\ UNCHANGED <<data, pos, left>>
           ELSE /\ data' = SubSeq(wire, 1, n)
                /\ pos' = 0
                /\ left' = StartOf(wire, n) + PayloadOf(wire[n])
                /\ Go("parse")
                /\ UNCHANGED sockTimeout
  BY DEF Receive
<1>2. wire' \in Seq(Packets)
  BY <1>1, StreamCut DEF StreamType
<1>3. \E p \in {"unregister", "wait", "parse"} : Go(p)
  BY <1>1 DEF PutBack
<1>4. StreamType'
  BY <1>2, <1>3, GoStream, InPcs DEF Receive, StreamType
<1>5. ParserType'
  <2>1. CASE UNCHANGED <<data, pos, left>>
    BY <2>1 DEF Receive, ParserType
  <2>2. CASE data' = SubSeq(wire, 1, n) /\ pos' = 0 /\ left' = StartOf(wire, n) + PayloadOf(wire[n])
    <3>1. data' \in Seq(Packets)
      BY <2>2, StreamTaken DEF StreamType
    <3>2. n \in Nat /\ n >= 1
      BY LenProperties DEF StreamType
    <3>3. StartOf(wire, n) \in Nat
      BY <3>2, StartType
    <3>4. PayloadOf(wire[n]) \in Nat
      BY DEF PayloadOf, TermType
    <3> QED
      BY <2>2, <3>1, <3>3, <3>4 DEF Receive, ParserType
  <2> QED
    BY <1>1, <2>1, <2>2
<1> QED
  BY <1>3, <1>4, <1>5, MovedTyped, InPcs DEF Receive

LEMMA ParseTyped ==
    ASSUME LType, Parse PROVE LType'
<1>0. TermType /\ StreamType /\ PlaceType /\ SettingsType /\ ParserType /\ CallType
  BY TypeParts
<1> USE <1>0
<1> DEFINE n == Take(left)
<1>1. CASE Leave("error") /\ UNCHANGED parseVars
  BY <1>1, StoppedTyped DEF Parse
<1>2. CASE /\ \E i \in Hits(n) : yielded' = Append(yielded, data[i].id)
           /\ pos' = pos + n /\ left' = Rest(n)
           /\ Go("suspended") /\ UNCHANGED <<data, result, clean>>
  <2>1. PICK i \in Hits(n) : yielded' = Append(yielded, data[i].id)
    BY <1>2
  <2>2. i \in 1..Len(data)
    BY <2>1, LenProperties DEF Hits, ParserType
  <2>7. data[i] \in Packets
    BY <2>2, ElementOfSeq DEF ParserType
  <2>3. data[i].id \in Nat
    BY <2>7 DEF Packets
  <2>4. yielded' \in Seq(Nat)
    BY <2>1, <2>3, StreamGrows DEF ParserType
  <2>5. n \in Nat /\ n <= left
    BY DEF Take, ParserType
  <2>6. ParserType'
    BY <1>2, <2>4, <2>5 DEF ParserType, Rest
  <2>8. StreamType'
    BY <1>2, GoStream, InPcs DEF Parse, StreamType
  <2> QED
    BY <1>2, <2>6, <2>8, MovedTyped, InPcs DEF Parse
<1> QED
  BY <1>1, <1>2 DEF Parse

LEMMA LoopTyped ==
    ASSUME LType, Quiet \/ Interrupt \/ Resume PROVE LType'
<1>0. TermType /\ StreamType /\ PlaceType /\ SettingsType /\ ParserType /\ CallType
  BY TypeParts
<1> USE <1>0
<1>1. \E p \in {"unregister", "wait", "parse", "suspended"} : Go(p)
  BY DEF Quiet, Interrupt, Resume, PutBack
<1>2. UNCHANGED <<up, wire, skew>>
  BY DEF Quiet, Interrupt, Resume
<1>3. StreamType'
  BY <1>1, <1>2, GoStream, InPcs DEF StreamType
<1>4. ParserType'
  BY DEF Quiet, Interrupt, Resume, ParserType, parseVars
<1>5. UNCHANGED <<termVars, is_enabled, end_live_capture, callVars, clean>>
  BY DEF Quiet, Interrupt, Resume
<1> QED
  BY <1>1, <1>3, <1>4, <1>5, MovedTyped, InPcs

LEMMA StopTyped ==
    ASSUME LType, Stop PROVE LType'
BY DEF Stop, LType, termVars, stream, parseVars

LEMMA EnrolReceiveTyped ==
    ASSUME LType, EnrolReceive PROVE LType'
<1>0. TermType /\ StreamType /\ PlaceType /\ SettingsType /\ ParserType /\ CallType
  BY TypeParts
<1> USE <1>0
<1>1. wire' \in Seq(Packets)
  <2>1. PICK n \in 1..Len(wire) : wire' = SubSeq(wire, n + 1, Len(wire))
    BY DEF EnrolReceive
  <2> QED
    BY <2>1, StreamCut DEF StreamType
<1>2. \E p \in {"unregister", "event1", "event2", "final"} : Go(p)
  BY DEF EnrolReceive, PutBack
<1>3. StreamType'
  BY <1>1, <1>2, GoStream, InPcs DEF EnrolReceive, StreamType
<1>4. attempts' \in Int
  BY DEF EnrolReceive, CallType
<1>5. done' \in BOOLEAN
  <2>1. \A res : Stored(res) \in BOOLEAN
    BY DEF Stored
  <2>2. done' = done \/ \E res : done' = Stored(res)
    BY DEF EnrolReceive
  <2> QED
    BY <2>1, <2>2 DEF CallType
<1>6. CallType'
  BY <1>4, <1>5 DEF EnrolReceive, CallType
<1>7. pc' \in Pcs
  BY <1>2, GoTyped, InPcs
<1>8. PlaceType' /\ SettingsType'
  BY <1>7 DEF EnrolReceive, PlaceType, SettingsType
<1>9. TermType' /\ ParserType'
  BY TermTyped, ParserTyped DEF EnrolReceive
<1> QED
  BY <1>3, <1>6, <1>8, <1>9, TypePartsNext

\* Types are kept by every step.
LEMMA TypesKeep ==
    ASSUME LType, [LNext]_lvars PROVE LType'
<1>1. CASE \E c \in LiveOps : Call(c)
  BY <1>1, CallTyped
<1>2. CASE ClientStep
  BY <1>2, ReadReplyTyped, LeavingTyped, ReceiveTyped, ParseTyped, LoopTyped, EnrolReceiveTyped
     DEF ClientStep
<1>3. CASE Interrupt \/ Resume \/ Abandon \/ Stop
  BY <1>3, LoopTyped, LeavingTyped, StopTyped
<1>4. CASE Serve \/ Punch \/ EnrolEvent \/ Break
  BY <1>4, ServeTyped, PunchTyped, EnrolEventTyped, BreakTyped
<1>5. CASE UNCHANGED lvars
  BY <1>5 DEF LType, lvars, termVars, stream, parseVars
<1> QED
  BY <1>1, <1>2, <1>3, <1>4, <1>5 DEF LNext

-----------------------------------------------------------------------------
(* Calls and their places.                                                 *)

LEMMA PlaceKeeps ==
    ASSUME LType, Place, [LNext]_lvars PROVE Place'
<1> USE DEF Place, Loop, EnrolPcs
<1>1. ASSUME NEW c \in LiveOps, Call(c) PROVE Place'
  <2>1. op' = c /\ c \in {"capture", "enroll"}
    BY <1>1, LiveAssumption DEF Call
  <2>2. pc' = "users" \/ (c = "enroll" /\ pc' = "enrolCancel")
    BY <1>1 DEF Call, Go
  <2> QED
    BY <2>1, <2>2
<1>2. ASSUME ReadReply PROVE Place'
  <2>1. pc' = "idle" \/ pc' = Onward
    BY <1>2 DEF ReadReply, Succeeded, Failed, Leave, End, Go
  <2>2. op' = op /\ pc \in CommandPcs
    BY <1>2 DEF ReadReply
  <2>3. op \in {"capture", "enroll"}
    BY <2>2 DEF LType, CommandPcs
  <2> QED
    BY <2>1, <2>2, <2>3 DEF Onward, CommandPcs
<1>3. ASSUME NoReply \/ ReceiveFails \/ Abandon PROVE Place'
  BY <1>3 DEF NoReply, ReceiveFails, Abandon, Leave
<1>4. ASSUME Receive PROVE Place'
  BY <1>4 DEF Receive, PutBack, Go, callVars
<1>5. ASSUME Parse PROVE Place'
  BY <1>5 DEF Parse, Leave, Go, callVars
<1>6. ASSUME Quiet \/ Interrupt \/ Resume PROVE Place'
  BY <1>6 DEF Quiet, Interrupt, Resume, PutBack, Go, callVars
<1>7. ASSUME EnrolReceive PROVE Place'
  <2>1. pc' \in {"unregister", "event1", "event2", "final"}
    BY <1>7 DEF EnrolReceive, PutBack, Go
  <2>2. op' = op /\ pc \in EnrolPcs
    BY <1>7 DEF EnrolReceive
  <2> QED
    BY <2>1, <2>2
<1>8. ASSUME Stop PROVE Place'
  BY <1>8 DEF Stop
<1>9. ASSUME Serve \/ Punch \/ EnrolEvent \/ Break PROVE Place'
  BY <1>9 DEF Serve, Punch, EnrolEvent, Break, callVars
<1>10. ASSUME UNCHANGED lvars PROVE Place'
  BY <1>10 DEF lvars
<1> QED
  BY <1>1, <1>2, <1>3, <1>4, <1>5, <1>6, <1>7, <1>8, <1>9, <1>10 DEF LNext, ClientStep

\* A connection that is gone stays gone, and empty.
LEMMA GoneKeeps ==
    ASSUME LType, Gone, [LNext]_lvars PROVE Gone'
<1> SUFFICES ASSUME up' = FALSE PROVE asked' = <<>> /\ wire' = <<>>
  BY DEF Gone, Unanswered
<1>1. CASE up # FALSE
  <2>1. Break
    BY <1>1 DEF LNext, ClientStep, Call, ReadReply, NoReply, Receive, Parse, Quiet, ReceiveFails,
                EnrolReceive, Interrupt, Resume, Abandon, Stop, Serve, Punch, EnrolEvent, lvars,
                stream
  <2> QED
    BY <2>1 DEF Break
<1>2. CASE up = FALSE
  <2>1. asked = <<>> /\ wire = <<>>
    BY <1>2 DEF Gone, Unanswered
  <2>2. ~ReadReply /\ ~Receive /\ ~EnrolReceive /\ ~Serve /\ ~Punch /\ ~EnrolEvent /\ ~Break
        /\ ~Quiet
    BY <1>2, <2>1 DEF ReadReply, Receive, EnrolReceive, Serve, Punch, EnrolEvent, Break, Quiet
  <2>3. \A p : Go(p) => asked' = asked
    BY <1>2 DEF Go
  <2>4. CASE \E c \in LiveOps : Call(c)
    BY <2>1, <2>3, <2>4 DEF Call
  <2>5. CASE NoReply \/ ReceiveFails \/ Abandon
    BY <2>1, <2>5 DEF NoReply, ReceiveFails, Abandon, Leave
  <2>6. CASE Parse \/ Interrupt \/ Resume
    BY <2>1, <2>3, <2>6 DEF Parse, Interrupt, Resume, PutBack, Leave
  <2>7. CASE Stop \/ UNCHANGED lvars
    BY <2>1, <2>7 DEF Stop, lvars, stream
  <2> QED
    BY <2>2, <2>4, <2>5, <2>6, <2>7 DEF LNext, ClientStep
<1> QED
  BY <1>1, <1>2

-----------------------------------------------------------------------------
(* Where a step leads, only what is said of that place matters.            *)

LEMMA AtPlain ==
    ASSUME pc' \in PlainPcs, skew' = FALSE, Settings', Fresh', PlainRequest' PROVE InStep'
BY DEF InStep, PlainPcs, AtRest, Registering, Listening, Unregistering, StartingEnrolment,
       Enrolling, Loop, EnrolPcs

LEMMA AtIdle ==
    ASSUME pc' = "idle", skew' = FALSE, Settings', Fresh', Silent', Unanswered' PROVE InStep'
BY DEF InStep, PlainPcs, AtRest, PlainRequest, Registering, Listening, Unregistering,
       StartingEnrolment, Enrolling, Loop, EnrolPcs

LEMMA AtRegister ==
    ASSUME pc' = "register", skew' = FALSE, Settings', Fresh', Registering' PROVE InStep'
BY DEF InStep, PlainPcs, AtRest, PlainRequest, Listening, Unregistering,
       StartingEnrolment, Enrolling, Loop, EnrolPcs

LEMMA AtLoop ==
    ASSUME pc' \in Loop, skew' = FALSE, Settings', Fresh', Listening' PROVE InStep'
BY DEF InStep, PlainPcs, AtRest, PlainRequest, Registering, Unregistering,
       StartingEnrolment, Enrolling, Loop, EnrolPcs

LEMMA AtUnregister ==
    ASSUME pc' = "unregister", skew' = FALSE, Settings', Fresh', Unregistering' PROVE InStep'
BY DEF InStep, PlainPcs, AtRest, PlainRequest, Registering, Listening,
       StartingEnrolment, Enrolling, Loop, EnrolPcs

LEMMA AtStart ==
    ASSUME pc' = "startEnrol", skew' = FALSE, Settings', Fresh', StartingEnrolment' PROVE InStep'
BY DEF InStep, PlainPcs, AtRest, PlainRequest, Registering, Listening, Unregistering,
       Enrolling, Loop, EnrolPcs

LEMMA AtEnrol ==
    ASSUME pc' \in EnrolPcs, skew' = FALSE, Settings', Fresh', Enrolling' PROVE InStep'
BY DEF InStep, PlainPcs, AtRest, PlainRequest, Registering, Listening, Unregistering,
       StartingEnrolment, Loop, EnrolPcs

\* A request that is made when nothing is under way.
LEMMA GoAsks ==
    ASSUME NEW p \in CommandPcs, Go(p), asked = <<>>, wire' = <<>>
    PROVE  pc' = p /\ (Unserved' \/ Unanswered')
<1>1. Append(<<>>, p) = <<p>>
  OBVIOUS
<1> QED
  BY <1>1 DEF Go, Unserved, Unanswered

\* A call begins.
LEMMA CallKeeps ==
    ASSUME LInv, NEW c \in LiveOps, Call(c), clean' = TRUE PROVE InStep'
<1>1. clean = TRUE /\ pc = "idle"
  BY DEF Call
<1>2. Silent /\ Unanswered /\ Settings /\ Fresh /\ skew = FALSE
  BY <1>1 DEF LInv, InStep, AtRest
<1>3. \E p \in {"users", "enrolCancel"} : Go(p)
  BY DEF Call
<1>4. pc' \in {"users", "enrolCancel"} /\ (Unserved' \/ Unanswered')
  BY <1>2, <1>3, GoAsks DEF Call, Unanswered, CommandPcs
<1>5. PlainRequest'
  BY <1>2, <1>4 DEF Call, PlainRequest, Silent
<1>6. Settings'
  BY <1>1, <1>2, <1>4 DEF Call, Settings, Loop, EnrolPcs
<1>7. Fresh'
  BY <1>4 DEF Call, Fresh
<1> QED
  BY <1>2, <1>4, <1>5, <1>6, <1>7, AtPlain DEF PlainPcs, Call

\* An answer is read where the terminal sends nothing else.
LEMMA PlainAnswer ==
    ASSUME LInv, ReadReply, clean' = TRUE, pc \in PlainPcs
    PROVE  /\ clean = TRUE /\ asked = <<>> /\ wire' = <<>> /\ skew' = FALSE
           /\ Silent /\ Silent' /\ Succeeded /\ Settings /\ Fresh
           /\ pc \in {"enable", "disable"} => Answered("ok")
<1>1. clean = TRUE
  BY DEF ReadReply, Succeeded, Failed, Leave, End, LInv, LType
<1>2. Silent /\ PlainRequest /\ Settings /\ Fresh
  BY <1>1 DEF LInv, InStep, PlainRequest
<1>3. Answered("ok") \/ Answered("refused")
  BY <1>2 DEF PlainRequest, ReadReply, Unserved, Unanswered
<1>4. PICK k \in {"ok", "refused"} : Answered(k)
  BY <1>3
<1>5. asked = <<>> /\ wire = <<Reply(k)>>
  BY <1>4 DEF Answered
<1>6. Head(wire) = Reply(k) /\ Tail(wire) = <<>>
  BY <1>5, Single
<1>7. Head(wire).k = k
  BY <1>6, AnswersTyped
<1>8. wire' = <<>>
  BY <1>6, <1>7 DEF ReadReply
<1>9. skew' = FALSE
  BY <1>7 DEF ReadReply
<1>10. Succeeded /\ (~Lenient => k = "ok")
  BY <1>7 DEF ReadReply, Failed, Leave
<1>11. pc \in {"enable", "disable"} => Answered("ok")
  BY <1>4, <1>10 DEF Lenient
<1>12. Silent'
  BY <1>2 DEF Silent, ReadReply, termVars
<1> QED
  BY <1>1, <1>2, <1>5, <1>8, <1>9, <1>10, <1>11, <1>12

\* The end of a call at a plain request.
LEMMA PlainEnds ==
    ASSUME LInv, ReadReply, clean' = TRUE, pc \in PlainPcs, pc' = "idle" PROVE InStep'
<1>1. /\ clean = TRUE /\ asked = <<>> /\ wire' = <<>> /\ skew' = FALSE
      /\ Silent /\ Silent' /\ Succeeded /\ Settings /\ Fresh
      /\ pc \in {"enable", "disable"} => Answered("ok")
  BY PlainAnswer
<1>2. asked' = <<>>
  BY <1>1 DEF Succeeded, End, Go, PlainPcs, CommandPcs
<1>3. pc \in {"users", "disable", "verifyAgain"} /\ (pc = "users" => op = "enroll")
  BY <1>1 DEF Succeeded, End, Go, Onward, PlainPcs, Place, LInv
<1>4. Fresh'
  BY <1>1 DEF Fresh, ReadReply, termVars
<1>5. Settings'
  <2>1. sockTimeout' = sockTimeout
    BY <1>1, <1>3 DEF Succeeded
  <2>2. sockTimeout' = "own"
    BY <2>1, <1>1, <1>3 DEF Settings, Loop, EnrolPcs
  <2>3. was_enabled' = was_enabled /\ enabled' = enabled /\ op' = op
    BY DEF ReadReply, termVars
  <2>4. CASE pc = "disable"
    <3>1. enabled = FALSE /\ was_enabled = FALSE
      BY <1>1, <1>3, <2>4 DEF LInv, InStep, PlainRequest, Settings
    <3>2. is_enabled' = FALSE
      BY <1>1, <2>4 DEF Succeeded
    <3> QED
      BY <2>2, <2>3, <3>1, <3>2 DEF Settings, Loop, EnrolPcs
  <2>5. CASE pc # "disable"
    <3>1. is_enabled = was_enabled /\ enabled = is_enabled
      BY <1>1, <1>3, <2>5 DEF Settings, LInv, Place
    <3>2. is_enabled' = is_enabled
      BY <1>1, <1>3, <2>5 DEF Succeeded, LInv, LType
    <3> QED
      BY <2>2, <2>3, <3>1, <3>2 DEF Settings, Loop, EnrolPcs
  <2> QED
    BY <2>4, <2>5
<1> QED
  BY <1>1, <1>2, <1>4, <1>5, AtIdle DEF Unanswered

\* A plain request is followed by another one.
LEMMA PlainGoesOn ==
    ASSUME LInv, ReadReply, clean' = TRUE, pc \in PlainPcs, pc' # "idle" PROVE InStep'
<1>1. /\ clean = TRUE /\ asked = <<>> /\ wire' = <<>> /\ skew' = FALSE
      /\ Silent /\ Silent' /\ Succeeded /\ Settings /\ Fresh
      /\ pc \in {"enable", "disable"} => Answered("ok")
  BY PlainAnswer
<1>2. Go(Onward) /\ Onward # "idle"
  BY <1>1 DEF Succeeded, End
<1>3. /\ pc = "users" => Onward = IF op = "capture" THEN "cancel" ELSE "enrolCancel"
      /\ pc = "cancel" => Onward = "verify"
      /\ pc = "verify" => Onward = IF is_enabled THEN "register" ELSE "enable"
      /\ pc = "enable" => Onward = "register"
      /\ pc = "enrolCancel" => Onward = "startEnrol"
      /\ pc = "cancelAgain" => Onward = "verifyAgain"
      /\ pc \in {"users", "cancel", "verify", "enable", "enrolCancel", "cancelAgain"}
  BY <1>2 DEF Onward, PlainPcs
<1>4. Onward \in CommandPcs
  BY <1>3 DEF CommandPcs
<1>5. pc' = Onward /\ (Unserved' \/ Unanswered')
  BY <1>1, <1>2, <1>4, GoAsks
<1>6. UNCHANGED <<enabled, was_enabled, op, yielded, data, left, attempts, done, enrolled,
                  registered, enrolment, up>>
  BY DEF ReadReply, termVars, parseVars
<1>7. sockTimeout' = "own"
  <2>1. sockTimeout' = sockTimeout
    BY <1>1, <1>3 DEF Succeeded
  <2> QED
    BY <2>1, <1>1, <1>3 DEF Settings, Loop, EnrolPcs
<1>8. Fresh'
  BY <1>1, <1>3, <1>5, <1>6 DEF Fresh
<1>9. CASE pc = "enable"
  <2>1. enabled = TRUE
    BY <1>1, <1>9 DEF LInv, InStep, PlainRequest
  <2>2. is_enabled' = TRUE
    BY <1>1, <1>9 DEF Succeeded
  <2>3. op = "capture"
    BY <1>9 DEF LInv, Place
  <2>4. Settings'
    BY <1>3, <1>5, <1>6, <1>7, <1>9, <2>1, <2>2, <2>3 DEF Settings, Loop, EnrolPcs
  <2>5. Registering'
    BY <1>1, <1>5 DEF Registering, Silent
  <2> QED
    BY <1>1, <1>3, <1>5, <1>8, <1>9, <2>4, <2>5, AtRegister
<1>10. CASE pc # "enable"
  <2>1. is_enabled' = is_enabled
    BY <1>1, <1>3, <1>10 DEF Succeeded, LInv, LType
  <2>2. enabled = is_enabled
    BY <1>1, <1>3, <1>10 DEF Settings
  <2>3. is_enabled = was_enabled
    BY <1>1, <1>3, <1>10 DEF Settings, LInv, Place
  <2>4. pc \in {"cancel", "verify"} => op = "capture"
    BY DEF LInv, Place
  <2>5. is_enabled = TRUE \/ is_enabled = FALSE
    BY DEF LInv, LType
  <2>6. Settings'
    BY <1>3, <1>5, <1>6, <1>7, <1>10, <2>1, <2>2, <2>3, <2>4, <2>5
       DEF Settings, Loop, EnrolPcs
  <2>7. CASE pc' = "register"
    <3>1. Registering'
      BY <1>1, <1>5 DEF Registering, Silent
    <3> QED
      BY <1>1, <1>8, <2>6, <2>7, <3>1, AtRegister
  <2>8. CASE pc' = "startEnrol"
    <3>1. StartingEnrolment'
      BY <1>1, <1>5 DEF StartingEnrolment, Silent
    <3> QED
      BY <1>1, <1>8, <2>6, <2>8, <3>1, AtStart
  <2>9. CASE pc' \in {"cancel", "enrolCancel", "verify", "enable", "verifyAgain"}
    <3>1. wire' # <<Reply("ok")>>
      BY <1>1, Single
    <3>2. PlainRequest'
      BY <1>1, <1>5, <3>1 DEF PlainRequest, Answered
    <3>3. pc' \in PlainPcs
      BY <2>9 DEF PlainPcs
    <3> QED
      BY <1>1, <1>8, <2>6, <3>2, <3>3, AtPlain
  <2> QED
    BY <1>3, <1>5, <1>10, <2>7, <2>8, <2>9
<1> QED
  BY <1>9, <1>10

\* The events registered, the capture listens.
LEMMA RegisterAnswered ==
    ASSUME LInv, ReadReply, clean' = TRUE, pc = "register" PROVE InStep'
<1>1. clean = TRUE
  BY DEF ReadReply, Succeeded, Failed, Leave, End, LInv, LType
<1>2. Registering /\ Settings /\ Fresh
  BY <1>1 DEF LInv, InStep
<1>3. wire # <<>> /\ wire \in Seq(Packets)
  BY DEF ReadReply, LInv, LType
<1>4. Head(wire) = wire[1] /\ ~Lenient
  BY <1>3, StreamTail DEF Lenient
<1>5. wire[1].k = "ok" /\ Succeeded
  BY <1>4 DEF ReadReply, Failed, Leave
<1>6. wire # <<Reply("refused")>>
  <2>1. Reply("refused").k = "refused"
    BY AnswersTyped
  <2> QED
    BY <2>1, <1>5, Single
<1>7. asked = <<>> /\ Upcoming(1, first) /\ enrolment = NoEnrolment
  BY <1>2, <1>3, <1>6 DEF Registering, Unserved, Unanswered, Answered
<1>8. Go("wait") /\ clean' = clean
  BY <1>5 DEF Succeeded, Onward, End
<1>9. pc' = "wait" /\ asked' = <<>>
  BY <1>7, <1>8 DEF Go, CommandPcs
<1>10. skew' = FALSE
  BY <1>4, <1>5 DEF ReadReply
<1>11. UNCHANGED <<enabled, was_enabled, op, yielded, data, left, done, enrolled, enrolment,
                   punched, first, up, size>>
  BY DEF ReadReply, termVars, parseVars
<1>12. Settings'
  <2>1. is_enabled' = is_enabled
    BY <1>5 DEF Succeeded, LInv, LType
  <2>2. op = "capture" /\ is_enabled = TRUE /\ enabled = is_enabled
    BY <1>2 DEF Settings, LInv, Place
  <2> QED
    BY <1>9, <1>11, <2>1, <2>2 DEF Settings, Loop
<1>13. Fresh'
  BY <1>2, <1>9, <1>11 DEF Fresh
<1>14. /\ yielded' = <<>> /\ data' = <<>> /\ left' = 0
  BY <1>2, <1>11 DEF Fresh
<1>15. Upcoming(0, first)'
  <2>1. wire' \in Seq(Packets) /\ Len(wire') = Len(wire) - 1
        /\ \A i \in 1..(Len(wire) - 1) : wire'[i] = wire[i + 1]
    BY <1>3, StreamTail DEF ReadReply
  <2>2. first \in Nat /\ Len(wire) \in Nat /\ Len(wire') \in Nat
    BY <1>3, <2>1, LenProperties DEF LInv, LType
  <2>3. ASSUME NEW i \in 1..Len(wire'), i > 0
        PROVE  wire'[i].k = "event" /\ wire'[i].id = first + i - 0
    <3>1. i + 1 \in 1..Len(wire) /\ i + 1 > 1 /\ wire'[i] = wire[i + 1]
      BY <2>1, <2>2
    <3>2. wire[i + 1].k = "event" /\ wire[i + 1].id = first + (i + 1) - 1
      BY <1>7, <3>1 DEF Upcoming
    <3> QED
      BY <2>2, <3>1, <3>2
  <2>4. punched = first + Len(wire) - 1
    BY <1>7 DEF Upcoming
  <2> QED
    BY <1>11, <2>1, <2>2, <2>3, <2>4 DEF Upcoming
<1>16. Parsed(0)'
  <2>1. Len(yielded') = 0 /\ Len(data') = 0
    BY <1>14, EmptySeq
  <2>2. Upcoming(0, first + Len(yielded) + Len(data) - 0)'
    <3>1. first' + Len(yielded') + Len(data') - 0 = first'
      BY <1>11, <2>1 DEF LInv, LType
    <3> QED
      BY <1>15, <3>1
  <2> QED
    BY <1>14, <2>1, <2>2 DEF Parsed
<1>17. Listening'
  <2>1. \E k \in 0..Len(data') : Parsed(k)'
    BY <1>16 DEF Parsed
  <2> QED
    BY <1>7, <1>9, <1>11, <1>14, <2>1 DEF Listening
<1> QED
  BY <1>9, <1>10, <1>12, <1>13, <1>17, AtLoop DEF Loop

\* The terminal silent again.
LEMMA UnregisterAnswered ==
    ASSUME LInv, ReadReply, clean' = TRUE, pc = "unregister" PROVE InStep'
<1>1. clean = TRUE
  BY DEF ReadReply, Succeeded, Failed, Leave, End, LInv, LType
<1>2. Unregistering /\ Settings /\ Fresh
  BY <1>1 DEF LInv, InStep
<1>3. wire # <<>> /\ wire \in Seq(Packets)
  BY DEF ReadReply, LInv, LType
<1>4. Head(wire) = wire[1] /\ ~Lenient
  BY <1>3, StreamTail DEF Lenient
<1>5. wire[1].k = "ok" /\ Succeeded
  BY <1>4 DEF ReadReply, Failed, Leave
<1>6. Answered("ok") /\ registered = FALSE /\ enrolment = NoEnrolment
  BY <1>2, <1>3, <1>5 DEF Unregistering, Unserved, Unanswered
<1>7. asked = <<>> /\ wire' = <<>>
  BY <1>6, Single DEF Answered, ReadReply
<1>8. skew' = FALSE
  BY <1>4, <1>5 DEF ReadReply
<1>9. UNCHANGED <<enabled, was_enabled, op, done, enrolled, enrolment, registered, attempts>>
  BY DEF ReadReply, termVars
<1>10. Silent'
  BY <1>6, <1>9 DEF Silent
<1>11. sockTimeout' = "own" /\ is_enabled' = is_enabled
  BY <1>2, <1>5 DEF Settings, Loop, EnrolPcs, Succeeded, LInv, LType
<1>12. op \in {"capture", "enroll"}
  BY DEF LInv, LType, Place
<1>13. /\ enabled = is_enabled
       /\ op = "capture" => is_enabled = TRUE
       /\ op = "enroll" => is_enabled = was_enabled
  BY <1>2 DEF Settings, Loop
<1>14. CASE op = "enroll"
  <2>1. Go("cancelAgain")
    BY <1>5, <1>14 DEF Succeeded, Onward
  <2>2. pc' = "cancelAgain" /\ (Unserved' \/ Unanswered')
    BY <1>7, <2>1, GoAsks DEF CommandPcs
  <2>3. PlainRequest'
    BY <1>10, <2>2 DEF PlainRequest
  <2>4. Settings'
    BY <1>9, <1>11, <1>13, <1>14, <2>2 DEF Settings, Loop, EnrolPcs
  <2>5. Fresh'
    BY <1>2, <1>9, <2>2 DEF Fresh
  <2> QED
    BY <1>8, <2>2, <2>3, <2>4, <2>5, AtPlain DEF PlainPcs
<1>15. CASE op = "capture" /\ was_enabled = TRUE
  <2>1. pc' = "idle" /\ asked' = asked
    BY <1>5, <1>15 DEF Succeeded, Onward, End
  <2>2. Settings'
    BY <1>9, <1>11, <1>13, <1>15, <2>1 DEF Settings, Loop, EnrolPcs
  <2>3. Fresh'
    BY <1>2, <1>9, <2>1 DEF Fresh
  <2> QED
    BY <1>7, <1>8, <1>10, <2>1, <2>2, <2>3, AtIdle DEF Unanswered
<1>16. CASE op = "capture" /\ was_enabled = FALSE
  <2>1. Go("disable")
    BY <1>5, <1>16 DEF Succeeded, Onward
  <2>2. pc' = "disable" /\ (Unserved' \/ Unanswered')
    BY <1>7, <2>1, GoAsks DEF CommandPcs
  <2>3. wire' # <<Reply("ok")>>
    BY <1>7, Single
  <2>4. PlainRequest'
    BY <1>10, <2>2, <2>3 DEF PlainRequest, Answered
  <2>5. Settings'
    BY <1>9, <1>11, <1>13, <1>16, <2>2 DEF Settings, Loop, EnrolPcs
  <2>6. Fresh'
    BY <1>2, <1>9, <2>2 DEF Fresh
  <2> QED
    BY <1>8, <2>2, <2>4, <2>5, <2>6, AtPlain DEF PlainPcs
<1> QED
  BY <1>12, <1>14, <1>15, <1>16 DEF LInv, LType

\* The enrolment begun, its first event is awaited.
LEMMA StartAnswered ==
    ASSUME LInv, ReadReply, clean' = TRUE, pc = "startEnrol" PROVE InStep'
<1>1. clean = TRUE
  BY DEF ReadReply, Succeeded, Failed, Leave, End, LInv, LType
<1>2. StartingEnrolment /\ Settings /\ Fresh
  BY <1>1 DEF LInv, InStep
<1>3. wire # <<>> /\ wire \in Seq(Packets)
  BY DEF ReadReply, LInv, LType
<1>4. Head(wire) = wire[1] /\ ~Lenient
  BY <1>3, StreamTail DEF Lenient
<1>5. wire[1].k = "ok" /\ Succeeded
  BY <1>4 DEF ReadReply, Failed, Leave
<1>6. wire # <<Reply("refused")>>
  <2>1. Reply("refused").k = "refused"
    BY AnswersTyped
  <2> QED
    BY <2>1, <1>5, Single
<1>7. asked = <<>> /\ Touched(1, 0) /\ registered = FALSE
  BY <1>2, <1>3, <1>6 DEF StartingEnrolment, Unserved, Unanswered, Answered
<1>8. Go("event1")
  BY <1>5 DEF Succeeded, Onward
<1>9. pc' = "event1" /\ asked' = <<>>
  BY <1>7, <1>8 DEF Go, CommandPcs
<1>10. skew' = FALSE
  BY <1>4, <1>5 DEF ReadReply
<1>11. UNCHANGED <<enabled, was_enabled, op, done, enrolled, enrolment, registered, attempts, up>>
  BY DEF ReadReply, termVars
<1>12. Settings'
  <2>1. is_enabled' = is_enabled
    BY <1>5 DEF Succeeded, LInv, LType
  <2>2. op = "enroll" /\ is_enabled = was_enabled /\ enabled = is_enabled
    BY <1>2 DEF Settings, LInv, Place
  <2> QED
    BY <1>9, <1>11, <2>1, <2>2 DEF Settings, Loop, EnrolPcs
<1>13. Fresh'
  BY <1>2, <1>9, <1>11 DEF Fresh
<1>14. attempts = 3
  BY <1>2 DEF Fresh
<1>15. Touched(0, 0)'
  <2>1. wire' \in Seq(Packets) /\ Len(wire') = Len(wire) - 1
        /\ \A i \in 1..(Len(wire) - 1) : wire'[i] = wire[i + 1]
    BY <1>3, StreamTail DEF ReadReply
  <2>2. Len(wire) \in Nat /\ Len(wire') \in Nat /\ Len(wire) >= 1
    BY <1>3, <2>1, LenProperties
  <2>3. ASSUME NEW i \in 1..Len(wire'), i > 0
        PROVE  /\ Stored(wire'[i].res) => enrolled' = TRUE
               /\ wire'[i].res \in Last => i = Len(wire') /\ enrolment' = NoEnrolment
               /\ wire'[i].res = "ok" => 0 + i - 0 \in {2, 4, 6}
    <3>1. i + 1 \in 1..Len(wire) /\ i + 1 > 1 /\ wire'[i] = wire[i + 1]
      BY <2>1, <2>2
    <3>2. /\ Stored(wire[i + 1].res) => enrolled = TRUE
          /\ wire[i + 1].res \in Last => i + 1 = Len(wire) /\ enrolment = NoEnrolment
          /\ wire[i + 1].res = "ok" => 0 + (i + 1) - 1 \in {2, 4, 6}
      BY <1>7, <3>1 DEF Touched
    <3> QED
      BY <1>11, <2>1, <2>2, <3>1, <3>2
  <2>4. \/ enrolment' = 0 + Len(wire') - 0 /\ enrolment' # NoEnrolment
        \/ /\ enrolment' = NoEnrolment /\ 0 + Len(wire') - 0 <= 7
           /\ wire' # <<>> => wire'[Len(wire')].res \in Last
    <3>1. wire' # <<>> => wire'[Len(wire')] = wire[Len(wire)]
      BY <2>1, <2>2, EmptySeq
    <3> QED
      BY <1>3, <1>7, <1>11, <2>1, <2>2, <3>1 DEF Touched
  <2>5. 2 * (3 - attempts') <= 0
    BY <1>11, <1>14
  <2>6. 0 <= Len(wire') /\ 0 \in 0..6
    BY <2>2
  <2> QED
    BY <2>3, <2>4, <2>5, <2>6 DEF Touched
<1>16. Enrolling'
  BY <1>7, <1>9, <1>11, <1>14, <1>15 DEF Enrolling
<1> QED
  BY <1>9, <1>10, <1>12, <1>13, <1>16, AtEnrol DEF EnrolPcs

LEMMA ReadReplyKeeps ==
    ASSUME LInv, ReadReply, clean' = TRUE PROVE InStep'
<1>1. pc \in PlainPcs \cup {"register", "unregister", "startEnrol"}
  BY DEF ReadReply, CommandPcs, PlainPcs
<1> QED
  BY <1>1, PlainEnds, PlainGoesOn, RegisterAnswered, UnregisterAnswered, StartAnswered

-----------------------------------------------------------------------------
(* The terminal's steps.                                                   *)

\* The one request under way is served, or fails.
LEMMA ServedOne ==
    ASSUME LType, Serve, asked = <<pc>>
    PROVE  /\ asked' = <<>>
           /\ \/ /\ wire' = Append(wire, Reply("ok"))
                 /\ registered' = (pc = "register" \/ (registered /\ pc # "unregister"))
                 /\ enabled' = (pc = "enable" \/ (enabled /\ pc # "disable"))
                 /\ pc \notin {"startEnrol", "cancel", "enrolCancel", "cancelAgain"}
                      => enrolment' = enrolment
                 /\ pc = "startEnrol" => enrolment' = 0
                 /\ pc \in {"cancel", "enrolCancel", "cancelAgain"} => enrolment' = NoEnrolment
                 /\ first' = IF pc = "register" THEN punched ELSE first
              \/ /\ wire' = wire \/ wire' = Append(wire, Reply("refused"))
                 /\ UNCHANGED <<registered, enabled, enrolment, first>>
<1>1. Head(asked) = pc /\ Tail(asked) = <<>>
  BY Single
<1> QED
  BY <1>1 DEF Serve

LEMMA OneAnswer ==
    ASSUME wire = <<>>, NEW k, wire' = Append(wire, Reply(k)), asked' = <<>>
    PROVE  Answered(k)'
<1>1. Append(<<>>, Reply(k)) = <<Reply(k)>>
  OBVIOUS
<1> QED
  BY <1>1 DEF Answered, Reply

LEMMA ServePlain ==
    ASSUME LInv, Serve, clean = TRUE, pc \in PlainPcs PROVE InStep'
<1>1. PlainRequest /\ Settings /\ Fresh /\ skew = FALSE
  BY DEF LInv, InStep
<1>2. asked = <<pc>> /\ wire = <<>> /\ Silent
  BY <1>1 DEF PlainRequest, Unserved, Unanswered, Answered, Serve
<1>3. LType
  BY DEF LInv
<1>4. UNCHANGED <<pc, op, skew, sockTimeout, is_enabled, was_enabled, yielded, data, left, attempts,
                  done, enrolled>>
  BY DEF Serve, parseVars
<1>5. asked' = <<>>
  BY <1>2, <1>3, ServedOne
<1>6. Fresh'
  BY <1>1, <1>4 DEF Fresh
<1>7. CASE UNCHANGED <<registered, enabled, enrolment, first>> /\ wire' = wire
  <2>1. Unanswered' /\ wire' # <<Reply("ok")>>
    BY <1>2, <1>5, <1>7, Single DEF Unanswered
  <2>2. PlainRequest'
    BY <1>2, <1>4, <1>7, <2>1 DEF PlainRequest, Silent, Answered
  <2>3. Settings'
    BY <1>1, <1>4, <1>7 DEF Settings
  <2> QED
    BY <1>1, <1>4, <1>6, <2>2, <2>3, AtPlain
<1>8. CASE UNCHANGED <<registered, enabled, enrolment, first>>
           /\ wire' = Append(wire, Reply("refused"))
  <2>1. Answered("refused")'
    BY <1>2, <1>5, <1>8, OneAnswer
  <2>2. ~Answered("ok")'
    <3>1. Reply("ok") # Reply("refused")
      BY DEF Reply
    <3> QED
      BY <2>1, <3>1, Single DEF Answered, Reply
  <2>3. PlainRequest'
    BY <1>2, <1>4, <1>8, <2>1, <2>2 DEF PlainRequest, Silent
  <2>4. Settings'
    BY <1>1, <1>4, <1>8 DEF Settings
  <2> QED
    BY <1>1, <1>4, <1>6, <2>3, <2>4, AtPlain
<1>9. CASE /\ wire' = Append(wire, Reply("ok"))
           /\ registered' = (pc = "register" \/ (registered /\ pc # "unregister"))
           /\ enabled' = (pc = "enable" \/ (enabled /\ pc # "disable"))
           /\ pc \notin {"startEnrol", "cancel", "enrolCancel", "cancelAgain"}
                => enrolment' = enrolment
           /\ pc \in {"cancel", "enrolCancel", "cancelAgain"} => enrolment' = NoEnrolment
  <2>1. Answered("ok")'
    BY <1>2, <1>5, <1>9, OneAnswer
  <2>2. Silent'
    BY <1>2, <1>9 DEF Silent, PlainPcs
  <2>3. /\ pc = "enable" => enabled' = TRUE
        /\ pc = "disable" => enabled' = FALSE
        /\ pc \notin {"enable", "disable"} => enabled' = enabled
    BY <1>3, <1>9 DEF LType
  <2>4. PlainRequest'
    BY <1>4, <2>1, <2>2, <2>3 DEF PlainRequest
  <2>5. Settings'
    BY <1>1, <1>4, <2>3 DEF Settings, Loop, EnrolPcs
  <2> QED
    BY <1>1, <1>4, <1>6, <2>4, <2>5, AtPlain
<1> QED
  BY <1>2, <1>3, <1>7, <1>8, <1>9, ServedOne

\* Requests after which the terminal speaks of its own accord, or no longer.
LEMMA ServeListening ==
    ASSUME LInv, Serve, clean = TRUE, pc \in {"register", "startEnrol"} PROVE InStep'
<1>1. Registering /\ StartingEnrolment /\ Settings /\ Fresh /\ skew = FALSE
  BY DEF LInv, InStep
<1>2. asked # <<>>
  BY DEF Serve
<1>3. asked = <<pc>> /\ wire = <<>> /\ registered = FALSE /\ enrolment = NoEnrolment
  BY <1>1, <1>2 DEF Registering, StartingEnrolment, Unserved, Unanswered, Answered
<1>4. LType
  BY DEF LInv
<1>5. UNCHANGED <<pc, op, up, skew, sockTimeout, is_enabled, was_enabled, yielded, data, left,
                  attempts, done, enrolled, punched>>
  BY DEF Serve, parseVars
<1>6. asked' = <<>>
  BY <1>3, <1>4, ServedOne
<1>7. Fresh'
  BY <1>1, <1>5 DEF Fresh
<1>8. enabled' = enabled
  BY <1>3, <1>4, ServedOne DEF LType
<1>9. Settings'
  BY <1>1, <1>5, <1>8 DEF Settings
<1>10. CASE UNCHANGED <<registered, enabled, enrolment, first>> /\ wire' = wire
  <2>1. Unanswered'
    BY <1>3, <1>6, <1>10 DEF Unanswered
  <2>2. Registering' /\ StartingEnrolment'
    BY <1>3, <1>10, <2>1 DEF Registering, StartingEnrolment
  <2> QED
    BY <1>1, <1>5, <1>7, <1>9, <2>2, AtRegister, AtStart
<1>11. CASE UNCHANGED <<registered, enabled, enrolment, first>>
            /\ wire' = Append(wire, Reply("refused"))
  <2>1. Answered("refused")'
    BY <1>3, <1>6, <1>11, OneAnswer
  <2>2. Registering' /\ StartingEnrolment'
    BY <1>3, <1>11, <2>1 DEF Registering, StartingEnrolment
  <2> QED
    BY <1>1, <1>5, <1>7, <1>9, <2>2, AtRegister, AtStart
<1>12. CASE wire' = Append(wire, Reply("ok")) /\ first' = (IF pc = "register" THEN punched ELSE first)
            /\ (pc = "startEnrol" => enrolment' = 0)
            /\ (pc = "register" => enrolment' = enrolment)
            /\ registered' = (pc = "register" \/ (registered /\ pc # "unregister"))
  <2>1. wire' = <<Reply("ok")>>
    BY <1>3, <1>6, <1>12, OneAnswer DEF Answered, Reply
  <2>2. Len(wire') = 1 /\ wire'[1].k = "ok" /\ wire' # <<>>
    BY <2>1, Single, AnswersTyped
  <2>3. CASE pc = "register"
    <3>1. first' + Len(wire') - 1 = punched'
      BY <1>4, <1>5, <1>12, <2>2, <2>3 DEF LType
    <3>2. Upcoming(1, first)'
      BY <2>2, <3>1 DEF Upcoming
    <3>3. Registering'
      BY <1>3, <1>5, <1>6, <1>12, <2>2, <2>3, <3>2 DEF Registering
    <3> QED
      BY <1>1, <1>5, <1>7, <1>9, <2>3, <3>3, AtRegister
  <2>4. CASE pc = "startEnrol"
    <3>1. attempts' = 3
      BY <1>1, <1>5, <2>4 DEF Fresh
    <3>2. enrolment' = 0 /\ enrolment' # NoEnrolment
      BY <1>12, <2>4 DEF NoEnrolment
    <3>3. Touched(1, 0)'
      BY <2>2, <3>1, <3>2 DEF Touched
    <3>4. registered' = FALSE
      BY <1>3, <1>12, <2>4
    <3>5. StartingEnrolment'
      BY <1>6, <2>2, <3>3, <3>4 DEF StartingEnrolment
    <3> QED
      BY <1>1, <1>5, <1>7, <1>9, <2>4, <3>5, AtStart
  <2> QED
    BY <2>3, <2>4
<1> QED
  BY <1>3, <1>4, <1>10, <1>11, <1>12, ServedOne

LEMMA ServeUnregister ==
    ASSUME LInv, Serve, clean = TRUE, pc = "unregister" PROVE InStep'
<1>1. Unregistering /\ Settings /\ Fresh /\ skew = FALSE
  BY DEF LInv, InStep
<1>2. asked # <<>>
  BY DEF Serve
<1>3. asked = <<pc>> /\ enrolment = NoEnrolment
  BY <1>1, <1>2 DEF Unregistering
<1>4. LType
  BY DEF LInv
<1>5. UNCHANGED <<pc, op, up, skew, sockTimeout, is_enabled, was_enabled, yielded, data, left,
                  attempts, done, enrolled, punched>>
  BY DEF Serve, parseVars
<1>6. asked' = <<>> /\ enrolment' = enrolment
  BY <1>3, <1>4, ServedOne
<1>7. Fresh'
  BY <1>1, <1>5 DEF Fresh
<1>8. enabled' = enabled
  BY <1>3, <1>4, ServedOne DEF LType
<1>9. Settings'
  BY <1>1, <1>5, <1>8 DEF Settings
<1>10. CASE wire # <<>>
  <2>1. wire[1].k # "ok"
    BY <1>1, <1>2, <1>10 DEF Unregistering, Unserved, Unanswered, Answered
  <2>2. wire' = wire \/ wire' = Append(wire, Reply("ok")) \/ wire' = Append(wire, Reply("refused"))
    BY <1>3, <1>4, ServedOne
  <2>3. wire' # <<>> /\ wire'[1] = wire[1]
    <3>1. Len(wire) >= 1 /\ 1 \in 1..Len(wire)
      BY <1>4, <1>10, StreamTail, LenProperties DEF LType
    <3>2. Reply("ok") \in Packets /\ Reply("refused") \in Packets
      BY AnswersTyped
    <3>3. ASSUME NEW x \in Packets
          PROVE  Append(wire, x) # <<>> /\ Append(wire, x)[1] = wire[1]
      BY <1>4, <3>1, StreamGrows DEF LType
    <3> QED
      BY <1>10, <2>2, <3>2, <3>3
  <2>4. Unregistering'
    BY <1>3, <1>6, <2>1, <2>3 DEF Unregistering
  <2> QED
    BY <1>1, <1>5, <1>7, <1>9, <2>4, AtUnregister
<1>11. CASE wire = <<>>
  <2>1. CASE wire' = wire
    <3>1. Unanswered'
      BY <1>6, <1>11, <2>1 DEF Unanswered
    <3>2. Unregistering'
      BY <1>3, <1>6, <3>1 DEF Unregistering
    <3> QED
      BY <1>1, <1>5, <1>7, <1>9, <3>2, AtUnregister
  <2>2. CASE wire' = Append(wire, Reply("refused"))
    <3>1. Answered("refused")'
      BY <1>6, <1>11, <2>2, OneAnswer
    <3>2. wire' # <<>> /\ wire'[1].k # "ok"
      BY <3>1, Single, AnswersTyped DEF Answered, Reply
    <3>3. Unregistering'
      BY <1>3, <1>6, <3>2 DEF Unregistering
    <3> QED
      BY <1>1, <1>5, <1>7, <1>9, <3>3, AtUnregister
  <2>3. CASE wire' = Append(wire, Reply("ok")) /\ registered' = (pc = "register" \/ (registered /\ pc # "unregister"))
    <3>1. Answered("ok")'
      BY <1>6, <1>11, <2>3, OneAnswer
    <3>2. registered' = FALSE
      BY <2>3
    <3>3. Unregistering'
      BY <1>3, <1>6, <3>1, <3>2 DEF Unregistering
    <3> QED
      BY <1>1, <1>5, <1>7, <1>9, <3>3, AtUnregister
  <2> QED
    BY <1>3, <1>4, <2>1, <2>2, <2>3, ServedOne
<1> QED
  BY <1>10, <1>11

LEMMA ServeKeeps ==
    ASSUME LInv, Serve, clean' = TRUE PROVE InStep'
<1>1. clean = TRUE /\ asked # <<>>
  BY DEF Serve
<1>2. AtRest /\ Listening /\ Enrolling
  BY <1>1 DEF LInv, InStep
<1>3. pc # "idle" /\ pc \notin Loop /\ pc \notin EnrolPcs
  BY <1>1, <1>2 DEF AtRest, Listening, Enrolling, Unanswered
<1>4. pc \in PlainPcs \cup {"register", "unregister", "startEnrol"}
  BY <1>3 DEF LInv, LType, Pcs, CommandPcs, PlainPcs
<1> QED
  BY <1>1, <1>4, ServePlain, ServeListening, ServeUnregister

\* A punch is the next of the events sent.
LEMMA UpcomingGrows ==
    ASSUME LType, Punch, NEW h \in 0..1, NEW from \in Nat, Upcoming(h, from)
    PROVE  /\ h <= Len(wire')
           /\ \A i \in 1..Len(wire') :
                i > h => wire'[i].k = "event" /\ wire'[i].id = from + i - h
           /\ punched' = from + Len(wire') - h
<1> DEFINE e == Event(punched', "other")
<1>1. punched' = punched + 1 /\ punched' \in Nat /\ wire' = Append(wire, e)
  BY DEF Punch, LType
<1>2. e \in Packets /\ e.k = "event" /\ e.id = punched'
  BY <1>1, EventsTyped DEF Outcomes
<1>3. Len(wire) \in Nat
  BY LenProperties DEF LType
<1> HIDE DEF e
<1>4. /\ Len(wire') = Len(wire) + 1
      /\ \A i \in 1..Len(wire) : wire'[i] = wire[i]
      /\ wire'[Len(wire) + 1] = e
  BY <1>1, <1>2, StreamGrows DEF LType
<1>5. h <= Len(wire) /\ punched = from + Len(wire) - h
  BY DEF Upcoming
<1>6. ASSUME NEW i \in 1..Len(wire'), i > h
      PROVE  wire'[i].k = "event" /\ wire'[i].id = from + i - h
  <2>1. CASE i \in 1..Len(wire)
    BY <1>4, <1>6, <2>1 DEF Upcoming
  <2>2. CASE i = Len(wire) + 1
    BY <1>1, <1>2, <1>3, <1>4, <1>5, <2>2
  <2> QED
    BY <1>3, <1>4, <2>1, <2>2
<1> QED
  BY <1>1, <1>3, <1>4, <1>5, <1>6

LEMMA PunchKeeps ==
    ASSUME LInv, Punch, clean' = TRUE PROVE InStep'
<1>1. clean = TRUE /\ registered = TRUE /\ up = TRUE
  BY DEF Punch, LInv, LType
<1>2. /\ Settings /\ Fresh /\ AtRest /\ PlainRequest /\ Enrolling /\ StartingEnrolment
      /\ Registering /\ Listening /\ Unregistering /\ skew = FALSE
  BY <1>1 DEF LInv, InStep
<1>3. LType
  BY DEF LInv
<1>4. UNCHANGED <<size, registered, enabled, enrolment, enrolled, up, asked, skew, pc, is_enabled,
                  sockTimeout, data, pos, left, yielded, op, was_enabled, attempts, done, first>>
  BY DEF Punch, parseVars, callVars
<1>5. Settings' /\ Fresh'
  BY <1>2, <1>4 DEF Settings, Fresh
<1>6. pc \notin PlainPcs \cup EnrolPcs \cup {"idle", "startEnrol"}
  BY <1>1, <1>2 DEF AtRest, PlainRequest, Enrolling, StartingEnrolment, Silent
<1>7. pc \in Loop \cup {"register", "unregister"}
  BY <1>3, <1>6 DEF LType, Pcs, CommandPcs, PlainPcs
<1>8. wire \in Seq(Packets) /\ Len(wire) \in Nat /\ wire' # <<>>
  <2>1. wire \in Seq(Packets) /\ Len(wire) \in Nat
    BY <1>3, LenProperties DEF LType
  <2>2. Event(punched', "other") \in Packets
    <3>1. punched' \in Nat
      BY <1>3 DEF Punch, LType
    <3> QED
      BY <3>1, EventsTyped DEF Outcomes
  <2> QED
    BY <2>1, <2>2, StreamGrows DEF Punch
<1>9. CASE pc = "register"
  <2>1. asked = <<>> /\ wire # <<>> /\ wire[1].k = "ok" /\ Upcoming(1, first)
    BY <1>1, <1>2, <1>9 DEF Registering
  <2>2. Upcoming(1, first)'
    <3>1. first \in Nat /\ 1 \in 0..1
      BY <1>3 DEF LType
    <3> QED
      BY <1>3, <1>4, <2>1, <3>1, UpcomingGrows DEF Upcoming
  <2>3. wire'[1].k = "ok"
    <3>1. 1 \in 1..Len(wire)
      BY <1>8, <2>1 DEF Upcoming
    <3>2. \E x \in Packets : wire' = Append(wire, x)
      <4>1. punched' \in Nat
        BY <1>3 DEF Punch, LType
      <4> QED
        BY <4>1, EventsTyped DEF Punch, Outcomes
    <3> QED
      BY <1>8, <2>1, <3>1, <3>2, StreamGrows
  <2>4. Registering'
    BY <1>2, <1>4, <1>8, <1>9, <2>1, <2>2, <2>3 DEF Registering
  <2> QED
    BY <1>2, <1>4, <1>5, <1>9, <2>4, AtRegister
<1>10. CASE pc \in Loop
  <2>1. PICK k \in 0..Len(data) : Parsed(k)
    BY <1>1, <1>2, <1>10 DEF Listening
  <2>2. PICK from \in Nat : from = first + Len(yielded) + Len(data) - k
    <3>1. first \in Nat /\ Len(yielded) \in Nat /\ Len(data) \in Nat
      BY <1>3, LenProperties DEF LType
    <3> QED
      BY <3>1
  <2>3. Upcoming(0, from)
    BY <2>1, <2>2 DEF Parsed
  <2>4. first' + Len(yielded') + Len(data') - k = from
    BY <1>4, <2>2
  <2>5. Upcoming(0, from)'
    BY <1>3, <2>2, <2>3, UpcomingGrows DEF Upcoming
  <2>6. Parsed(k)'
    BY <1>4, <2>1, <2>4, <2>5 DEF Parsed
  <2>7. Listening'
    BY <1>2, <1>4, <1>10, <2>6 DEF Listening
  <2> QED
    BY <1>2, <1>4, <1>5, <1>10, <2>7, AtLoop
<1>11. CASE pc = "unregister"
  <2>1. wire'[1].k # "ok"
    <3>1. PICK x \in Packets : wire' = Append(wire, x) /\ x.k = "event"
      <4>1. punched' \in Nat
        BY <1>3 DEF Punch, LType
      <4> QED
        BY <4>1, EventsTyped DEF Punch, Outcomes
    <3>2. CASE wire = <<>>
      BY <1>8, <3>1, <3>2, StreamGrows, EmptySeq
    <3>3. CASE wire # <<>>
      <4>1. wire[1].k # "ok" /\ 1 \in 1..Len(wire)
        BY <1>1, <1>2, <1>8, <1>11, <3>3, StreamTail
           DEF Unregistering, Unserved, Unanswered, Answered
      <4> QED
        BY <1>8, <3>1, <4>1, StreamGrows
    <3> QED
      BY <3>2, <3>3
  <2>2. Unregistering'
    BY <1>2, <1>4, <1>8, <1>11, <2>1 DEF Unregistering
  <2> QED
    BY <1>2, <1>4, <1>5, <1>11, <2>2, AtUnregister
<1> QED
  BY <1>7, <1>9, <1>10, <1>11

\* An event of the enrolment is the next of its touches, or the last.
LEMMA TouchedGrows ==
    ASSUME LType, EnrolEvent, NEW h \in 0..1, NEW e \in 0..6, Touched(h, e)
    PROVE  Touched(h, e)'
<1>1. PICK res \in Outcomes :
        /\ res = "other" => enrolment \in {0, 2, 4}
        /\ res = "ok" => enrolment \in {1, 3, 5}
        /\ res \in {"zero", "duplicate"} => enrolment = 6
        /\ wire' = Append(wire, Event(0, res))
        /\ enrolment' = IF res \in {"fail", "zero", "duplicate"} THEN NoEnrolment ELSE enrolment + 1
        /\ enrolled' = (enrolled \/ res = "zero")
  BY DEF EnrolEvent, Outcomes
<1>2. Event(0, res) \in Packets /\ Event(0, res).res = res
  BY EventsTyped
<1>3. Len(wire) \in Nat /\ h \in Nat /\ e \in Nat
  BY LenProperties DEF LType
<1>4. /\ Len(wire') = Len(wire) + 1 /\ wire' # <<>>
      /\ \A i \in 1..Len(wire) : wire'[i] = wire[i]
      /\ wire'[Len(wire) + 1] = Event(0, res)
  <2>1. wire \in Seq(Packets)
    BY DEF LType
  <2>2. PICK x \in Packets : x = Event(0, res)
    BY <1>2
  <2>3. /\ Len(Append(wire, x)) = Len(wire) + 1 /\ Append(wire, x) # <<>>
        /\ \A i \in 1..Len(wire) : Append(wire, x)[i] = wire[i]
        /\ Append(wire, x)[Len(wire) + 1] = x
    BY <2>1, StreamGrows
  <2> QED
    BY <1>1, <2>2, <2>3
<1>5. enrolment # NoEnrolment /\ enrolment \in 0..6
  BY DEF EnrolEvent, LType, NoEnrolment
<1>6. enrolment = e + Len(wire) - h /\ h <= Len(wire)
  BY <1>5 DEF Touched
<1>7. enrolled = TRUE => enrolled' = TRUE
  BY <1>1
<1>8. ASSUME NEW i \in 1..Len(wire'), i > h
      PROVE  /\ Stored(wire'[i].res) => enrolled' = TRUE
             /\ wire'[i].res \in Last => i = Len(wire') /\ enrolment' = NoEnrolment
             /\ wire'[i].res = "ok" => e + i - h \in {2, 4, 6}
  <2>1. CASE i \in 1..Len(wire)
    <3>1. wire'[i] = wire[i]
      BY <1>4, <2>1
    <3>2. /\ Stored(wire[i].res) => enrolled = TRUE
          /\ wire[i].res \notin Last
          /\ wire[i].res = "ok" => e + i - h \in {2, 4, 6}
      BY <1>5, <1>8, <2>1 DEF Touched
    <3> QED
      BY <1>7, <3>1, <3>2
  <2>2. CASE i = Len(wire) + 1
    <3>1. wire'[i].res = res
      BY <1>2, <1>4, <2>2
    <3>2. Stored(res) => enrolled' = TRUE
      BY <1>1 DEF Stored, Outcomes
    <3>3. res \in Last => i = Len(wire') /\ enrolment' = NoEnrolment
      BY <1>1, <1>4, <2>2 DEF Last
    <3>4. res = "ok" => e + i - h \in {2, 4, 6}
      BY <1>1, <1>3, <1>6, <2>2
    <3> QED
      BY <3>1, <3>2, <3>3, <3>4
  <2>3. i \in 1..Len(wire) \/ i = Len(wire) + 1
    BY <1>3, <1>4
  <2> QED
    BY <2>1, <2>2, <2>3
<1>9. \/ enrolment' = e + Len(wire') - h /\ enrolment' # NoEnrolment
      \/ /\ enrolment' = NoEnrolment /\ e + Len(wire') - h <= 7
         /\ wire' # <<>> => wire'[Len(wire')].res \in Last
  <2>1. CASE res \in Last
    BY <1>1, <1>2, <1>3, <1>4, <1>5, <1>6, <2>1 DEF Last
  <2>2. CASE res \notin Last
    <3>1. enrolment' = enrolment + 1 /\ enrolment \in 0..5
      BY <1>1, <1>5, <2>2 DEF Last, Outcomes
    <3> QED
      BY <1>3, <1>4, <1>6, <3>1 DEF NoEnrolment
  <2> QED
    BY <2>1, <2>2
<1>10. attempts' = attempts
  BY DEF EnrolEvent, callVars
<1>11. 2 * (3 - attempts') <= e
  BY <1>10 DEF Touched
<1>12. h <= Len(wire')
  BY <1>3, <1>4, <1>6
<1> QED
  BY <1>8, <1>9, <1>11, <1>12 DEF Touched

LEMMA EnrolEventKeeps ==
    ASSUME LInv, EnrolEvent, clean' = TRUE PROVE InStep'
<1>1. clean = TRUE /\ enrolment # NoEnrolment /\ up = TRUE
  BY DEF EnrolEvent, LInv, LType
<1>2. /\ Settings /\ Fresh /\ AtRest /\ PlainRequest /\ Enrolling /\ StartingEnrolment
      /\ Registering /\ Listening /\ Unregistering /\ skew = FALSE
  BY <1>1 DEF LInv, InStep
<1>3. LType
  BY DEF LInv
<1>4. UNCHANGED <<registered, enabled, up, asked, skew, pc, is_enabled, sockTimeout, data, left,
                  yielded, op, was_enabled, attempts, done>>
  BY DEF EnrolEvent, parseVars, callVars
<1>5. enrolled = TRUE => enrolled' = TRUE
  BY DEF EnrolEvent
<1>6. Settings' /\ Fresh'
  BY <1>2, <1>4, <1>5 DEF Settings, Fresh
<1>7. pc \notin PlainPcs \cup Loop \cup {"idle", "register", "unregister"}
  BY <1>1, <1>2 DEF AtRest, PlainRequest, Registering, Listening, Unregistering, Silent
<1>8. pc \in EnrolPcs \cup {"startEnrol"}
  BY <1>3, <1>7 DEF LType, Pcs, CommandPcs, PlainPcs
<1>9. CASE pc = "startEnrol"
  <2>1. /\ asked = <<>> /\ wire # <<>> /\ wire[1].k = "ok" /\ registered = FALSE
        /\ Touched(1, 0)
    BY <1>1, <1>2, <1>9 DEF StartingEnrolment
  <2>2. Touched(1, 0)'
    <3>1. 1 \in 0..1 /\ 0 \in 0..6
      OBVIOUS
    <3> QED
      BY <1>3, <2>1, <3>1, TouchedGrows
  <2>3. wire' # <<>> /\ wire'[1].k = "ok" /\ Len(wire') >= 1
    <3>1. PICK x \in Packets : wire' = Append(wire, x)
      BY EventsTyped DEF EnrolEvent, Outcomes
    <3>2. 1 \in 1..Len(wire)
      BY <1>3, <2>1, StreamTail, LenProperties DEF LType
    <3>3. wire' # <<>> /\ Len(wire') = Len(wire) + 1 /\ wire'[1] = wire[1]
      BY <1>3, <3>1, <3>2, StreamGrows DEF LType
    <3> QED
      BY <2>1, <3>2, <3>3
  <2>4. StartingEnrolment'
    BY <1>4, <1>9, <2>1, <2>2, <2>3 DEF StartingEnrolment
  <2> QED
    BY <1>2, <1>4, <1>6, <1>9, <2>4, AtStart
<1>10. CASE pc \in EnrolPcs
  <2>1. PICK e \in 0..6 : Touched(0, e)
    BY <1>1, <1>2, <1>10 DEF Enrolling
  <2>2. Touched(0, e)'
    <3>1. 0 \in 0..1
      OBVIOUS
    <3> QED
      BY <1>3, <2>1, <3>1, TouchedGrows
  <2>3. Enrolling'
    BY <1>2, <1>4, <1>10, <2>2 DEF Enrolling
  <2> QED
    BY <1>2, <1>4, <1>6, <1>10, <2>3, AtEnrol
<1> QED
  BY <1>8, <1>9, <1>10

\* A connection that breaks takes with it what was under way.
LEMMA BreakKeeps ==
    ASSUME LInv, Break, clean' = TRUE PROVE InStep'
<1>1. clean = TRUE
  BY DEF Break
<1>2. /\ Settings /\ Fresh /\ AtRest /\ PlainRequest /\ Enrolling /\ StartingEnrolment
      /\ Registering /\ Listening /\ Unregistering /\ skew = FALSE
  BY <1>1 DEF LInv, InStep
<1>3. up' = FALSE /\ asked' = <<>> /\ wire' = <<>>
  BY DEF Break
<1>4. UNCHANGED <<registered, enabled, enrolment, enrolled, skew, pc, is_enabled, sockTimeout,
                  data, left, yielded, op, was_enabled, attempts, done>>
  BY DEF Break, termVars, parseVars, callVars
<1>5. Settings' /\ Fresh'
  BY <1>2, <1>4 DEF Settings, Fresh
<1>6. Unanswered' /\ ~Answered("ok")'
  BY <1>3, Single DEF Unanswered, Answered
<1>7. AtRest' /\ PlainRequest'
  BY <1>2, <1>4, <1>6 DEF AtRest, PlainRequest, Silent
<1>8. Registering' /\ StartingEnrolment' /\ Unregistering'
  <2>1. Registering'
    <3>1. pc = "register" => enrolment = NoEnrolment
      BY <1>2 DEF Registering
    <3> QED
      BY <1>3, <1>4, <1>6, <3>1 DEF Registering
  <2>2. StartingEnrolment'
    <3>1. pc = "startEnrol" => registered = FALSE
      BY <1>2 DEF StartingEnrolment
    <3> QED
      BY <1>3, <1>4, <1>6, <3>1 DEF StartingEnrolment
  <2>3. Unregistering'
    <3>1. pc = "unregister" => enrolment = NoEnrolment
      BY <1>2 DEF Unregistering
    <3> QED
      BY <1>3, <1>4, <1>6, <3>1 DEF Unregistering
  <2> QED
    BY <2>1, <2>2, <2>3
<1>9. Listening' /\ Enrolling'
  BY <1>2, <1>3, <1>4 DEF Listening, Enrolling
<1> QED
  BY <1>2, <1>4, <1>5, <1>7, <1>8, <1>9 DEF InStep

-----------------------------------------------------------------------------
(* The capture loop.                                                       *)

\* In a receive of events, payloads start at equal distances.
LEMMA StartOfEvents ==
    ASSUME LType, NEW b, NEW i \in Nat, i >= 1,
           \A j \in 1..(i - 1) : b[j].k = "event"
    PROVE  StartOf(b, i) = 16 * (i - 1) + size * (i - 1)
<1>1. {j \in 1..(i - 1) : b[j].k = "event"} = 1..(i - 1)
  OBVIOUS
<1>2. Cardinality(1..(i - 1)) = i - 1
  BY FS_Interval
<1> QED
  BY <1>1, <1>2 DEF StartOf

\* The places of payloads for each size.
LEMMA Distances ==
    ASSUME LType, NEW m \in Nat
    PROVE  /\ 16 * m + size * m \in Nat
           /\ size = 12 => 16 * m + size * m = 28 * m
           /\ size = 32 => 16 * m + size * m = 48 * m
           /\ size = 36 => 16 * m + size * m = 52 * m
           /\ size = 52 => 16 * m + size * m = 68 * m
           /\ size = 12 => (16 + size) * m = 28 * m
           /\ size = 32 => (16 + size) * m = 48 * m
           /\ size = 36 => (16 + size) * m = 52 * m
           /\ size = 52 => (16 + size) * m = 68 * m
<1>1. size \in {12, 32, 36, 52}
  BY DEF LType
<1>2. CASE size = 12
  BY <1>2
<1>3. CASE size = 32
  BY <1>3
<1>4. CASE size = 36
  BY <1>4
<1>5. CASE size = 52
  BY <1>5
<1> QED
  BY <1>1, <1>2, <1>3, <1>4, <1>5

\* The parser has room for another record, or it is through.
LEMMA Room ==
    ASSUME LType, NEW k, Parsed(k), left > 0
    PROVE  /\ left >= 12 /\ k \in Nat /\ k < Len(data) /\ Len(data) \in Nat /\ pos = 52 * k
           /\ \/ size = 12 /\ k = 0 /\ left = 28 * Len(data) - 16
              \/ size = 32 /\ k \in {0, 1} /\ left = 48 * Len(data) - 16 - 52 * k
              \/ size = 36 /\ left = 52 * Len(data) - 16 - 52 * k
              \/ size = 52 /\ k \in {0, 1} /\ left = 68 * Len(data) - 16 - 52 * k
<1>1. Len(data) \in Nat
  BY LenProperties DEF LType
<1>2. /\ k \in 0..Len(data) /\ k < Len(data) /\ pos = 52 * k
      /\ left = (16 + size) * Len(data) - 16 - 52 * k
      /\ k = 0 \/ size = 36 \/ (k = 1 /\ size \in {32, 52})
  BY DEF Parsed
<1>3. \/ size = 12 /\ k = 0 /\ left = 28 * Len(data) - 16
      \/ size = 32 /\ k \in {0, 1} /\ left = 48 * Len(data) - 16 - 52 * k
      \/ size = 36 /\ left = 52 * Len(data) - 16 - 52 * k
      \/ size = 52 /\ k \in {0, 1} /\ left = 68 * Len(data) - 16 - 52 * k
  <2>1. size \in {12, 32, 36, 52}
    BY DEF LType
  <2>2. /\ size = 12 => (16 + size) * Len(data) = 28 * Len(data)
        /\ size = 32 => (16 + size) * Len(data) = 48 * Len(data)
        /\ size = 36 => (16 + size) * Len(data) = 52 * Len(data)
        /\ size = 52 => (16 + size) * Len(data) = 68 * Len(data)
    BY <1>1, Distances
  <2> QED
    BY <1>1, <1>2, <2>1, <2>2
<1>4. left >= 12
  BY <1>1, <1>2, <1>3
<1> QED
  BY <1>1, <1>2, <1>3, <1>4

TakenOff(n) == wire' = SubSeq(wire, n + 1, Len(wire))

\* A stream of events, of which the first n are taken.
LEMMA UpcomingCut ==
    ASSUME LType, NEW from \in Nat, Upcoming(0, from), NEW n \in 1..Len(wire),
           TakenOff(n), UNCHANGED punched
    PROVE  /\ 0 <= Len(wire')
           /\ \A i \in 1..Len(wire') :
                i > 0 => wire'[i].k = "event" /\ wire'[i].id = from + n + i - 0
           /\ punched' = from + n + Len(wire') - 0
<1>1. wire \in Seq(Packets) /\ Len(wire) \in Nat
  BY LenProperties DEF LType
<1>2. Len(wire') = Len(wire) - n /\ \A i \in 1..(Len(wire) - n) : wire'[i] = wire[n + i]
  BY <1>1, StreamCut DEF TakenOff
<1>3. punched = from + Len(wire) - 0
  BY DEF Upcoming
<1>4. ASSUME NEW i \in 1..Len(wire'), i > 0
      PROVE  wire'[i].k = "event" /\ wire'[i].id = from + n + i - 0
  <2>1. n + i \in 1..Len(wire) /\ n + i > 0 /\ wire'[i] = wire[n + i]
    BY <1>1, <1>2
  <2>2. wire[n + i].k = "event" /\ wire[n + i].id = from + (n + i) - 0
    BY <2>1 DEF Upcoming
  <2> QED
    BY <2>1, <2>2
<1>5. 0 <= Len(wire')
  BY <1>1, <1>2
<1>6. punched' = from + n + Len(wire') - 0
  <2>1. punched' = punched /\ n \in Nat
    BY <1>1
  <2> QED
    BY <1>1, <1>2, <1>3, <2>1
<1> QED
  BY <1>4, <1>5, <1>6

LEMMA ReceiveKeeps ==
    ASSUME LInv, Receive, clean' = TRUE PROVE InStep'
<1>1. clean = TRUE /\ pc = "wait" /\ up = TRUE /\ wire # <<>>
  BY DEF Receive, LInv, LType
<1>2. Settings /\ Fresh /\ Listening /\ skew = FALSE
  BY <1>1 DEF LInv, InStep
<1>3. LType
  BY DEF LInv
<1>4. PICK k \in 0..Len(data) : Parsed(k)
  BY <1>1, <1>2 DEF Listening, Loop
<1>5. left = 0 /\ asked = <<>> /\ enrolment = NoEnrolment
  BY <1>1, <1>2 DEF Listening, Loop
<1>6. /\ first \in Nat /\ Len(yielded) \in Nat /\ Len(data) \in Nat /\ Len(wire) \in Nat
      /\ wire \in Seq(Packets) /\ Len(wire) >= 1
  BY <1>1, <1>3, LenProperties, StreamTail DEF LType
<1>7. k = Len(data)
  BY <1>4, <1>5 DEF Parsed
<1>8. PICK from \in Nat : from = first + Len(yielded)
  BY <1>6
<1>9. Upcoming(0, from)
  <2>1. first + Len(yielded) + Len(data) - k = from
    BY <1>6, <1>7, <1>8
  <2> QED
    BY <1>4, <2>1 DEF Parsed
<1>10. wire[1].k = "event" /\ Head(wire) = wire[1]
  <2>1. Head(wire) = wire[1]
    BY <1>1, <1>6, StreamTail
  <2>2. 1 \in 1..Len(wire) /\ 1 > 0
    BY <1>6
  <2> QED
    BY <1>9, <2>1, <2>2 DEF Upcoming
<1>11. PICK n \in 1..Len(wire) :
         /\ wire' = SubSeq(wire, n + 1, Len(wire))
         /\ data' = SubSeq(wire, 1, n)
         /\ pos' = 0
         /\ left' = StartOf(wire, n) + PayloadOf(wire[n])
         /\ Go("parse")
         /\ UNCHANGED sockTimeout
  BY <1>2, <1>10 DEF Receive
<1>12. n \in Nat /\ n >= 1
  BY <1>6
<1>13. pc' = "parse" /\ asked' = <<>>
  BY <1>5, <1>11 DEF Go, CommandPcs
<1>14. UNCHANGED <<size, registered, enabled, enrolment, enrolled, punched, up, is_enabled, yielded,
                   op, was_enabled, attempts, done, first>> /\ skew' = FALSE
  BY DEF Receive, termVars, callVars
<1>15. \A i \in 1..Len(wire) : wire[i].k = "event" /\ wire[i].id = from + i
  BY <1>6, <1>9 DEF Upcoming
<1>16. left' = (16 + size) * n - 16
  <2>1. StartOf(wire, n) = 16 * (n - 1) + size * (n - 1)
    BY <1>3, <1>6, <1>12, <1>15, StartOfEvents
  <2>2. PayloadOf(wire[n]) = size
    BY <1>15 DEF PayloadOf
  <2>3. 16 * (n - 1) + size * (n - 1) + size = (16 + size) * n - 16
    <3>1. size \in {12, 32, 36, 52}
      BY <1>3 DEF LType
    <3>2. CASE size = 12
      BY <1>12, <3>2
    <3>3. CASE size = 32
      BY <1>12, <3>3
    <3>4. CASE size = 36
      BY <1>12, <3>4
    <3>5. CASE size = 52
      BY <1>12, <3>5
    <3> QED
      BY <3>1, <3>2, <3>3, <3>4, <3>5
  <2> QED
    BY <1>11, <2>1, <2>2, <2>3
<1>17. data' \in Seq(Packets) /\ Len(data') = n /\ \A i \in 1..n : data'[i] = wire[i]
  BY <1>6, <1>11, StreamTaken
<1>18. left' > 0
  <2>1. size \in {12, 32, 36, 52}
    BY <1>3 DEF LType
  <2>2. /\ size = 12 => (16 + size) * n = 28 * n
        /\ size = 32 => (16 + size) * n = 48 * n
        /\ size = 36 => (16 + size) * n = 52 * n
        /\ size = 52 => (16 + size) * n = 68 * n
    BY <1>3, <1>12, Distances
  <2> QED
    BY <1>12, <1>16, <2>1, <2>2
<1>19. Parsed(0)'
  <2>1. 0 \in 0..Len(data') /\ 0 < Len(data')
    BY <1>12, <1>17
  <2>2. \A i \in 1..Len(yielded') : yielded'[i] = first' + i
    BY <1>4, <1>14 DEF Parsed
  <2>3. ASSUME NEW i \in 1..Len(data')
        PROVE  data'[i].k = "event" /\ data'[i].id = first' + Len(yielded') + i - 0
    <3>1. i \in 1..n /\ i \in 1..Len(wire)
      BY <1>6, <1>12, <1>17
    <3>2. data'[i].k = "event" /\ data'[i].id = from + i
      BY <1>15, <1>17, <3>1
    <3>3. first' + Len(yielded') + i - 0 = from + i
      BY <1>6, <1>8, <1>14
    <3> QED
      BY <3>2, <3>3
  <2>4. Upcoming(0, first + Len(yielded) + Len(data) - 0)'
    <3>1. first' + Len(yielded') + Len(data') - 0 = from + n
      BY <1>6, <1>8, <1>12, <1>14, <1>17
    <3>2. /\ 0 <= Len(wire')
          /\ \A i \in 1..Len(wire') :
               i > 0 => wire'[i].k = "event" /\ wire'[i].id = from + n + i - 0
          /\ punched' = from + n + Len(wire') - 0
      BY <1>3, <1>9, <1>11, <1>14, UpcomingCut DEF TakenOff
    <3> QED
      BY <3>1, <3>2 DEF Upcoming
  <2>5. pos' = 52 * 0 /\ left' = (16 + size') * Len(data') - 16 - 52 * 0
    <3>1. (16 + size) * n - 16 = (16 + size) * n - 16 - 52 * 0
      <4>1. (16 + size) * n \in Int
        BY <1>3, <1>12 DEF LType
      <4> QED
        BY <4>1
    <3> QED
      BY <1>11, <1>14, <1>16, <1>17, <3>1
  <2> QED
    BY <1>18, <2>1, <2>2, <2>3, <2>4, <2>5 DEF Parsed
<1>20. Listening'
  <2>1. \E j \in 0..Len(data') : Parsed(j)'
    BY <1>19 DEF Parsed
  <2> QED
    BY <1>5, <1>13, <1>14, <1>18, <2>1 DEF Listening
<1>21. Settings'
  BY <1>1, <1>2, <1>13, <1>14 DEF Settings, Loop, LInv, Place
<1>22. Fresh'
  BY <1>2, <1>13, <1>14 DEF Fresh
<1> QED
  BY <1>13, <1>14, <1>20, <1>21, <1>22, AtLoop DEF Loop

\* Numbers of records.
LEMMA OneOrMore == ASSUME NEW m \in Nat, 0 < m PROVE m = 1 \/ m > 1
OBVIOUS
LEMMA OneSmallest == ASSUME NEW m \in Nat, 12 = 28 * m - 16 PROVE m = 1
OBVIOUS

\* A record that is recognised is the next one, and the parser ends where the
\* one after it starts.
LEMMA NextRecord ==
    ASSUME LType, NEW k, Parsed(k), left > 0, Take(left) # 0, NEW i \in Hits(Take(left))
    PROVE  /\ i = k + 1 /\ i \in 1..Len(data)
           /\ \/ left - Take(left) = 0 /\ i = Len(data)
              \/ /\ left - Take(left) > 0 /\ i < Len(data)
                 /\ pos + Take(left) = 52 * i
                 /\ left - Take(left) = (16 + size) * Len(data) - 16 - 52 * i
                 /\ size = 36 \/ (i = 1 /\ size \in {32, 52})
<1> DEFINE n == Take(left)
<1>1. /\ k \in Nat /\ k < Len(data) /\ Len(data) \in Nat /\ pos = 52 * k
      /\ \/ size = 12 /\ k = 0 /\ left = 28 * Len(data) - 16
         \/ size = 32 /\ k \in {0, 1} /\ left = 48 * Len(data) - 16 - 52 * k
         \/ size = 36 /\ left = 52 * Len(data) - 16 - 52 * k
         \/ size = 52 /\ k \in {0, 1} /\ left = 68 * Len(data) - 16 - 52 * k
  BY Room
<1>2. i \in 1..Len(data) /\ StartOf(data, i) = pos /\ (n = 12 <=> size = 12)
  <2>1. i \in DOMAIN data
    BY DEF Hits
  <2> QED
    BY <2>1, LenProperties DEF Hits, LType
<1>3. i \in Nat /\ i >= 1 /\ i - 1 \in Nat
  BY <1>1, <1>2
<1>4. \A j \in 1..(i - 1) : data[j].k = "event"
  BY <1>1, <1>2 DEF Parsed
<1>5. 16 * (i - 1) + size * (i - 1) = 52 * k
  BY <1>1, <1>2, <1>3, <1>4, StartOfEvents
<1>6. /\ size = 12 => 28 * (i - 1) = 52 * k
      /\ size = 32 => 48 * (i - 1) = 52 * k
      /\ size = 36 => 52 * (i - 1) = 52 * k
      /\ size = 52 => 68 * (i - 1) = 52 * k
  BY <1>3, <1>5, Distances
<1>7. /\ size = 12 => (16 + size) * Len(data) = 28 * Len(data)
      /\ size = 32 => (16 + size) * Len(data) = 48 * Len(data)
      /\ size = 36 => (16 + size) * Len(data) = 52 * Len(data)
      /\ size = 52 => (16 + size) * Len(data) = 68 * Len(data)
  BY <1>1, Distances
<1>8. left \in Nat /\ n = IF left \in {12, 32, 36} THEN left ELSE IF left >= 52 THEN 52 ELSE 0
  BY DEF Take, LType
<1> HIDE DEF n
<1>9. n # 0
  BY DEF n
<1>10. CASE size = 12
  <2>1. i = 1 /\ k = 0 /\ n = 12
    BY <1>1, <1>2, <1>3, <1>6, <1>10
  <2>2. left = 12
    BY <1>8, <2>1
  <2>3. left = 28 * Len(data) - 16 /\ Len(data) \in Nat
    BY <1>1, <1>10
  <2>4. Len(data) = 1
    BY <2>2, <2>3, OneSmallest
  <2> QED
    BY <2>1, <2>2, <2>4 DEF n
<1>11. CASE size = 32
  <2>1. i = 1 /\ k = 0
    BY <1>1, <1>3, <1>6, <1>11
  <2>2. CASE Len(data) = 1
    <3>1. left = 32 /\ n = 32
      BY <1>1, <1>8, <1>11, <2>1, <2>2
    <3> QED
      BY <2>1, <2>2, <3>1 DEF n
  <2>3. CASE Len(data) > 1
    <3>1. left >= 80 /\ left = 48 * Len(data) - 16
      BY <1>1, <1>11, <2>1, <2>3
    <3>2. n = 52
      BY <1>8, <3>1
    <3> QED
      BY <1>1, <1>7, <1>11, <2>1, <2>3, <3>1, <3>2 DEF n
  <2>4. Len(data) \in Nat /\ 0 < Len(data)
    BY <1>1, <2>1
  <2>5. Len(data) = 1 \/ Len(data) > 1
    BY <2>4, OneOrMore
  <2> QED
    BY <2>2, <2>3, <2>5
<1>12. CASE size = 36
  <2>1. i = k + 1
    BY <1>1, <1>3, <1>6, <1>12
  <2>2. CASE k + 1 = Len(data)
    <3>1. left = 36 /\ n = 36
      BY <1>1, <1>8, <1>12, <2>2
    <3> QED
      BY <1>1, <2>1, <2>2, <3>1 DEF n
  <2>3. CASE k + 1 < Len(data)
    <3>1. left >= 88 /\ left = 52 * Len(data) - 16 - 52 * k
      BY <1>1, <1>12, <2>3
    <3>2. n = 52
      BY <1>8, <3>1
    <3> QED
      BY <1>1, <1>7, <1>12, <2>1, <2>3, <3>1, <3>2 DEF n
  <2> QED
    BY <1>1, <2>2, <2>3
<1>13. CASE size = 52
  <2>1. i = 1 /\ k = 0
    BY <1>1, <1>3, <1>6, <1>13
  <2>2. CASE Len(data) = 1
    <3>1. left = 52 /\ n = 52
      BY <1>1, <1>8, <1>13, <2>1, <2>2
    <3> QED
      BY <2>1, <2>2, <3>1 DEF n
  <2>3. CASE Len(data) > 1
    <3>1. left >= 120 /\ left = 68 * Len(data) - 16
      BY <1>1, <1>13, <2>1, <2>3
    <3>2. n = 52
      BY <1>8, <3>1
    <3> QED
      BY <1>1, <1>7, <1>13, <2>1, <2>3, <3>1, <3>2 DEF n
  <2>4. Len(data) \in Nat /\ 0 < Len(data)
    BY <1>1, <2>1
  <2>5. Len(data) = 1 \/ Len(data) > 1
    BY <2>4, OneOrMore
  <2> QED
    BY <2>2, <2>3, <2>5
<1> QED
  BY <1>10, <1>11, <1>12, <1>13 DEF LType

LEMMA ParseKeeps ==
    ASSUME LInv, Parse, clean' = TRUE PROVE InStep'
<1>1. clean = TRUE /\ pc = "parse"
  BY DEF Parse, Leave, LInv, LType
<1>2. Settings /\ Fresh /\ Listening /\ skew = FALSE
  BY <1>1 DEF LInv, InStep
<1>3. LType
  BY DEF LInv
<1> DEFINE n == Take(left)
<1>4. PICK i \in Hits(n) : /\ n # 0
                           /\ yielded' = Append(yielded, data[i].id)
                           /\ pos' = pos + n /\ left' = left - n
                           /\ Go("suspended") /\ data' = data
  BY DEF Parse, Leave, Rest
<1>5. asked = <<>> /\ enrolment = NoEnrolment
  BY <1>1, <1>2 DEF Listening, Loop
<1>6. pc' = "suspended" /\ asked' = <<>>
  BY <1>4, <1>5 DEF Go, CommandPcs
<1>7. UNCHANGED <<size, registered, enabled, enrolment, enrolled, punched, up, wire, is_enabled,
                  op, was_enabled, attempts, done, first, skew>>
  BY DEF Parse, termVars, callVars
<1>8. ASSUME up = TRUE PROVE \E j \in 0..Len(data') : Parsed(j)'
  <2>1. PICK k \in 0..Len(data) : Parsed(k)
    BY <1>1, <1>2, <1>8 DEF Listening, Loop
  <2>2. left > 0
    BY <1>1, <1>2, <1>8 DEF Listening, Loop
  <2>3. /\ i = k + 1 /\ i \in 1..Len(data)
        /\ \/ left - n = 0 /\ i = Len(data)
           \/ /\ left - n > 0 /\ i < Len(data)
              /\ pos + n = 52 * i
              /\ left - n = (16 + size) * Len(data) - 16 - 52 * i
              /\ size = 36 \/ (i = 1 /\ size \in {32, 52})
    BY <1>3, <1>4, <2>1, <2>2, NextRecord
  <2> HIDE DEF n
  <2>4. Len(yielded) \in Nat /\ Len(data) \in Nat /\ first \in Nat /\ k \in Nat /\ i \in Nat
    BY <1>3, <2>1, <2>3, LenProperties DEF LType
  <2>5. data[i].id = first + Len(yielded) + 1 /\ data[i].id \in Nat
    <3>1. data[i].id = first + Len(yielded) + i - k
      BY <2>1, <2>3, <2>4 DEF Parsed
    <3> QED
      BY <2>3, <2>4, <3>1
  <2>6. /\ Len(yielded') = Len(yielded) + 1
        /\ \A j \in 1..Len(yielded) : yielded'[j] = yielded[j]
        /\ yielded'[Len(yielded) + 1] = data[i].id
    BY <1>3, <1>4, <2>5, StreamGrows DEF LType
  <2>7. ASSUME NEW j \in 1..Len(yielded') PROVE yielded'[j] = first + j
    <3>1. CASE j \in 1..Len(yielded)
      BY <2>1, <2>6, <3>1 DEF Parsed
    <3>2. CASE j = Len(yielded) + 1
      BY <2>4, <2>5, <2>6, <3>2
    <3> QED
      BY <2>4, <2>6, <3>1, <3>2
  <2>8. ASSUME NEW j \in 1..Len(data)
        PROVE  /\ data[j].k = "event"
               /\ j > i => data[j].id = first + Len(yielded') + j - i
    <3>1. data[j].k = "event"
      BY <2>1 DEF Parsed
    <3>2. ASSUME j > i PROVE data[j].id = first + Len(yielded') + j - i
      <4>1. data[j].id = first + Len(yielded) + j - k
        BY <2>1, <2>3, <2>4, <3>2 DEF Parsed
      <4> QED
        BY <2>3, <2>4, <2>6, <4>1
    <3> QED
      BY <3>1, <3>2
  <2>9. Upcoming(0, first + Len(yielded) + Len(data) - i)'
    <3>1. PICK from \in Nat : from = first + Len(yielded) + Len(data) - k
      BY <2>3, <2>4
    <3>2. Upcoming(0, from)
      BY <2>1, <3>1 DEF Parsed
    <3>3. first' + Len(yielded') + Len(data') - i = from
      BY <1>4, <1>7, <2>3, <2>4, <2>6, <3>1
    <3> QED
      BY <1>7, <3>2, <3>3 DEF Upcoming
  <2>10. \/ left' = 0 /\ i = Len(data')
         \/ /\ left' > 0 /\ i < Len(data')
            /\ pos' = 52 * i
            /\ left' = (16 + size') * Len(data') - 16 - 52 * i
            /\ i = 0 \/ size' = 36 \/ (i = 1 /\ size' \in {32, 52})
    BY <1>4, <1>7, <2>3
  <2>11. i \in 0..Len(data')
    BY <1>4, <2>3, <2>4
  <2>12. Parsed(i)'
    BY <1>4, <1>7, <2>7, <2>8, <2>9, <2>10, <2>11 DEF Parsed
  <2> QED
    BY <2>11, <2>12
<1>9. Listening'
  BY <1>5, <1>6, <1>7, <1>8 DEF Listening
<1>10. Settings'
  BY <1>1, <1>2, <1>6, <1>7 DEF Settings, Loop, LInv, Place
<1>11. Fresh'
  BY <1>2, <1>6, <1>7 DEF Fresh
<1> QED
  BY <1>2, <1>6, <1>7, <1>9, <1>10, <1>11, AtLoop DEF Loop

\* The loop goes on: the stream and the parser are as they were.
LEMMA LoopGoesOn ==
    ASSUME LInv, clean = TRUE, pc \in Loop, NEW p \in Loop, Go(p),
           UNCHANGED <<termVars, up, wire, skew, is_enabled, data, pos, yielded, left, callVars>>,
           up = TRUE => (p = "wait" => left = 0) /\ (p = "parse" => left > 0)
    PROVE  InStep'
<1>1. Settings /\ Fresh /\ Listening /\ skew = FALSE
  BY DEF LInv, InStep
<1>2. asked = <<>> /\ enrolment = NoEnrolment
  BY <1>1 DEF Listening
<1>3. pc' = p /\ asked' = <<>>
  BY <1>2 DEF Go, CommandPcs, Loop
<1>4. UNCHANGED <<size, registered, enabled, enrolment, enrolled, punched, op, was_enabled, attempts,
                  done, first>>
  BY DEF termVars, callVars
<1>5. ASSUME up = TRUE PROVE \E k \in 0..Len(data') : Parsed(k)'
  <2>1. PICK k \in 0..Len(data) : Parsed(k)
    BY <1>1, <1>5 DEF Listening
  <2>2. Parsed(k)'
    BY <1>4, <2>1 DEF Parsed, Upcoming
  <2> QED
    BY <2>1, <2>2
<1>6. Listening'
  BY <1>2, <1>3, <1>4, <1>5 DEF Listening
<1>7. Settings'
  BY <1>1, <1>3, <1>4 DEF Settings, Loop, LInv, Place
<1>8. Fresh'
  BY <1>1, <1>3, <1>4 DEF Fresh, Loop
<1> QED
  BY <1>1, <1>3, <1>6, <1>7, <1>8, AtLoop

\* Its end: what the terminal still sends is in front of the answer.
LEMMA LoopEnds ==
    ASSUME LInv, clean = TRUE, pc \in Loop, PutBack,
           UNCHANGED <<termVars, up, wire, skew, is_enabled, callVars>>
    PROVE  InStep'
<1>1. Settings /\ Fresh /\ Listening /\ skew = FALSE
  BY DEF LInv, InStep
<1>2. asked = <<>> /\ enrolment = NoEnrolment
  BY <1>1 DEF Listening
<1>3. Go("unregister") /\ sockTimeout' = "own"
  BY DEF PutBack
<1>4. pc' = "unregister" /\ (asked' = <<>> \/ asked' = <<pc'>>)
  <2>1. Append(<<>>, "unregister") = <<"unregister">>
    OBVIOUS
  <2> QED
    BY <1>2, <1>3, <2>1 DEF Go
<1>5. UNCHANGED <<registered, enabled, enrolment, enrolled, op, was_enabled, attempts, done>>
  BY DEF termVars, callVars
<1>6. wire # <<>> => wire[1].k # "ok"
  <2> SUFFICES ASSUME wire # <<>> PROVE wire[1].k = "event"
    OBVIOUS
  <2>1. up = TRUE
    BY DEF LInv, LType, Gone, Unanswered
  <2>2. PICK k \in 0..Len(data) : Parsed(k)
    BY <1>1, <2>1 DEF Listening
  <2>3. Len(wire) >= 1 /\ Len(wire) \in Nat
    BY StreamTail, LenProperties DEF LInv, LType
  <2>4. 1 \in 1..Len(wire) /\ 1 > 0
    BY <2>3
  <2> QED
    BY <2>2, <2>4 DEF Parsed, Upcoming
<1>7. Unregistering'
  BY <1>2, <1>4, <1>5, <1>6 DEF Unregistering, Unserved, Unanswered
<1>8. Settings'
  BY <1>1, <1>3, <1>4, <1>5 DEF Settings, Loop, EnrolPcs, LInv, Place
<1>9. Fresh'
  BY <1>1, <1>4, <1>5 DEF Fresh
<1> QED
  BY <1>1, <1>4, <1>7, <1>8, <1>9, AtUnregister

LEMMA LoopKeeps ==
    ASSUME LInv, Quiet \/ Interrupt \/ Resume, clean' = TRUE PROVE InStep'
<1>1. clean = TRUE /\ pc \in Loop
  BY DEF Quiet, Interrupt, Resume, Loop
<1>2. Listening
  BY <1>1 DEF LInv, InStep
<1>3. CASE Quiet
  <2>1. up = TRUE /\ pc = "wait"
    BY <1>3 DEF Quiet, LInv, LType
  <2>2. left = 0
    BY <1>1, <1>2, <2>1 DEF Listening
  <2>3. UNCHANGED <<termVars, up, wire, skew, is_enabled, data, pos, yielded, left, callVars>>
        /\ Go("suspended")
    BY <1>3, <2>2 DEF Quiet
  <2> QED
    BY <1>1, <2>3, LoopGoesOn DEF Loop
<1>4. CASE Interrupt
  BY <1>1, <1>4, LoopEnds DEF Interrupt
<1>5. CASE Resume
  <2>1. UNCHANGED <<termVars, up, wire, skew, is_enabled, data, pos, yielded, left, callVars>>
    BY <1>5 DEF Resume, parseVars
  <2>2. CASE left >= 12 /\ Go("parse")
    <3>1. left > 0
      BY <2>2 DEF LInv, LType
    <3> QED
      BY <1>1, <2>1, <2>2, <3>1, LoopGoesOn DEF Loop
  <2>3. CASE left < 12 /\ Go("wait")
    <3>1. up = TRUE => left = 0
      <4> SUFFICES ASSUME up = TRUE, left # 0 PROVE FALSE
        OBVIOUS
      <4>1. left > 0 /\ left \in Nat
        BY DEF LInv, LType
      <4>2. PICK k \in 0..Len(data) : Parsed(k)
        BY <1>1, <1>2 DEF Listening
      <4>3. left >= 12
        BY <4>1, <4>2, Room DEF LInv
      <4> QED
        BY <2>3, <4>1, <4>3
    <3> QED
      BY <1>1, <2>1, <2>3, <3>1, LoopGoesOn DEF Loop
  <2>4. CASE PutBack
    BY <1>1, <2>1, <2>4, LoopEnds
  <2> QED
    BY <1>5, <2>2, <2>3, <2>4 DEF Resume
<1> QED
  BY <1>3, <1>4, <1>5

LEMMA StopKeeps ==
    ASSUME LInv, Stop \/ UNCHANGED lvars, clean' = TRUE PROVE InStep'
<1>1. UNCHANGED <<size, registered, enabled, enrolment, enrolled, punched, up, asked, wire, skew, op,
                  pc, is_enabled, sockTimeout, was_enabled, data, pos, left, yielded, attempts, done,
                  first, clean>>
  BY DEF Stop, lvars, termVars, stream, parseVars
<1>2. InStep
  BY DEF LInv
<1>3. Settings' = Settings /\ Fresh' = Fresh /\ AtRest' = AtRest /\ PlainRequest' = PlainRequest
  BY <1>1 DEF Settings, Fresh, AtRest, PlainRequest, Silent, Unserved, Unanswered, Answered
<1>4. Registering' = Registering /\ Unregistering' = Unregistering
  BY <1>1 DEF Registering, Unregistering, Unserved, Unanswered, Answered, Upcoming
<1>5. Listening' = Listening
  BY <1>1 DEF Listening, Parsed, Upcoming
<1>6. StartingEnrolment' = StartingEnrolment /\ Enrolling' = Enrolling
  BY <1>1 DEF StartingEnrolment, Enrolling, Touched, Unserved, Unanswered, Answered
<1> QED
  BY <1>1, <1>2, <1>3, <1>4, <1>5, <1>6 DEF InStep

-----------------------------------------------------------------------------
(* The enrolment loop.                                                     *)

LEMMA LastAlone == ASSUME NEW m \in Nat, m >= 1, 6 + m - 0 <= 7 PROVE m = 1
OBVIOUS

LEMMA AllTouches == ASSUME NEW a \in 0..3 PROVE 2 * (3 - a) <= 6
OBVIOUS

\* What is left of an enrolment after a receive, if no more oks were counted
\* than there were.
LEMMA TouchedCut ==
    ASSUME LType, NEW e \in 0..6, Touched(0, e), NEW n \in 1..Len(wire),
           TakenOff(n), UNCHANGED <<enrolment, enrolled>>,
           attempts' \in 0..3, 2 * (3 - attempts') <= e + n
    PROVE  \E x \in 0..6 : Touched(0, x)'
<1>1. wire \in Seq(Packets) /\ Len(wire) \in Nat
  BY LenProperties DEF LType
<1>2. Len(wire') = Len(wire) - n /\ \A i \in 1..(Len(wire) - n) : wire'[i] = wire[n + i]
  BY <1>1, StreamCut DEF TakenOff
<1>3. Len(wire') \in Nat /\ n \in Nat /\ n >= 1 /\ n <= Len(wire)
  BY <1>1, <1>2
<1>4. CASE wire' = <<>>
  <2>1. Len(wire') = 0
    BY <1>4, EmptySeq
  <2>2. n = Len(wire)
    BY <1>1, <1>2, <1>3, <2>1
  <2>3. (\A i \in 1..Len(wire') : FALSE) /\ 0 <= Len(wire')
    BY <2>1
  <2>4. CASE enrolment # NoEnrolment
    <3>1. enrolment = e + Len(wire) - 0 /\ enrolment \in 0..6
      BY <2>4 DEF Touched, LType, NoEnrolment
    <3>2. e + n \in 0..6 /\ enrolment = e + n
      BY <1>1, <2>2, <3>1
    <3>3. enrolment' = (e + n) + Len(wire') - 0 /\ enrolment' # NoEnrolment
      BY <2>1, <2>4, <3>2
    <3>4. Touched(0, e + n)'
      BY <2>3, <3>2, <3>3 DEF Touched
    <3> QED
      BY <3>2, <3>4
  <2>5. CASE enrolment = NoEnrolment
    <3>1. 2 * (3 - attempts') <= 6
      BY AllTouches
    <3>2. enrolment' = NoEnrolment /\ 6 + Len(wire') - 0 <= 7
      BY <2>1, <2>5
    <3>3. \/ enrolment' = 6 + Len(wire') - 0 /\ enrolment' # NoEnrolment
          \/ /\ enrolment' = NoEnrolment /\ 6 + Len(wire') - 0 <= 7
             /\ wire' # <<>> => wire'[Len(wire')].res \in Last
      BY <1>4, <3>2
    <3>4. 6 \in 0..6
      OBVIOUS
    <3>5. Touched(0, 6)'
      BY <2>3, <3>1, <3>3, <3>4 DEF Touched
    <3> QED
      BY <3>5
  <2> QED
    BY <2>4, <2>5
<1>5. CASE wire' # <<>>
  <2>1. Len(wire') >= 1
    <3>1. wire' \in Seq(Packets)
      BY <1>1, StreamCut DEF TakenOff
    <3>2. Len(wire') # 0
      BY <1>5, <3>1, EmptySeq
    <3> QED
      BY <1>3, <3>2
  <2>2. e + n \in 0..6
    <3>1. e + Len(wire) - 0 <= 7
      BY DEF Touched, LType, NoEnrolment
    <3> QED
      BY <1>1, <1>2, <1>3, <2>1, <3>1
  <2>3. ASSUME NEW i \in 1..Len(wire'), i > 0
        PROVE  /\ Stored(wire'[i].res) => enrolled' = TRUE
               /\ wire'[i].res \in Last => i = Len(wire') /\ enrolment' = NoEnrolment
               /\ wire'[i].res = "ok" => (e + n) + i - 0 \in {2, 4, 6}
    <3>1. n + i \in 1..Len(wire) /\ n + i > 0 /\ wire'[i] = wire[n + i]
      BY <1>1, <1>2, <1>3
    <3>2. /\ Stored(wire[n + i].res) => enrolled = TRUE
          /\ wire[n + i].res \in Last => n + i = Len(wire) /\ enrolment = NoEnrolment
          /\ wire[n + i].res = "ok" => e + (n + i) - 0 \in {2, 4, 6}
      BY <3>1 DEF Touched
    <3>3. (n + i = Len(wire) => i = Len(wire')) /\ (e + n) + i - 0 = e + (n + i) - 0
      BY <1>1, <1>2, <1>3
    <3> QED
      BY <3>1, <3>2, <3>3
  <2>4. wire'[Len(wire')] = wire[Len(wire)]
    BY <1>1, <1>2, <1>3, <2>1
  <2>5. (e + n) + Len(wire') - 0 = e + Len(wire) - 0
    BY <1>1, <1>2, <1>3
  <2>6. wire # <<>>
    BY <1>1, <1>3, EmptySeq
  <2>7. \/ enrolment' = (e + n) + Len(wire') - 0 /\ enrolment' # NoEnrolment
        \/ /\ enrolment' = NoEnrolment /\ (e + n) + Len(wire') - 0 <= 7
           /\ wire' # <<>> => wire'[Len(wire')].res \in Last
    BY <2>4, <2>5, <2>6 DEF Touched
  <2>8. 0 <= Len(wire')
    BY <1>3
  <2>9. Touched(0, e + n)'
    BY <2>2, <2>3, <2>7, <2>8 DEF Touched
  <2> QED
    BY <2>2, <2>9
<1> QED
  BY <1>4, <1>5

\* The last event ends the enrolment and the stream.
LEMMA LastTouch ==
    ASSUME LType, NEW e \in 0..6, Touched(0, e), wire # <<>>, NEW n \in 1..Len(wire),
           TakenOff(n),
           wire[1].res \in Last \/ attempts = 0
    PROVE  wire' = <<>> /\ enrolment = NoEnrolment
<1>1. wire \in Seq(Packets) /\ Len(wire) \in Nat /\ Len(wire) >= 1
  BY LenProperties, StreamTail DEF LType
<1>2. 1 \in 1..Len(wire) /\ 1 > 0
  BY <1>1
<1>3. Len(wire) = 1 /\ enrolment = NoEnrolment
  <2>1. CASE wire[1].res \in Last
    BY <1>2, <2>1 DEF Touched
  <2>2. CASE attempts = 0
    <3>1. e = 6
      BY <2>2 DEF Touched
    <3>2. CASE enrolment = e + Len(wire) - 0 /\ enrolment # NoEnrolment
      BY <1>1, <3>1, <3>2 DEF LType, NoEnrolment
    <3>3. CASE enrolment = NoEnrolment /\ e + Len(wire) - 0 <= 7
      <4>1. e + Len(wire) - 0 <= 7 /\ Len(wire) \in Nat /\ Len(wire) >= 1
        BY <1>1, <3>3
      <4>2. Len(wire) = 1
        BY <3>1, <4>1, LastAlone
      <4> QED
        BY <3>3, <4>2
    <3> QED
      BY <3>2, <3>3 DEF Touched
  <2> QED
    BY <2>1, <2>2
<1>4. n = 1
  BY <1>3
<1>5. wire' \in Seq(Packets) /\ Len(wire') = 0
  BY <1>1, <1>3, <1>4, StreamCut DEF TakenOff
<1> QED
  BY <1>3, <1>5, EmptySeq

LEMMA EnrolReceiveKeeps ==
    ASSUME LInv, EnrolReceive, clean' = TRUE PROVE InStep'
<1>1. clean = TRUE /\ pc \in EnrolPcs /\ up = TRUE /\ wire # <<>>
  BY DEF EnrolReceive, LInv, LType
<1>2. Settings /\ Fresh /\ Enrolling /\ skew = FALSE
  BY <1>1 DEF LInv, InStep
<1>3. LType /\ op = "enroll"
  BY <1>1 DEF LInv, Place
<1>4. PICK e \in 0..6 : Touched(0, e)
  BY <1>1, <1>2 DEF Enrolling
<1>5. /\ registered = FALSE /\ asked = <<>>
      /\ pc = "final" => attempts = 0
      /\ pc # "final" => attempts \in 1..3
  BY <1>1, <1>2 DEF Enrolling
<1>6. PICK n \in 1..Len(wire) : TakenOff(n)
  BY DEF EnrolReceive, TakenOff
<1>7. wire \in Seq(Packets) /\ Len(wire) \in Nat /\ Len(wire) >= 1 /\ Head(wire) = wire[1]
  BY <1>1, <1>3, StreamTail, LenProperties DEF LType
<1>8. n \in Nat /\ n >= 1 /\ 1 \in 1..Len(wire) /\ 1 > 0
  BY <1>7
<1>9. PICK res : res = wire[1].res
  OBVIOUS
<1>10. /\ Stored(res) => enrolled = TRUE
       /\ res = "ok" => e + 1 - 0 \in {2, 4, 6}
       /\ 2 * (3 - attempts) <= e
  BY <1>4, <1>8, <1>9 DEF Touched
<1>11. UNCHANGED <<registered, enabled, enrolment, enrolled, up, op, is_enabled, was_enabled>>
       /\ skew' = FALSE
  BY DEF EnrolReceive, termVars
<1>12. \/ /\ pc = "event1" /\ UNCHANGED <<attempts, done>>
          /\ IF res \in {"zero", "fail"} THEN PutBack ELSE Go("event2")
       \/ /\ pc = "event2" /\ UNCHANGED done
          /\ attempts' = IF res = "ok" THEN attempts - 1 ELSE attempts
          /\ IF res = "fail" THEN PutBack
             ELSE Go(IF attempts' = 0 THEN "final" ELSE "event1")
       \/ pc = "final" /\ done' = Stored(res) /\ PutBack /\ UNCHANGED attempts
  BY <1>2, <1>7, <1>9 DEF EnrolReceive
<1>13. done' = TRUE => enrolled' = TRUE
  <2>1. CASE done' = done
    BY <1>2, <1>11, <2>1 DEF Fresh
  <2>2. CASE done' = Stored(res)
    BY <1>10, <1>11, <2>2
  <2> QED
    BY <1>12, <2>1, <2>2
<1>14. CASE PutBack
  <2>1. Go("unregister") /\ sockTimeout' = "own"
    BY <1>14 DEF PutBack
  <2>2. pc' = "unregister" /\ (asked' = <<>> \/ asked' = <<pc'>>)
    <3>1. Append(<<>>, "unregister") = <<"unregister">>
      OBVIOUS
    <3> QED
      BY <1>5, <2>1, <3>1 DEF Go
  <2>3. res \in Last \/ attempts = 0
    <3>1. pc \in {"event1", "event2"} => res \in {"zero", "fail"}
      BY <1>12, <2>2 DEF Go
    <3> QED
      BY <1>1, <1>5, <3>1 DEF Last, EnrolPcs
  <2>4. wire' = <<>> /\ enrolment = NoEnrolment
    BY <1>1, <1>3, <1>4, <1>6, <1>9, <2>3, LastTouch
  <2>5. Unregistering'
    BY <1>11, <2>2, <2>4 DEF Unregistering, Unserved, Unanswered
  <2>6. Settings'
    BY <1>1, <1>2, <1>3, <1>11, <2>1, <2>2 DEF Settings, Loop, EnrolPcs
  <2>7. Fresh'
    BY <1>13, <2>2 DEF Fresh
  <2> QED
    BY <1>11, <2>2, <2>5, <2>6, <2>7, AtUnregister
<1>15. CASE ~PutBack
  <2>1. \E p \in EnrolPcs : Go(p)
    BY <1>12, <1>15 DEF EnrolPcs
  <2>2. pc' \in EnrolPcs /\ asked' = <<>>
    BY <1>5, <2>1 DEF Go, EnrolPcs, CommandPcs
  <2>3. /\ attempts' \in 0..3
        /\ pc' = "final" <=> attempts' = 0
        /\ attempts' = attempts \/ (attempts' = attempts - 1 /\ res = "ok")
    <3>1. CASE pc = "event1"
      <4>1. attempts' = attempts /\ Go("event2") /\ attempts \in 1..3
        BY <1>5, <1>12, <1>15, <3>1
      <4> QED
        BY <4>1 DEF Go
    <3>2. CASE pc = "event2"
      <4>1. /\ attempts' = IF res = "ok" THEN attempts - 1 ELSE attempts
            /\ Go(IF attempts' = 0 THEN "final" ELSE "event1") /\ attempts \in 1..3
        BY <1>5, <1>12, <1>15, <3>2
      <4>2. attempts' \in 0..3 /\ (attempts' = attempts \/ (attempts' = attempts - 1 /\ res = "ok"))
        BY <4>1
      <4>3. pc' = IF attempts' = 0 THEN "final" ELSE "event1"
        BY <4>1 DEF Go
      <4> QED
        BY <4>2, <4>3
    <3> QED
      BY <1>12, <1>15, <3>1, <3>2
  <2>4. 2 * (3 - attempts') <= e + n
    <3>1. attempts \in Int
      BY <1>3 DEF LType
    <3>2. CASE attempts' = attempts
      BY <1>8, <1>10, <3>1, <3>2
    <3>3. CASE attempts' = attempts - 1 /\ res = "ok"
      <4>1. e \in {1, 3, 5} /\ 2 * (3 - attempts) <= e
        BY <1>10, <3>3
      <4>2. 2 * (3 - (attempts - 1)) <= e + 1
        BY <3>1, <4>1
      <4> QED
        BY <1>8, <3>1, <3>3, <4>1, <4>2
    <3> QED
      BY <2>3, <3>2, <3>3
  <2>5. \E x \in 0..6 : Touched(0, x)'
    BY <1>3, <1>4, <1>6, <1>11, <2>3, <2>4, TouchedCut
  <2>6. pc' # "final" => attempts' \in 1..3
    BY <2>3
  <2>7. Enrolling'
    BY <1>5, <1>11, <2>2, <2>3, <2>5, <2>6 DEF Enrolling
  <2>8. Settings'
    BY <1>1, <1>2, <1>3, <1>11, <2>2 DEF Settings, Loop, EnrolPcs
  <2>9. Fresh'
    BY <1>13, <2>2 DEF Fresh, EnrolPcs
  <2> QED
    BY <1>11, <2>2, <2>7, <2>8, <2>9, AtEnrol
<1> QED
  BY <1>14, <1>15

-----------------------------------------------------------------------------
(* The invariant holds, and what follows from it.                          *)

LEMMA InitInStep == ASSUME LInit PROVE LInv
<1>1. LType
  BY InitTyped
<1>2. Place /\ Gone
  BY DEF LInit, Place, Gone, Loop, EnrolPcs
<1>3. Settings
  BY DEF LInit, Settings, Loop, EnrolPcs
<1>4. Fresh /\ AtRest /\ PlainRequest
  BY DEF LInit, Fresh, AtRest, PlainRequest, PlainPcs, Silent, Unanswered
<1>5. Registering /\ Listening /\ Unregistering /\ StartingEnrolment /\ Enrolling
  BY DEF LInit, Registering, Listening, Unregistering, StartingEnrolment, Enrolling, Loop, EnrolPcs
<1>6. skew = FALSE
  BY DEF LInit
<1> QED
  BY <1>1, <1>2, <1>3, <1>4, <1>5, <1>6 DEF LInv, InStep

LEMMA StepKeeps ==
    ASSUME LInv, [LNext]_lvars PROVE LInv'
<1>1. LType'
  BY TypesKeep DEF LInv
<1>2. Place'
  BY PlaceKeeps DEF LInv
<1>3. Gone'
  BY GoneKeeps DEF LInv
<1>4. ASSUME clean' = TRUE PROVE InStep'
  <2>1. CASE \E c \in LiveOps : Call(c)
    BY <1>4, <2>1, CallKeeps
  <2>2. CASE ReadReply
    BY <1>4, <2>2, ReadReplyKeeps
  <2>3. CASE NoReply \/ ReceiveFails \/ Abandon
    BY <1>4, <2>3 DEF NoReply, ReceiveFails, Abandon, Leave
  <2>4. CASE Receive
    BY <1>4, <2>4, ReceiveKeeps
  <2>5. CASE Parse
    BY <1>4, <2>5, ParseKeeps
  <2>6. CASE Quiet \/ Interrupt \/ Resume
    BY <1>4, <2>6, LoopKeeps
  <2>7. CASE EnrolReceive
    BY <1>4, <2>7, EnrolReceiveKeeps
  <2>8. CASE Stop \/ UNCHANGED lvars
    BY <1>4, <2>8, StopKeeps
  <2>9. CASE Serve
    BY <1>4, <2>9, ServeKeeps
  <2>10. CASE Punch
    BY <1>4, <2>10, PunchKeeps
  <2>11. CASE EnrolEvent
    BY <1>4, <2>11, EnrolEventKeeps
  <2>12. CASE Break
    BY <1>4, <2>12, BreakKeeps
  <2> QED
    BY <2>1, <2>2, <2>3, <2>4, <2>5, <2>6, <2>7, <2>8, <2>9, <2>10, <2>11, <2>12
       DEF LNext, ClientStep
<1>5. InStep'
  BY <1>4 DEF InStep
<1> QED
  BY <1>1, <1>2, <1>3, <1>5 DEF LInv

LEMMA AlwaysInStep == LSpec => []LInv
<1>1. LInit => LInv
  BY InitInStep
<1>2. LInv /\ [LNext]_lvars => LInv'
  BY StepKeeps
<1> QED
  BY <1>1, <1>2, PTL DEF LSpec

\* A call that comes to its regular end has put back the timeout of the socket,
\* the keypad and the registration of events, and leaves no packet for the next
\* command, whatever the consumer and the terminal did meanwhile.
THEOREM RegularEndsAreClean == LSpec => []CleanEnd
<1>1. LInv => CleanEnd
  <2> SUFFICES ASSUME LInv, pc = "idle", clean = TRUE
               PROVE  /\ sockTimeout = "own" /\ ~registered /\ wire = <<>> /\ ~skew
                      /\ is_enabled = was_enabled /\ enabled = is_enabled
    BY DEF CleanEnd, LInv, LType
  <2>1. Settings /\ Silent /\ Unanswered /\ skew = FALSE
    BY DEF LInv, InStep, AtRest
  <2> QED
    BY <2>1 DEF Settings, Silent, Unanswered, Loop, EnrolPcs
<1> QED
  BY <1>1, AlwaysInStep, PTL


\* What is reported is what the call found.
Reported == pc = "idle" /\ result = "done" => done = TRUE

LEMMA ReportKeeps ==
    ASSUME LType, Reported, [LNext]_lvars PROVE Reported'
<1>1. CASE \E c \in LiveOps : Call(c)
  BY <1>1 DEF Call, Reported
<1>2. CASE ReadReply
  <2>1. CASE pc' # "idle"
    BY <2>1 DEF Reported
  <2>2. CASE pc' = "idle" /\ result' = "done"
    <3>1. done' = done /\ pc # "idle"
      BY <1>2 DEF ReadReply, CommandPcs
    <3>2. pc' = "idle" => ~Go(Onward) \/ Onward = "idle"
      BY DEF Go
    <3>3. done
      BY <1>2, <2>2, <3>2 DEF ReadReply, Succeeded, Failed, End, Leave
    <3> QED
      BY <3>1, <3>3 DEF Reported, LType
  <2> QED
    BY <2>1, <2>2 DEF Reported
<1>3. CASE NoReply \/ ReceiveFails \/ Abandon
  BY <1>3 DEF NoReply, ReceiveFails, Abandon, Leave, Reported
<1>4. CASE Receive
  BY <1>4 DEF Receive, PutBack, Go, Reported
<1>5. CASE Parse
  BY <1>5 DEF Parse, Leave, Go, Reported
<1>6. CASE Quiet \/ Interrupt \/ Resume
  BY <1>6 DEF Quiet, Interrupt, Resume, PutBack, Go, Reported
<1>7. CASE EnrolReceive
  <2>1. pc' # "idle"
    BY <1>7 DEF EnrolReceive, PutBack, Go
  <2> QED
    BY <2>1 DEF Reported
<1>8. CASE Stop \/ UNCHANGED lvars
  BY <1>8 DEF Stop, lvars, Reported
<1>9. CASE Serve \/ Punch \/ EnrolEvent \/ Break
  BY <1>9 DEF Serve, Punch, EnrolEvent, Break, callVars, Reported
<1> QED
  BY <1>1, <1>2, <1>3, <1>4, <1>5, <1>6, <1>7, <1>8, <1>9 DEF LNext, ClientStep

\* enroll_user returns True only when the terminal stored the finger during this
\* call, provided that every call on the connection came to its regular end.
THEOREM DoneMeansStored == LSpec => []EnrolReported
<1>1. LInit => LInv /\ Reported
  <2> SUFFICES ASSUME LInit PROVE LInv /\ Reported
    OBVIOUS
  <2> QED
    BY InitInStep DEF LInit, Reported
<1>2. LInv /\ Reported /\ [LNext]_lvars => LInv' /\ Reported'
  BY StepKeeps, ReportKeeps DEF LInv
<1>3. LInv /\ Reported => EnrolReported
  <2> SUFFICES ASSUME LInv, Reported, pc = "idle", result = "done", clean PROVE enrolled
    BY DEF EnrolReported
  <2>1. done = TRUE /\ clean = TRUE
    BY DEF Reported, LInv, LType
  <2>2. Fresh
    BY <2>1 DEF LInv, InStep
  <2> QED
    BY <2>1, <2>2 DEF Fresh
<1> QED
  BY <1>1, <1>2, <1>3, PTL DEF LSpec

-----------------------------------------------------------------------------
(* Events.                                                                 *)

\* The part of the receive that the parser has before it.
LEMMA UnreadRecords ==
    ASSUME LType, NEW k, Parsed(k)
    PROVE  Unread = Len(data) - k
<1>1. Len(data) \in Nat /\ k \in 0..Len(data) /\ k \in Nat
  <2>1. Len(data) \in Nat
    BY LenProperties DEF LType
  <2> QED
    BY <2>1 DEF Parsed
<1>2. DOMAIN data = 1..Len(data)
  BY LenProperties DEF LType
<1> DEFINE U == {j \in DOMAIN data : left > 0 /\ StartOf(data, j) + size > pos}
<1>3. CASE left = 0
  <2>1. U = {} /\ k = Len(data)
    BY <1>3 DEF Parsed
  <2> QED
    BY <1>1, <2>1, FS_EmptySet DEF Unread
<1>4. CASE left > 0
  <2>1. /\ k < Len(data) /\ pos = 52 * k
        /\ \/ size = 12 /\ k = 0
           \/ size = 32 /\ k \in {0, 1}
           \/ size = 36
           \/ size = 52 /\ k \in {0, 1}
    BY <1>4, Room
  <2>2. ASSUME NEW j \in 1..Len(data)
        PROVE  StartOf(data, j) + size > pos <=> j > k
    <3>1. j \in Nat /\ j >= 1 /\ j - 1 \in Nat
      BY <1>1
    <3>2. \A i \in 1..(j - 1) : data[i].k = "event"
      BY <1>1, <3>1 DEF Parsed
    <3>3. StartOf(data, j) = 16 * (j - 1) + size * (j - 1)
      BY <3>1, <3>2, StartOfEvents
    <3>4. /\ size = 12 => 16 * (j - 1) + size * (j - 1) = 28 * (j - 1)
          /\ size = 32 => 16 * (j - 1) + size * (j - 1) = 48 * (j - 1)
          /\ size = 36 => 16 * (j - 1) + size * (j - 1) = 52 * (j - 1)
          /\ size = 52 => 16 * (j - 1) + size * (j - 1) = 68 * (j - 1)
      BY <3>1, Distances
    <3>5. PICK s : s = StartOf(data, j)
      OBVIOUS
    <3>6. CASE size = 12
      <4>1. s = 28 * (j - 1) /\ pos = 0 /\ k = 0
        BY <2>1, <3>3, <3>4, <3>5, <3>6
      <4>2. s + 12 > 0 /\ j > 0
        BY <3>1, <4>1
      <4> QED
        BY <3>5, <3>6, <4>1, <4>2
    <3>7. CASE size = 36
      <4>1. s = 52 * (j - 1) /\ pos = 52 * k
        BY <2>1, <3>3, <3>4, <3>5, <3>7
      <4>2. s + 36 > 52 * k <=> j > k
        BY <1>1, <3>1, <4>1
      <4> QED
        BY <3>5, <3>7, <4>1, <4>2
    <3>8. CASE size = 32
      <4>1. s = 48 * (j - 1) /\ pos = 52 * k /\ k \in {0, 1}
        BY <2>1, <3>3, <3>4, <3>5, <3>8
      <4>2. s + 32 > 52 * k <=> j > k
        BY <3>1, <4>1
      <4> QED
        BY <3>5, <3>8, <4>1, <4>2
    <3>9. CASE size = 52
      <4>1. s = 68 * (j - 1) /\ pos = 52 * k /\ k \in {0, 1}
        BY <2>1, <3>3, <3>4, <3>5, <3>9
      <4>2. s + 52 > 52 * k <=> j > k
        BY <3>1, <4>1
      <4> QED
        BY <3>5, <3>9, <4>1, <4>2
    <3> QED
      BY <3>6, <3>7, <3>8, <3>9 DEF LType
  <2>3. U = (k + 1)..Len(data)
    <3>1. \A j : j \in U <=> j \in 1..Len(data) /\ j > k
      BY <1>2, <1>4, <2>2
    <3>2. \A j : j \in (k + 1)..Len(data) <=> j \in 1..Len(data) /\ j > k
      BY <1>1
    <3> QED
      BY <3>1, <3>2
  <2>4. Cardinality((k + 1)..Len(data)) = Len(data) - k
    <3>1. k + 1 \in Int /\ Len(data) \in Int /\ ~(k + 1 > Len(data))
      BY <1>1, <2>1
    <3>2. Cardinality((k + 1)..Len(data)) = Len(data) - (k + 1) + 1
      BY <3>1, FS_Interval
    <3> QED
      BY <1>1, <3>2
  <2> QED
    BY <2>3, <2>4 DEF Unread
<1> QED
  BY <1>3, <1>4 DEF LType

LEMMA NumbersAreSeq ==
    ASSUME NEW n \in Nat, NEW s \in [1..n -> Nat]
    PROVE  s \in Seq(Nat) /\ Len(s) = n
OBVIOUS

\* The events before the parser and those under way are the next ones.
LEMMA RestOfEvents ==
    ASSUME LType, NEW k, Parsed(k), NEW rest,
           rest = SubSeq(data, k + 1, Len(data)) \o wire
    PROVE  /\ rest \in Seq(Packets) /\ Len(rest) = punched - first - Len(yielded)
           /\ \A i \in 1..Len(rest) : rest[i].id = first + Len(yielded) + i
<1>1. PICK N \in Nat, W \in Nat, Y \in Nat : N = Len(data) /\ W = Len(wire) /\ Y = Len(yielded)
  BY LenProperties DEF LType
<1>2. k \in 0..N /\ k \in Nat /\ first \in Nat
  BY <1>1 DEF Parsed, LType
<1>3. PICK tail : tail = SubSeq(data, k + 1, Len(data))
  OBVIOUS
<1>4. /\ tail \in Seq(Packets)
      /\ Len(tail) = IF k + 1 <= N THEN N - (k + 1) + 1 ELSE 0
      /\ \A i \in 1..(N - (k + 1) + 1) : tail[i] = data[k + 1 + i - 1]
  <2>1. \A i \in (k + 1)..N : data[i] \in Packets
    <3>1. \A i \in (k + 1)..N : i \in 1..Len(data)
      BY <1>1, <1>2
    <3> QED
      BY <3>1, ElementOfSeq DEF LType
  <2>2. k + 1 \in Int /\ N \in Int
    BY <1>2
  <2> QED
    BY <1>1, <1>3, <2>1, <2>2, SubSeqProperties
<1>5. Len(tail) = N - k
  BY <1>2, <1>4
<1>6. ASSUME NEW i \in 1..(N - k) PROVE tail[i].id = first + Y + i
  <2>1. k + i \in 1..N /\ k + i > k /\ i \in 1..(N - (k + 1) + 1) /\ k + 1 + i - 1 = k + i
    BY <1>2
  <2>2. tail[i] = data[k + i]
    BY <1>4, <2>1
  <2>3. data[k + i].id = first + Y + (k + i) - k
    BY <1>1, <2>1 DEF Parsed
  <2>4. first + Y + (k + i) - k = first + Y + i
    BY <1>2
  <2> QED
    BY <2>2, <2>3, <2>4
<1>7. ASSUME NEW i \in 1..W PROVE wire[i].id = first + Y + (N - k) + i
  <2>1. Upcoming(0, first + Y + N - k)
    BY <1>1 DEF Parsed
  <2>2. i > 0 /\ i \in 1..Len(wire)
    BY <1>1
  <2>3. wire[i].id = (first + Y + N - k) + i - 0
    BY <2>1, <2>2 DEF Upcoming
  <2>4. (first + Y + N - k) + i - 0 = first + Y + (N - k) + i
    BY <1>2
  <2> QED
    BY <2>3, <2>4
<1>8. punched = (first + Y + N - k) + W - 0
  BY <1>1 DEF Parsed, Upcoming
<1>9. wire \in Seq(Packets)
  BY DEF LType
<1>10. /\ tail \o wire \in Seq(Packets)
       /\ Len(tail \o wire) = Len(tail) + Len(wire)
       /\ \A i \in 1..(Len(tail) + Len(wire)) :
            (tail \o wire)[i] = IF i <= Len(tail) THEN tail[i] ELSE wire[i - Len(tail)]
  BY <1>4, <1>9, ConcatProperties
<1>11. /\ rest \in Seq(Packets) /\ Len(rest) = N - k + W
       /\ \A i \in 1..(N - k + W) : rest[i] = IF i <= N - k THEN tail[i] ELSE wire[i - (N - k)]
  BY <1>1, <1>3, <1>5, <1>10
<1>12. N - k + W = punched - first - Y
  BY <1>2, <1>8
<1>13. ASSUME NEW i \in 1..(N - k + W) PROVE rest[i].id = first + Y + i
  <2>1. CASE i <= N - k
    <3>1. i \in 1..(N - k)
      BY <1>2, <2>1
    <3> QED
      BY <1>6, <1>11, <2>1, <3>1
  <2>2. CASE ~(i <= N - k)
    <3>1. i - (N - k) \in 1..W
      BY <1>2, <2>2
    <3>2. rest[i].id = first + Y + (N - k) + (i - (N - k))
      BY <1>7, <1>11, <2>2, <3>1
    <3>3. first + Y + (N - k) + (i - (N - k)) = first + Y + i
      BY <1>2
    <3> QED
      BY <3>2, <3>3
  <2> QED
    BY <2>1, <2>2
<1> QED
  BY <1>1, <1>11, <1>12, <1>13

\* As long as a capture lives, every event sent since it registered is yielded,
\* or in the receive being parsed, or under way, once and in order: an event is
\* never lost without an exception, however receives and packets fall together.
THEOREM NoEventIsLost == LSpec => []EventsAccounted
<1>1. LInv => EventsAccounted
  <2> SUFFICES ASSUME LInv, clean, up, pc \in Loop
               PROVE  Accounted = [i \in 1..(punched - first) |-> first + i]
    BY DEF EventsAccounted
  <2>1. LType /\ clean = TRUE /\ up = TRUE
    BY DEF LInv, LType
  <2>2. PICK k \in 0..Len(data) : Parsed(k)
    BY <2>1 DEF LInv, InStep, Listening
  <2>3. PICK Y \in Nat : Y = Len(yielded)
    BY <2>1, LenProperties DEF LType
  <2>4. Len(data) - Unread + 1 = k + 1
    <3>1. Len(data) \in Nat
      BY <2>1, LenProperties DEF LType
    <3>2. Unread = Len(data) - k
      BY <2>1, <2>2, UnreadRecords
    <3> QED
      BY <3>1, <3>2
  <2>5. PICK rest : rest = SubSeq(data, k + 1, Len(data)) \o wire
    OBVIOUS
  <2>6. /\ rest \in Seq(Packets) /\ Len(rest) = punched - first - Y
        /\ \A i \in 1..Len(rest) : rest[i].id = first + Y + i
    BY <2>1, <2>2, <2>3, <2>5, RestOfEvents
  <2>7. first \in Nat /\ punched \in Nat /\ yielded \in Seq(Nat)
    BY <2>1 DEF LType
  <2>8. PICK R \in Nat : R = Len(rest)
    BY <2>6, LenProperties
  <2>9. punched - first = Y + R
    BY <2>6, <2>7, <2>8
  <2>10. PICK ids : ids = [i \in DOMAIN rest |-> rest[i].id]
    OBVIOUS
  <2>11. DOMAIN rest = 1..R
    BY <2>6, <2>8, LenProperties
  <2>12. /\ ids \in [1..R -> Nat]
         /\ \A i \in 1..R : ids[i] = first + Y + i
    <3>1. \A i \in 1..R : rest[i].id = first + Y + i
      BY <2>6, <2>8
    <3>2. \A i \in 1..R : first + Y + i \in Nat
      BY <2>7
    <3> QED
      BY <2>10, <2>11, <3>1, <3>2
  <2>13. ids \in Seq(Nat) /\ Len(ids) = R
    BY <2>12, NumbersAreSeq
  <2>14. Accounted = yielded \o ids
    <3>1. SubSeq(data, Len(data) - Unread + 1, Len(data)) \o wire = rest
      BY <2>4, <2>5
    <3> QED
      BY <2>10, <3>1 DEF Accounted
  <2>15. /\ yielded \o ids \in Seq(Nat)
         /\ Len(yielded \o ids) = Len(yielded) + Len(ids)
         /\ \A i \in 1..(Len(yielded) + Len(ids)) :
              (yielded \o ids)[i] = IF i <= Len(yielded) THEN yielded[i] ELSE ids[i - Len(yielded)]
    BY <2>7, <2>13, ConcatProperties
  <2>16. PICK all : all = yielded \o ids
    OBVIOUS
  <2>17. /\ all \in Seq(Nat) /\ Len(all) = Y + R
         /\ \A i \in 1..(Y + R) : all[i] = IF i <= Y THEN yielded[i] ELSE ids[i - Y]
    BY <2>3, <2>13, <2>15, <2>16
  <2>18. ASSUME NEW i \in 1..(Y + R) PROVE all[i] = first + i
    <3>1. CASE i <= Y
      <4>1. i \in 1..Len(yielded)
        BY <2>3, <3>1
      <4>2. yielded[i] = first + i
        BY <2>2, <4>1 DEF Parsed
      <4> QED
        BY <2>17, <3>1, <4>2
    <3>2. CASE ~(i <= Y)
      <4>1. i - Y \in 1..R
        BY <3>2
      <4>2. ids[i - Y] = first + Y + (i - Y)
        BY <2>12, <4>1
      <4>3. first + Y + (i - Y) = first + i
        BY <2>7
      <4> QED
        BY <2>17, <3>2, <4>2, <4>3
    <3> QED
      BY <3>1, <3>2
  <2>19. PICK sent : sent = [i \in 1..(punched - first) |-> first + i]
    OBVIOUS
  <2>20. /\ sent \in Seq(Nat) /\ Len(sent) = Y + R
         /\ \A i \in 1..(Y + R) : sent[i] = first + i
    <3>1. \A i \in 1..(Y + R) : first + i \in Nat
      BY <2>7
    <3>2. sent \in [1..(Y + R) -> Nat] /\ \A i \in 1..(Y + R) : sent[i] = first + i
      BY <2>9, <2>19, <3>1
    <3>3. Y + R \in Nat
      OBVIOUS
    <3> QED
      BY <3>2, <3>3, NumbersAreSeq
  <2>21. all = sent
    BY <2>17, <2>18, <2>20, SeqEqual
  <2> QED
    BY <2>14, <2>16, <2>19, <2>21
<1> QED
  BY <1>1, AlwaysInStep, PTL
=============================================================================
