------------------------------- MODULE ZKLive -------------------------------
(***************************************************************************)
(* live_capture and enroll_user of src/pyzk_wl10/zk/base.py.  Both leave   *)
(* the exchange of requests and replies: the terminal sends events of its  *)
(* own on the same connection, a receive returns one or several packets,   *)
(* and what the call changed (events registered, terminal enabled, timeout *)
(* of the socket) has to be put back at its end.  live_capture is a        *)
(* generator: between two events its consumer decides when, and whether,   *)
(* it runs on.                                                             *)
(*                                                                         *)
(* Packets arrive whole.  A packet is a header of 16 bytes and, for an     *)
(* event, a payload; sizes matter where the code splits a receive by them. *)
(***************************************************************************)
EXTENDS Integers, Sequences, FiniteSets

CONSTANTS
    EventSizes,  \* payload sizes terminals use
    LiveOps,     \* subset of {"capture", "enroll"}
    MaxEvents, MaxCalls, MaxFaults

ASSUME LiveAssumption ==
    /\ EventSizes \subseteq {12, 32, 36, 52}
    /\ LiveOps \subseteq {"capture", "enroll"}
    /\ MaxEvents \in Nat /\ MaxCalls \in Nat /\ MaxFaults \in Nat

VARIABLES
    size,         \* payload of this terminal's events
    registered,   \* the terminal sends events
    enabled,      \* its keypad is enabled
    enrolment,    \* events of the enrolment sent so far, or NoEnrolment
    enrolled,     \* it stored the finger of the last enrolment
    punched,      \* events sent
    up,
    asked,        \* requests the terminal has not served
    wire,         \* packets the client has not received
    skew,         \* the stream starts with the payload of a packet whose header was read
    op, pc,
    is_enabled, sockTimeout,
    end_live_capture,
    was_enabled,
    data,         \* the packets of the receive being parsed
    pos, left,    \* where the parser is, and how many bytes are left
    attempts, done,
    yielded,      \* events handed to the consumer
    result,
    first,        \* ghost: events sent before they were registered by this call
    clean,        \* ghost: every call on this connection came to its regular end
    calls, faults

termVars   == <<size, registered, enabled, enrolment, enrolled, punched>>
stream     == <<up, asked, wire, skew>>
parseVars  == <<data, pos, left, yielded>>
callVars   == <<op, was_enabled, attempts, done, first, calls>>
lvars == <<termVars, stream, op, pc, is_enabled, sockTimeout, end_live_capture,
           was_enabled, parseVars, attempts, done, result, first, clean, calls, faults>>

Event(id, res) == [k |-> "event", id |-> id, res |-> res]
Reply(k) == [k |-> k, id |-> 0, res |-> "none"]

NoEnrolment == 7

CommandPcs == {"users", "cancel", "verify", "enable", "register", "unregister", "disable",
               "enrolCancel", "startEnrol", "cancelAgain", "verifyAgain"}
Loop == {"wait", "parse", "suspended"}
EnrolPcs == {"event1", "event2", "final"}

-----------------------------------------------------------------------------
(* The terminal.                                                           *)

\* It serves the oldest request; events registered, the keypad and the
\* enrolment follow it.
Serve ==
    /\ up /\ asked # <<>>
    /\ asked' = Tail(asked)
    /\ LET req == Head(asked) IN
       \/ /\ wire' = Append(wire, Reply("ok"))
          /\ registered' = (req = "register" \/ (registered /\ req # "unregister"))
          /\ enabled' = (req = "enable" \/ (enabled /\ req # "disable"))
          /\ enrolment' = CASE req = "startEnrol" -> 0
                            [] req \in {"cancel", "enrolCancel", "cancelAgain"} -> NoEnrolment
                            [] OTHER -> enrolment
          /\ first' = IF req = "register" THEN punched ELSE first
          /\ UNCHANGED faults
       \/ /\ faults < MaxFaults
          /\ faults' = faults + 1
          /\ wire' \in {wire, Append(wire, Reply("refused"))}
          /\ UNCHANGED <<registered, enabled, enrolment, first>>
    /\ UNCHANGED <<size, enrolled, punched, up, skew, op, pc, is_enabled, sockTimeout,
                   end_live_capture, was_enabled, parseVars, attempts, done, result,
                   clean, calls>>

\* A punch at the keypad or sensor.
Punch ==
    /\ up /\ registered /\ punched < MaxEvents
    /\ punched' = punched + 1
    /\ wire' = Append(wire, Event(punched', "other"))
    /\ UNCHANGED <<size, registered, enabled, enrolment, enrolled, up, asked, skew, pc,
                   is_enabled, sockTimeout, end_live_capture, parseVars, callVars, result,
                   clean, faults>>

\* Enrolment: two events for each of three touches, then the outcome; it may
\* fail at any touch.
EnrolEvent ==
    /\ up /\ enrolment # NoEnrolment
    /\ \E res \in {"fail", "other", "ok", "zero", "duplicate"} :
        /\ res = "other" => enrolment \in {0, 2, 4}
        /\ res = "ok" => enrolment \in {1, 3, 5}
        /\ res \in {"zero", "duplicate"} => enrolment = 6
        /\ wire' = Append(wire, Event(0, res))
        /\ enrolment' = IF res \in {"fail", "zero", "duplicate"} THEN NoEnrolment ELSE enrolment + 1
        /\ enrolled' = (enrolled \/ res = "zero")
    /\ UNCHANGED <<size, registered, enabled, punched, up, asked, skew, pc, is_enabled,
                   sockTimeout, end_live_capture, parseVars, callVars, result, clean, faults>>

Break ==
    /\ up /\ faults < MaxFaults
    /\ faults' = faults + 1
    /\ up' = FALSE /\ asked' = <<>> /\ wire' = <<>>
    /\ UNCHANGED <<termVars, skew, pc, is_enabled, sockTimeout, end_live_capture, parseVars,
                   callVars, result, clean>>

-----------------------------------------------------------------------------
(* How calls go on and end.                                                *)

Go(next) ==
    /\ pc' = next
    /\ asked' = IF next \in CommandPcs /\ up THEN Append(asked, next) ELSE asked

\* An exception, or a generator that is dropped: nothing is put back.
Leave(r) ==
    /\ pc' = "idle" /\ asked' = asked
    /\ result' = r
    /\ clean' = FALSE

End(r) ==
    /\ pc' = "idle" /\ asked' = asked
    /\ result' = r
    /\ UNCHANGED clean

\* live_capture and enroll_user, which looks up a badge it is not given.
Call(c) ==
    /\ pc = "idle" /\ calls < MaxCalls
    /\ op' = c
    /\ was_enabled' = is_enabled
    /\ Go("users") \/ (c = "enroll" /\ Go("enrolCancel"))
    /\ result' = "none"
    /\ done' = FALSE /\ attempts' = 3
    /\ enrolled' = FALSE
    /\ yielded' = <<>> /\ data' = <<>> /\ pos' = 0 /\ left' = 0
    /\ calls' = calls + 1
    /\ UNCHANGED <<size, registered, enabled, enrolment, punched, up, wire, skew, is_enabled,
                   sockTimeout, end_live_capture, first, clean, faults>>

\* Fault: the timeout is left for later.
PutBackLater == sockTimeout' = sockTimeout /\ Go("unregister")
\* The end of the capture loop and of the enrolment's events.
PutBack == sockTimeout' = "own" /\ Go("unregister")

\* What follows a request that succeeded.
Onward ==
    CASE pc = "users" -> IF op = "capture" THEN "cancel" ELSE "enrolCancel"
      [] pc = "cancel" -> "verify"
      [] pc = "verify" -> IF is_enabled THEN "register" ELSE "enable"
      [] pc = "enable" -> "register"
      [] pc = "register" -> "wait"
      [] pc = "enrolCancel" -> "startEnrol"
      [] pc = "startEnrol" -> "event1"
      [] pc = "unregister" -> IF op = "enroll" THEN "cancelAgain"
                              ELSE IF was_enabled THEN "idle" ELSE "disable"
      [] pc = "cancelAgain" -> "verifyAgain"
      [] OTHER -> "idle"

Succeeded ==
    /\ \/ pc = "users" /\ op = "enroll" /\ End("failed")      \* nobody has that uid
       \/ IF Onward = "idle"
          THEN End(IF op = "capture" THEN "ended" ELSE IF done THEN "done" ELSE "failed")
          ELSE Go(Onward) /\ UNCHANGED <<result, clean>>
    /\ is_enabled' = (pc = "enable" \/ (is_enabled /\ pc # "disable"))
    /\ sockTimeout' = CASE pc = "register" -> "capture" [] pc = "startEnrol" -> "enroll"
                        [] OTHER -> sockTimeout
    /\ end_live_capture' = IF pc = "register" THEN FALSE ELSE end_live_capture

\* cancel_capture returns False where the others raise.
Lenient == pc \in {"cancel", "enrolCancel", "cancelAgain"}

Failed ==
    \/ Lenient /\ Succeeded
    \/ ~Lenient /\ Leave("error")
       /\ UNCHANGED <<is_enabled, sockTimeout, end_live_capture>>

\* __send_command takes the first 16 bytes for the answer.  The header of an
\* event is a refusal, and its payload stays in the stream.
ReadReply ==
    /\ pc \in CommandPcs /\ wire # <<>> /\ ~skew
    /\ LET p == Head(wire) IN
       /\ \/ p.k = "ok" /\ Succeeded
          \/ p.k # "ok" /\ Failed
       /\ skew' = (p.k = "event")
    /\ wire' = Tail(wire)
    /\ UNCHANGED <<termVars, up, op, was_enabled, parseVars, attempts, done, first, calls,
                   faults>>

\* No answer, a broken connection, or bytes that are no packet.
NoReply ==
    /\ pc \in CommandPcs
    /\ ~up \/ skew \/ (wire = <<>> /\ asked = <<>>)
    /\ Leave("error")
    /\ skew' \in {skew, FALSE}
    /\ UNCHANGED <<termVars, up, wire, is_enabled, sockTimeout, end_live_capture,
                   parseVars, callVars, faults>>

-----------------------------------------------------------------------------
(* The capture loop.                                                       *)

PayloadOf(p) == IF p.k = "event" THEN size ELSE 0

\* Where the payload of packet i of a receive starts, the first header being cut.
StartOf(b, i) ==
    16 * (i - 1) + size * Cardinality({j \in 1..(i - 1) : b[j].k = "event"})

\* Fault: the end is looked at after an event only, not after a timeout.
StopSeenAfterEvent == end_live_capture /\ yielded # <<>>
\* The condition of the loop.
StopSeen == end_live_capture

\* recv(1032): the oldest n packets, at least one.
Receive ==
    /\ pc = "wait" /\ up /\ wire # <<>>
    /\ \E n \in 1..Len(wire) :
        /\ wire' = SubSeq(wire, n + 1, Len(wire))
        /\ IF skew \/ Head(wire).k # "event"
           THEN /\ IF StopSeen THEN PutBack ELSE Go("wait") /\ UNCHANGED sockTimeout  \* not event!
                /\ UNCHANGED <<data, pos, left>>
           ELSE /\ data' = SubSeq(wire, 1, n)
                /\ pos' = 0
                /\ left' = StartOf(wire, n) + PayloadOf(wire[n])
                /\ Go("parse")
                /\ UNCHANGED sockTimeout
    /\ skew' = FALSE
    /\ UNCHANGED <<termVars, up, is_enabled, end_live_capture, yielded, callVars, result,
                   clean, faults>>

\* The record length for what is left of the receive, 0 when none fits.
Take(n) == IF n \in {12, 32, 36} THEN n ELSE IF n >= 52 THEN 52 ELSE 0

\* The packet whose payload a record of n bytes at pos is.
Hits(n) ==
    {i \in DOMAIN data : /\ data[i].k = "event"
                         /\ StartOf(data, i) = pos
                         /\ n = 12 <=> size = 12}

\* Fault: one record per receive.
RestNone(n) == 0
\* What is left after a record.
Rest(n) == left - n

\* A record is yielded.  Where none fits, the names of the last one are used
\* again, which raises; so do bytes that are no event (their user id is no number).
Parse ==
    /\ pc = "parse"
    /\ LET n == Take(left) IN
       \/ /\ n # 0 /\ Hits(n) # {}
          /\ \E i \in Hits(n) : yielded' = Append(yielded, data[i].id)
          /\ pos' = pos + n /\ left' = Rest(n)
          /\ Go("suspended")
          /\ UNCHANGED <<data, result, clean>>
       \/ /\ n = 0 \/ Hits(n) = {}
          /\ Leave("error")
          /\ UNCHANGED parseVars
    /\ UNCHANGED <<termVars, up, wire, skew, is_enabled, sockTimeout, end_live_capture,
                   callVars, faults>>

\* The timeout of the socket: None is yielded.
Quiet ==
    /\ pc = "wait" /\ up /\ wire = <<>>
    /\ Go("suspended")
    /\ left' = 0
    /\ UNCHANGED <<termVars, up, wire, skew, is_enabled, sockTimeout, end_live_capture,
                   data, pos, yielded, callVars, result, clean, faults>>

\* KeyboardInterrupt while waiting ends the loop.
Interrupt ==
    /\ pc = "wait"
    /\ PutBack
    /\ UNCHANGED <<termVars, up, wire, skew, is_enabled, end_live_capture, parseVars, callVars,
                   result, clean, faults>>

ReceiveFails ==
    /\ \/ pc = "wait" /\ ~up
       \/ pc \in EnrolPcs /\ (~up \/ wire = <<>>)
    /\ Leave("error")
    /\ UNCHANGED <<termVars, up, wire, skew, is_enabled, sockTimeout, end_live_capture,
                   parseVars, callVars, faults>>

\* The consumer asks for the next event.  The end is looked at only when a
\* receive is used up.
Resume ==
    /\ pc = "suspended"
    /\ \/ left >= 12 /\ Go("parse") /\ UNCHANGED sockTimeout
       \/ left < 12 /\ ~StopSeen /\ Go("wait") /\ UNCHANGED sockTimeout
       \/ left < 12 /\ StopSeen /\ PutBack
    /\ UNCHANGED <<termVars, up, wire, skew, is_enabled, end_live_capture, parseVars, callVars,
                   result, clean, faults>>

\* The consumer drops the generator.
Abandon ==
    /\ pc = "suspended"
    /\ Leave("abandoned")
    /\ UNCHANGED <<termVars, up, wire, skew, is_enabled, sockTimeout, end_live_capture,
                   parseVars, callVars, faults>>

\* The consumer, or another thread, asks for the end.
Stop ==
    /\ op = "capture" /\ pc # "idle"
    /\ end_live_capture' = TRUE
    /\ UNCHANGED <<termVars, stream, op, pc, is_enabled, sockTimeout, was_enabled, parseVars,
                   attempts, done, result, first, clean, calls, faults>>

-----------------------------------------------------------------------------
(* The enrolment loop: of each receive only the first packet is looked at. *)

\* Fault: an outcome that is not an error counts as stored.
StoredUnlessError(res) == res # "fail"

\* A packet without payload is padded with zeros, and reads like a stored finger.
Stored(res) == res \in {"zero", "none"}

EnrolReceive ==
    /\ pc \in EnrolPcs /\ up /\ wire # <<>>
    /\ \E n \in 1..Len(wire) : wire' = SubSeq(wire, n + 1, Len(wire))
    /\ skew' = FALSE
    /\ LET res == IF skew THEN "other" ELSE Head(wire).res IN
       \/ /\ pc = "event1"
          /\ IF res \in {"zero", "fail"} THEN PutBack ELSE Go("event2") /\ UNCHANGED sockTimeout
          /\ UNCHANGED <<attempts, done>>
       \/ /\ pc = "event2"
          /\ attempts' = IF res = "ok" THEN attempts - 1 ELSE attempts
          /\ IF res = "fail" THEN PutBack
             ELSE Go(IF attempts' = 0 THEN "final" ELSE "event1") /\ UNCHANGED sockTimeout
          /\ UNCHANGED done
       \/ /\ pc = "final"
          /\ done' = Stored(res)
          /\ PutBack
          /\ UNCHANGED attempts
    /\ UNCHANGED <<termVars, up, op, is_enabled, end_live_capture, was_enabled, parseVars,
                   result, first, clean, calls, faults>>

-----------------------------------------------------------------------------

LInit ==
    /\ size \in EventSizes
    /\ registered = FALSE /\ enrolment = NoEnrolment /\ enrolled = FALSE /\ punched = 0
    /\ is_enabled \in BOOLEAN /\ enabled = is_enabled
    /\ up = TRUE /\ asked = <<>> /\ wire = <<>> /\ skew = FALSE
    /\ op = "none" /\ pc = "idle"
    /\ sockTimeout = "own" /\ end_live_capture = FALSE /\ was_enabled = is_enabled
    /\ data = <<>> /\ pos = 0 /\ left = 0 /\ yielded = <<>>
    /\ attempts = 3 /\ done = FALSE /\ result = "none"
    /\ first = 0 /\ clean = TRUE /\ calls = 0 /\ faults = 0

ClientStep ==
    \/ ReadReply \/ NoReply \/ Receive \/ Parse \/ Quiet \/ ReceiveFails \/ EnrolReceive
LNext ==
    \/ \E c \in LiveOps : Call(c)
    \/ ClientStep \/ Interrupt \/ Resume \/ Abandon \/ Stop
    \/ Serve \/ Punch \/ EnrolEvent \/ Break

\* Client and terminal run when they can, and the consumer comes back.
LFairness == WF_lvars(ClientStep) /\ WF_lvars(Serve) /\ WF_lvars(Resume)

LSpec == LInit /\ [][LNext]_lvars /\ LFairness

-----------------------------------------------------------------------------
(* What holds.                                                             *)

\* A call that comes to its regular end has put back all it changed: the
\* timeout of the socket, the keypad, the registration; and the stream is in
\* step for the next command, with no event left behind its last reply.
CleanEnd ==
    pc = "idle" /\ result \in {"ended", "done", "failed"} /\ clean =>
        /\ sockTimeout = "own"
        /\ ~registered /\ wire = <<>> /\ ~skew
        /\ is_enabled = was_enabled /\ enabled = is_enabled

\* As long as the generator lives, each event the terminal sent since the
\* registration is yielded, or in the receive being parsed, or under way, once
\* and in order.  However receives and packets fall together, an event is
\* never lost without an exception.
Unread == Cardinality({j \in DOMAIN data : left > 0 /\ StartOf(data, j) + size > pos})
Accounted ==
    LET rest == SubSeq(data, Len(data) - Unread + 1, Len(data)) \o wire
    IN  yielded \o [i \in DOMAIN rest |-> rest[i].id]
EventsAccounted ==
    clean /\ up /\ pc \in Loop => Accounted = [i \in 1..(punched - first) |-> first + i]

\* Where every call came to its regular end, enroll_user says True only when the
\* terminal stored the finger of this call, however its events fall together.
EnrolReported == pc = "idle" /\ result = "done" /\ clean => enrolled

\* An enrolment comes to an end, and a capture does once it is asked to, if its
\* loop has begun by then.
LiveEnds ==
    pc # "idle" /\ (op = "enroll" \/ (end_live_capture /\ pc \in Loop)) ~> pc = "idle"

-----------------------------------------------------------------------------
(* What does not hold.                                                     *)

\* An exception, an event that comes before the reply to the last reg_event, or
\* a generator that is dropped, skips all of it.
AlwaysPutBack == pc = "idle" => sockTimeout = "own" /\ ~registered /\ (was_enabled <=> is_enabled)

\* After a call that failed, the answers and the events of an earlier enrolment
\* may be taken for those of this one: the commands look at no reply number.
\* A capture is dropped, one of its events spoils an enrolment, and the next
\* enrolment reads what that one left behind.  It takes three calls.
DoneIsOwnEnrolment == pc = "idle" /\ result = "done" => enrolled

\* A finger may be stored and not reported, when two events share a receive.
StoredIsReported == pc = "idle" /\ op = "enroll" /\ enrolled => result = "done"

\* A stop that is asked for while the capture is being set up is forgotten.
StopIsKept == [][end_live_capture /\ pc # "idle" => end_live_capture']_lvars
=============================================================================
