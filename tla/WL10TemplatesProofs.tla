------------------------ MODULE WL10TemplatesProofs ------------------------
(***************************************************************************)
(* Proofs about WL10Templates, for every set of users and fingers and any  *)
(* number of parts, calls and faults.  However late answers are: types; a  *)
(* scan begun on a silent line records no answer for another user or       *)
(* finger; and, when nothing is lost, a table is of one fetch only.  When  *)
(* no answer is slower than its timeout: every scan begins on a silent     *)
(* line, a table is that of the call, its buffer is released after at most *)
(* one fault, a certified report is true and a full scan is complete.      *)
(***************************************************************************)
EXTENDS WL10Templates, SequenceTheorems, WellFoundedInduction, TLAPS

-----------------------------------------------------------------------------
(* What a line can bring.  Nothing when it is silent; else the answer to   *)
(* the one request that went out on it, which ends with its closing frame. *)

ScanPcs  == {"probe", "await", "push"}
TablePcs == {"wrap", "drain", "fetch", "awaitChunk", "free", "freeAck"}

\* The frames that can answer the question about user and finger p.
Frames(p) == {P("ok"), P("err")} \cup [k : {"data", "prep", "body"}, of : {p}]

\* A bare acknowledgement, or an answer in a single frame: nothing follows.
Closes(p) == p.k \in {"ok", "err", "data", "announce", "chunk"}
Closed(q) == \E i \in DOMAIN q : Closes(q[i])
Ends(q)   == \A i \in DOMAIN q : Closes(q[i]) => i = Len(q)

Leads(q) == q # <<>> => q[1].k \notin {"body", "ok"}

\* What was received and what is on its way, of one answer made of pieces of S.
Stream(S, q, r) ==
    /\ q \in Seq(S) /\ r \in Seq(S)
    /\ Ends(q) /\ Ends(r)
    /\ Closed(q) => r = <<>>

\* On connection c, with requests d, frames o on their way and frames r
\* received: an answer made of pieces of S is all that can still come.
Owes(S, c, d, o, r) ==
    /\ c = "up" => d = <<>>
    /\ c = "dead" => o = <<>>
    /\ Stream(S, r, o)

\* Or its request was not served yet.
Waits(req, S, c, d, o, r) ==
    \/ c = "up" /\ d = <<req>> /\ o = <<>> /\ r = <<>>
    \/ Owes(S, c, d, o, r)

LeadsLine(o, r) == Leads(r) /\ (r = <<>> => Leads(o))

ToProbe == [cmd |-> "probe", at |-> at]

-----------------------------------------------------------------------------
(* Streams of answer frames.                                               *)

LEMMA EmptyStream ==
    ASSUME NEW S
    PROVE  <<>> \in Seq(S) /\ Ends(<<>>) /\ ~Closed(<<>>) /\ Leads(<<>>)
BY DEF Ends, Closed, Leads

\* The first part of a stream followed by the second.
LEMMA EndsConcat ==
    ASSUME NEW S, NEW q \in Seq(S), NEW r \in Seq(S),
           Ends(q), Ends(r), Closed(q) => r = <<>>
    PROVE  /\ q \o r \in Seq(S) /\ Ends(q \o r)
           /\ Closed(q \o r) => Closed(q) \/ Closed(r)
<1>1. /\ q \o r \in Seq(S) /\ DOMAIN (q \o r) = 1..Len(q) + Len(r) /\ Len(q \o r) = Len(q) + Len(r)
      /\ Len(q) \in Nat /\ Len(r) \in Nat /\ DOMAIN q = 1..Len(q) /\ DOMAIN r = 1..Len(r)
      /\ \A i \in 1..Len(q) + Len(r) : (q \o r)[i] = IF i <= Len(q) THEN q[i] ELSE r[i - Len(q)]
  BY ConcatProperties, LenProperties
<1>2. ASSUME NEW i \in 1..Len(q) + Len(r), Closes((q \o r)[i])
      PROVE  i = Len(q) + Len(r) /\ (Closed(q) \/ Closed(r))
  <2>1. CASE i <= Len(q)
    <3>1. Closes(q[i]) /\ i \in 1..Len(q)
      BY <1>1, <1>2, <2>1
    <3>2. i = Len(q) /\ Closed(q)
      BY <1>1, <3>1 DEF Ends, Closed
    <3>3. Len(r) = 0
      BY <3>2, EmptySeq
    <3>4. QED
      BY <1>1, <3>2, <3>3
  <2>2. CASE i > Len(q)
    <3>1. Closes(r[i - Len(q)]) /\ i - Len(q) \in 1..Len(r)
      BY <1>1, <1>2, <2>2
    <3>2. QED
      BY <1>1, <3>1 DEF Ends, Closed
  <2>3. QED
    BY <1>1, <2>1, <2>2
<1>3. QED
  BY <1>1, <1>2 DEF Ends, Closed

\* A stream that ends with its closing frame, cut into what goes before and after.
LEMMA EndsCut ==
    ASSUME NEW S, NEW q \in Seq(S), NEW n \in 1..Len(q), Ends(q)
    PROVE  LET before == SubSeq(q, 1, n)
               after  == SubSeq(q, n + 1, Len(q))
           IN  /\ before \in Seq(S) /\ after \in Seq(S)
               /\ Len(before) = n /\ before[1] = q[1]
               /\ Ends(before) /\ Ends(after)
               /\ Closed(before) => after = <<>>
<1> DEFINE before == SubSeq(q, 1, n)
           after  == SubSeq(q, n + 1, Len(q))
<1>1. Len(q) \in Nat /\ DOMAIN q = 1..Len(q) /\ \A i \in 1..Len(q) : q[i] \in S
  BY LenProperties, ElementOfSeq
<1>2. n \in Nat /\ 1 \in Int /\ n + 1 \in Int /\ Len(q) \in Int /\ 1 <= n /\ n <= Len(q)
  BY <1>1
<1>3. /\ before \in Seq(S) /\ Len(before) = n
      /\ \A i \in 1..n : before[i] = q[i]
  <2>1. \A i \in 1..n : q[i] \in S
    BY <1>1
  <2>2. /\ before \in Seq(S)
        /\ Len(before) = IF 1 <= n THEN n - 1 + 1 ELSE 0
        /\ \A i \in 1..n - 1 + 1 : before[i] = q[1 + i - 1]
    BY <1>2, <2>1, SubSeqProperties
  <2>3. QED
    BY <1>2, <2>2
<1>4. /\ after \in Seq(S) /\ Len(after) = Len(q) - n
      /\ \A i \in 1..Len(q) - n : after[i] = q[n + i]
  <2>1. \A i \in n + 1..Len(q) : q[i] \in S
    BY <1>1
  <2>2. /\ after \in Seq(S)
        /\ Len(after) = IF n + 1 <= Len(q) THEN Len(q) - (n + 1) + 1 ELSE 0
        /\ \A i \in 1..Len(q) - (n + 1) + 1 : after[i] = q[n + 1 + i - 1]
    BY <1>2, <2>1, SubSeqProperties
  <2>3. QED
    <3> HIDE DEF after
    <3>1. Len(after) = Len(q) - n
      BY <1>2, <2>2
    <3>2. ASSUME NEW i \in 1..Len(q) - n PROVE after[i] = q[n + i]
      <4>1. i \in 1..Len(q) - (n + 1) + 1 /\ n + 1 + i - 1 = n + i
        BY <1>2
      <4>2. after[i] = q[n + 1 + i - 1]
        BY <2>2, <4>1
      <4>3. QED
        BY <4>1, <4>2
    <3>3. QED
      BY <2>2, <3>1, <3>2
<1>5. DOMAIN before = 1..n /\ DOMAIN after = 1..Len(q) - n
  BY <1>3, <1>4, LenProperties
<1> HIDE DEF before, after
<1>6. ASSUME NEW i \in 1..n, Closes(before[i]) PROVE i = n /\ after = <<>>
  <2>1. Closes(q[i]) /\ i \in 1..Len(q)
    BY <1>2, <1>3, <1>6
  <2>2. i = Len(q)
    BY <1>1, <2>1 DEF Ends
  <2>3. i = n /\ n = Len(q)
    BY <1>2, <2>2
  <2>4. Len(after) = 0
    BY <1>2, <1>4, <2>3
  <2>5. QED
    BY <1>4, <2>3, <2>4, EmptySeq
<1>7. ASSUME NEW i \in 1..Len(q) - n, Closes(after[i]) PROVE i = Len(q) - n
  <2>1. Closes(q[n + i]) /\ n + i \in 1..Len(q)
    BY <1>2, <1>4, <1>7
  <2>2. n + i = Len(q)
    BY <1>1, <2>1 DEF Ends
  <2>3. QED
    BY <1>2, <2>2
<1>8. Ends(before) /\ Ends(after) /\ (Closed(before) => after = <<>>)
  BY <1>3, <1>4, <1>5, <1>6, <1>7 DEF Ends, Closed
<1>9. before[1] = q[1]
  BY <1>2, <1>3
<1>10. QED
  BY <1>3, <1>4, <1>8, <1>9 DEF before, after

\* Part of what is on its way arrives.
LEMMA StreamMoves ==
    ASSUME NEW S, NEW q, NEW r, Stream(S, q, r), NEW n \in 1..Len(r)
    PROVE  LET before == SubSeq(r, 1, n)
               after  == SubSeq(r, n + 1, Len(r))
           IN  /\ Stream(S, q \o before, after)
               /\ q \o before # <<>> /\ r # <<>>
               /\ Leads(q) /\ (q = <<>> => Leads(r)) => Leads(q \o before)
<1> DEFINE before == SubSeq(r, 1, n)
           after  == SubSeq(r, n + 1, Len(r))
<1>1. q \in Seq(S) /\ r \in Seq(S) /\ Ends(q) /\ Ends(r) /\ (Closed(q) => r = <<>>)
  BY DEF Stream
<1>2. /\ before \in Seq(S) /\ after \in Seq(S)
      /\ Len(before) = n /\ before[1] = r[1]
      /\ Ends(before) /\ Ends(after)
      /\ Closed(before) => after = <<>>
  BY <1>1, EndsCut
<1> HIDE DEF before, after
<1>3. r # <<>> /\ ~Closed(q) /\ before # <<>>
  <2>1. Len(r) # 0 /\ Len(before) # 0
    BY <1>1, <1>2, LenProperties
  <2>2. QED
    BY <1>1, <2>1, EmptySeq
<1>4. /\ q \o before \in Seq(S) /\ Ends(q \o before)
      /\ Closed(q \o before) => Closed(before)
  BY <1>1, <1>2, <1>3, EndsConcat
<1>5. Stream(S, q \o before, after)
  BY <1>2, <1>4 DEF Stream
<1>6. /\ Len(q) \in Nat /\ Len(before) \in Nat \ {0}
      /\ Len(q \o before) = Len(q) + Len(before)
      /\ \A i \in 1..Len(q) + Len(before) :
            (q \o before)[i] = IF i <= Len(q) THEN q[i] ELSE before[i - Len(q)]
  BY <1>1, <1>2, <1>3, ConcatProperties, LenProperties, EmptySeq
<1>7. q \o before # <<>>
  BY <1>6, EmptySeq
<1>8. ASSUME Leads(q), q = <<>> => Leads(r)
      PROVE  Leads(q \o before)
  <2>1. CASE q = <<>>
    <3>1. Len(q) = 0
      BY <2>1, EmptySeq
    <3>2. (q \o before)[1] = before[1]
      BY <1>6, <3>1
    <3>3. QED
      BY <1>2, <1>3, <1>8, <2>1, <3>2 DEF Leads
  <2>2. CASE q # <<>>
    <3>1. Len(q) \in Nat \ {0}
      BY <1>1, <2>2, EmptySeq
    <3>2. (q \o before)[1] = q[1]
      BY <1>6, <3>1
    <3>3. QED
      BY <1>8, <2>2, <3>2 DEF Leads
  <2>3. QED
    BY <2>1, <2>2
<1>9. QED
  BY <1>3, <1>5, <1>7, <1>8 DEF before, after

\* The terminal answers the question it was asked, with one closing frame.
LEMMA AnswerType ==
    ASSUME NEW p, NEW req, req = [cmd |-> "probe", at |-> p]
    PROVE  Answer(req) \in Seq(Frames(p)) /\ Ends(Answer(req)) /\ Leads(Answer(req))
<1> DEFINE one(k) == [k |-> k, of |-> p]
<1>1. /\ P("ok") \in Frames(p) /\ P("err") \in Frames(p)
      /\ one("data") \in Frames(p) /\ one("prep") \in Frames(p) /\ one("body") \in Frames(p)
  BY DEF Frames
<1>2. /\ Closes(P("ok")) /\ Closes(P("err")) /\ Closes(one("data"))
      /\ ~Closes(one("prep")) /\ ~Closes(one("body"))
      /\ \A x \in {P("err"), one("data"), one("prep")} : x.k \notin {"body", "ok"}
  BY DEF Closes, P
<1>3. Answer(req) \in {<<P("err")>>, <<one("data")>>, <<one("prep"), one("body"), P("ok")>>}
  <2>1. req.cmd = "probe" /\ req.at = p
    OBVIOUS
  <2>2. /\ req.cmd # "wrapped" /\ req.cmd # "chunk"
        /\ "probe" # "wrapped" /\ "probe" # "chunk"
    BY <2>1
  <2>3. Answer(req) = IF stuck \/ buffer \/ req.at \notin tmpl THEN <<P("err")>>
                      ELSE IF shape = "data" THEN <<[k |-> "data", of |-> req.at]>>
                      ELSE <<[k |-> "prep", of |-> req.at], [k |-> "body", of |-> req.at], P("ok")>>
    BY <2>1, <2>2, Zenon DEF Answer, Pushed
  <2>4. QED
    BY <2>1, <2>3, Zenon
<1>4. ASSUME NEW x \in Frames(p), NEW y \in Frames(p), NEW z \in Frames(p),
             ~Closes(x), ~Closes(y), x.k \notin {"body", "ok"}
      PROVE  <<x, y, z>> \in Seq(Frames(p)) /\ Ends(<<x, y, z>>) /\ Leads(<<x, y, z>>)
  <2> DEFINE q == <<x, y, z>>
  <2>1. q \in Seq(Frames(p)) /\ Len(q) = 3 /\ DOMAIN q = 1..3 /\ q[1] = x /\ q[2] = y /\ q[3] = z
    BY <1>4
  <2>2. QED
    BY <1>4, <2>1 DEF Ends, Leads
<1>5. ASSUME NEW x \in Frames(p), x.k \notin {"body", "ok"}
      PROVE  <<x>> \in Seq(Frames(p)) /\ Ends(<<x>>) /\ Leads(<<x>>)
  <2> DEFINE q == <<x>>
  <2>1. q \in Seq(Frames(p)) /\ Len(q) = 1 /\ DOMAIN q = 1..1 /\ q[1] = x
    BY <1>5
  <2>2. QED
    BY <1>5, <2>1 DEF Ends, Leads
<1> HIDE DEF one
<1>6. QED
  BY <1>1, <1>2, <1>3, <1>4, <1>5

-----------------------------------------------------------------------------
(* Types.  A scan only ever asks about users that are not reserved, and a  *)
(* fetch only about a part that it lacks.                                  *)

Wanted == Users \X Fids

TypeInv ==
    /\ TTypeOK
    /\ pc \in ScanPcs => at \in Wanted
    /\ pc \in {"wrap", "drain"} => parts = <<>>
    /\ pc \in {"fetch", "awaitChunk"} => Len(parts) < Chunks

LEMMA LowestIn ==
    ASSUME NEW S \in SUBSET Nat, S # {}
    PROVE  Lowest(S) \in S /\ \A v \in S : Lowest(S) <= v
<1> DEFINE Less == OpToRel(<, Nat)
<1>1. PICK u \in S : \A v \in S : ~ (<<v, u>> \in Less)
  <2> HIDE DEF Less
  <2>1. IsWellFoundedOn(Less, Nat)
    BY NatLessThanWellFounded DEF Less
  <2>2. QED
    BY <2>1, WFMin
<1>2. ASSUME NEW v \in S PROVE u <= v
  <2>1. ~ (v < u)
    BY <1>1 DEF OpToRel
  <2>2. QED
    BY <2>1
<1>3. QED
  BY <1>2 DEF Lowest

LEMMA UsersType == Users \subseteq Nat /\ Users # {} /\ Wanted \subseteq Places
BY UidsAssumption DEF Users, Wanted, Places

\* The first place a scan asks about.
LEMMA FirstPlace ==
    ASSUME NEW S \in SUBSET Users, S # {}
    PROVE  Lowest(S) \in S /\ <<Lowest(S), 0>> \in Wanted
<1>1. S \in SUBSET Nat
  BY UsersType
<1>2. Lowest(S) \in Users /\ Lowest(S) \in S
  BY <1>1, LowestIn
<1>3. 0 \in Fids
  BY FidsAssumption DEF Fids
<1>4. QED
  BY <1>2, <1>3 DEF Wanted

LEMMA PieceTypes ==
    /\ \A kind \in {"ok", "err", "announce", "setting", "tail"} : P(kind) \in Piece
    /\ \A kind \in {"data", "prep", "body"}, p \in Places \cup {<<>>} : [k |-> kind, of |-> p] \in Piece
    /\ \A n \in 1..Chunks, c \in Nat : [k |-> "chunk", i |-> n, call |-> c] \in Chunk
    /\ Chunk \subseteq Piece
BY DEF P, Piece, Chunk

LEMMA PieceOf ==
    ASSUME NEW p \in Piece
    PROVE  /\ p.k \in {"data", "prep", "body"} => p.of \in Places \cup {<<>>}
           /\ p.k = "chunk" => p \in Chunk
           /\ p.k \in {"ok", "err", "announce", "setting", "tail", "data", "prep", "body", "chunk"}
BY DEF Piece, Chunk

LEMMA RequestTypes ==
    /\ \A p \in Places : [cmd |-> "probe", at |-> p] \in Request
    /\ \A n \in 1..Chunks, c \in Nat : [cmd |-> "chunk", i |-> n, call |-> c] \in Request
    /\ \A c \in {"wrapped", "free", "users", "setting"} : [cmd |-> c] \in Request
BY DEF Request

LEMMA RequestOf ==
    ASSUME NEW req \in Request
    PROVE  /\ req.cmd \in {"probe", "wrapped", "chunk", "free", "users", "setting"}
           /\ req.cmd = "probe" => req.at \in Places
           /\ req.cmd = "chunk" => req.i \in 1..Chunks /\ req.call \in Nat
BY DEF Request

\* Part of a sequence.
LEMMA PartType ==
    ASSUME NEW S, NEW q \in Seq(S), NEW m \in Nat \ {0}, NEW n \in Int, n <= Len(q)
    PROVE  SubSeq(q, m, n) \in Seq(S)
<1>1. \A i \in m..n : q[i] \in S
  BY ElementOfSeq, LenProperties
<1>2. QED
  BY <1>1, SubSeqProperties

LEMMA OneType ==
    ASSUME NEW S, NEW x \in S
    PROVE  <<x>> \in Seq(S) /\ Len(<<x>>) = 1 /\ <<x>>[1] = x
OBVIOUS

LEMMA AnswerIsPieces ==
    ASSUME NEW req \in Request
    PROVE  Answer(req) \in Seq(Piece)
<1> DEFINE pushed == <<[k |-> "prep", of |-> req.at], [k |-> "body", of |-> req.at], P("ok")>>
           data   == <<[k |-> "data", of |-> req.at]>>
           part   == <<[k |-> "chunk", i |-> req.i, call |-> req.call]>>
<1>1. \A kind \in {"ok", "err", "announce", "setting"} : <<P(kind)>> \in Seq(Piece)
  BY PieceTypes, OneType
<1>2. CASE req.cmd = "probe"
  <2>1. [k |-> "prep", of |-> req.at] \in Piece /\ [k |-> "body", of |-> req.at] \in Piece
        /\ [k |-> "data", of |-> req.at] \in Piece /\ P("ok") \in Piece
    BY <1>2, RequestOf, PieceTypes
  <2>2. data \in Seq(Piece) /\ pushed \in Seq(Piece)
    BY <2>1
  <2>3. Answer(req) \in {<<P("err")>>, data, pushed}
    <3> HIDE DEF data, pushed
    <3>1. Answer(req) = IF stuck \/ buffer \/ req.at \notin tmpl THEN <<P("err")>>
                        ELSE IF shape = "data" THEN data ELSE pushed
      BY <1>2, Zenon DEF Answer, Pushed, data, pushed
    <3>2. QED
      BY <3>1
  <2>4. QED
    BY <1>1, <2>2, <2>3
<1>3. CASE req.cmd = "wrapped"
  <2>1. Answer(req) = <<P("announce")>>
    <3>1. req.cmd # "probe" /\ req.cmd # "users" /\ req.cmd # "setting"
      BY <1>3
    <3>2. QED
      BY <1>3, <3>1, Zenon DEF Answer
  <2>2. QED
    BY <1>1, <2>1
<1>4. CASE req.cmd = "chunk"
  <2>1. [k |-> "chunk", i |-> req.i, call |-> req.call] \in Piece
    BY <1>4, RequestOf, PieceTypes
  <2>2. part \in Seq(Piece)
    BY <2>1, OneType
  <2>3. Answer(req) \in {part, <<P("err")>>}
    <3> HIDE DEF part
    <3>1. Answer(req) = IF buffer THEN part ELSE <<P("err")>>
      <4>1. /\ req.cmd # "probe" /\ req.cmd # "wrapped"
            /\ req.cmd # "users" /\ req.cmd # "setting"
        BY <1>4
      <4>2. QED
        BY <1>4, <4>1, Zenon DEF Answer, part
    <3>2. QED
      BY <3>1
  <2>4. QED
    BY <1>1, <2>2, <2>3
<1>5. CASE req.cmd = "free"
  <2>1. Answer(req) = <<P("ok")>>
    <3>1. /\ req.cmd # "probe" /\ req.cmd # "wrapped" /\ req.cmd # "chunk"
          /\ req.cmd # "users" /\ req.cmd # "setting"
      BY <1>5
    <3>2. QED
      BY <3>1, Zenon DEF Answer
  <2>2. QED
    BY <1>1, <2>1
<1>6. CASE req.cmd = "users"
  <2> DEFINE table == <<[k |-> "prep", of |-> <<>>], [k |-> "body", of |-> <<>>], P("ok")>>
  <2>1. [k |-> "prep", of |-> <<>>] \in Piece /\ [k |-> "body", of |-> <<>>] \in Piece
        /\ P("ok") \in Piece
    BY PieceTypes
  <2>2. table \in Seq(Piece)
    BY <2>1
  <2>3. Answer(req) = table
    <3>1. req.cmd # "probe"
      BY <1>6
    <3>2. QED
      BY <1>6, <3>1, Zenon DEF Answer, Pushed
  <2>4. QED
    BY <2>2, <2>3
<1>7. CASE req.cmd = "setting"
  <2>1. Answer(req) = <<P("setting")>>
    <3>1. req.cmd # "probe" /\ req.cmd # "users"
      BY <1>7
    <3>2. QED
      BY <1>7, <3>1, Zenon DEF Answer
  <2>2. QED
    BY <1>1, <2>1
<1>8. QED
  BY <1>2, <1>3, <1>4, <1>5, <1>6, <1>7, RequestOf

\* What the terminal and the network do to the types of the stream.
LEMMA OutsideTypes ==
    ASSUME TypeInv, Outside
    PROVE  TypeInv'
<1>1. UNCHANGED <<tmpl, stuck, shape, cliVars>>
  BY DEF Outside, Serve, ServeMute, Refuse, Break, Deliver, TakeRequest, devVars
<1>2. /\ toDev \in Seq(Request) /\ devOut \in Seq(Piece) /\ toCli \in Seq(Piece)
      /\ buffer \in BOOLEAN /\ conn \in {"up", "dead"} /\ faults \in Nat
  BY DEF TypeInv, TTypeOK
<1>3. toDev # <<>> => Head(toDev) \in Request /\ Tail(toDev) \in Seq(Request)
  BY <1>2, HeadTailProperties
<1>4. <<>> \in Seq(Piece) /\ P("err") \in Piece
  BY PieceTypes, EmptySeq
<1>5. /\ toDev' \in Seq(Request) /\ devOut' \in Seq(Piece) /\ toCli' \in Seq(Piece)
      /\ conn' \in {"up", "dead"} /\ faults' \in Nat
  <2>1. CASE Serve
    <3>1. Answer(Head(toDev)) \in Seq(Piece) /\ Tail(toDev) \in Seq(Request)
      BY <1>3, <2>1, AnswerIsPieces DEF Serve, TakeRequest
    <3>2. devOut \o Answer(Head(toDev)) \in Seq(Piece)
      BY <1>2, <3>1, ConcatProperties
    <3>3. QED
      BY <1>2, <2>1, <3>1, <3>2 DEF Serve, TakeRequest
  <2>2. CASE ServeMute
    BY <1>2, <1>3, <2>2 DEF ServeMute, TakeRequest, Fault
  <2>3. CASE Refuse
    <3>1. Append(devOut, P("err")) \in Seq(Piece)
      BY <1>2, <1>4, AppendProperties
    <3>2. QED
      BY <1>2, <1>3, <2>3, <3>1 DEF Refuse, Fault
  <2>4. CASE Break
    <3>1. PICK n \in 0..Len(toDev) : toDev' = SubSeq(toDev, 1, n)
      BY <2>4 DEF Break
    <3>2. Len(toDev) \in Nat
      BY <1>2, LenProperties
    <3>3. n \in Int /\ n <= Len(toDev)
      BY <3>1, <3>2
    <3>4. SubSeq(toDev, 1, n) \in Seq(Request)
      BY <1>2, <3>3, PartType
    <3>5. QED
      <4>1. toDev' \in Seq(Request)
        BY <3>1, <3>4
      <4>2. /\ devOut' = <<>> /\ conn' = "dead" /\ faults' \in Nat
            /\ toCli' = toCli \/ toCli' = <<>>
        BY <1>2, <2>4 DEF Break, Fault
      <4>3. QED
        BY <1>2, <1>4, <4>1, <4>2
  <2>5. CASE \E n \in 1..Len(devOut) : Deliver(n)
    <3>1. PICK n \in 1..Len(devOut) : Deliver(n)
      BY <2>5
    <3>2. Len(devOut) \in Nat
      BY <1>2, LenProperties
    <3>3. n \in Int /\ n <= Len(devOut) /\ n + 1 \in Nat \ {0} /\ Len(devOut) \in Int /\ Len(devOut) <= Len(devOut)
      BY <3>1, <3>2
    <3>4. SubSeq(devOut, 1, n) \in Seq(Piece)
      BY <1>2, <3>3, PartType
    <3>5. SubSeq(devOut, n + 1, Len(devOut)) \in Seq(Piece)
      BY <1>2, <3>3, PartType
    <3>6. toCli \o SubSeq(devOut, 1, n) \in Seq(Piece)
      BY <1>2, <3>4, ConcatProperties
    <3>7. QED
      BY <1>2, <3>1, <3>5, <3>6 DEF Deliver
  <2>6. QED
    BY <2>1, <2>2, <2>3, <2>4, <2>5 DEF Outside
<1>6. buffer' \in BOOLEAN
  <2>1. CASE Serve \/ ServeMute
    BY <1>2, <2>1 DEF Serve, ServeMute, TakeRequest
  <2>2. CASE Refuse
    BY <1>2, <2>2 DEF Refuse, devVars
  <2>3. CASE Break \/ \E n \in 1..Len(devOut) : Deliver(n)
    BY <1>2, <2>3 DEF Break, Deliver, devVars
  <2>4. QED
    BY <2>1, <2>2, <2>3 DEF Outside
<1>7. QED
  BY <1>1, <1>5, <1>6 DEF TypeInv, TTypeOK, cliVars, scanVars, tabVars

LEMMA FunctionIsSeq ==
    ASSUME NEW S, NEW n \in Nat, NEW f \in [1..n -> S]
    PROVE  f \in Seq(S)
OBVIOUS

\* The requests that a caller gave up on.
LEMMA LateType ==
    ASSUME NEW cmds, cmds \subseteq {"wrapped", "free", "users", "setting"}, NEW n \in Nat,
           NEW q \in Late(cmds, n)
    PROVE  /\ q \in Seq([cmd : cmds]) /\ q \in Seq(Request)
           /\ Timely => q = <<>>
<1>1. <<>> \in Seq([cmd : cmds]) /\ [cmd : cmds] \subseteq Request
  BY EmptySeq DEF Request
<1>2. CASE Timely
  BY <1>1, <1>2, EmptySeq DEF Late
<1>3. CASE ~Timely
  <2>1. PICK m \in 0..n : q \in [1..m -> [cmd : cmds]]
    BY <1>3 DEF Late
  <2>2. m \in Nat
    OBVIOUS
  <2>3. q \in Seq([cmd : cmds]) /\ q \in [1..m -> Request]
    BY <1>1, <2>1, <2>2, FunctionIsSeq
  <2>4. QED
    BY <1>3, <2>2, <2>3, FunctionIsSeq
<1>4. QED
  BY <1>2, <1>3

\* What a users read leaves of the line.
LEMMA UsersReadTypes ==
    ASSUME TypeInv, TableComes \/ TableFails
    PROVE  /\ toDev' \in Seq(Request) /\ devOut' \in Seq(Piece) /\ toCli' \in Seq(Piece)
           /\ conn' \in {"up", "dead"} /\ isConnect' \in BOOLEAN /\ buffer' \in BOOLEAN
           /\ faults' \in Nat
<1>1. /\ toDev \in Seq(Request) /\ devOut \in Seq(Piece) /\ toCli \in Seq(Piece)
      /\ conn \in {"up", "dead"} /\ isConnect \in BOOLEAN /\ buffer \in BOOLEAN /\ faults \in Nat
      /\ MaxLate \in Nat
  BY TimelyAssumption DEF TypeInv, TTypeOK
<1>2. <<>> \in Seq(Request) /\ <<>> \in Seq(Piece) /\ <<P("ok")>> \in Seq(Piece)
  BY PieceTypes, OneType, EmptySeq
<1>3. /\ \A q \in Late({"users", "free"}, MaxLate) : q \in Seq(Request)
      /\ \A q \in Late({"setting", "users", "free"}, MaxLate) : q \in Seq(Request)
  BY <1>1, LateType
<1>4. CASE TableComes
  BY <1>1, <1>2, <1>3, <1>4 DEF TableComes
<1>5. CASE TableFails
  <2>1. buffer' \in BOOLEAN
    BY <1>1, <1>5 DEF TableFails
  <2>2. CASE /\ Adversity \/ (conn = "dead" /\ UNCHANGED faults)
             /\ toCli' \in IF conn = "up" THEN {<<>>} ELSE {<<>>, toCli}
             /\ \E late \in Late({"users", "free"}, MaxLate) :
                   toDev' = IF conn = "up" THEN toDev \o late ELSE toDev
             /\ UNCHANGED <<devOut, conn, isConnect>>
    <3>1. PICK late \in Late({"users", "free"}, MaxLate) :
             toDev' = IF conn = "up" THEN toDev \o late ELSE toDev
      BY <2>2
    <3>2. toDev \o late \in Seq(Request)
      BY <1>1, <1>3, <3>1, ConcatProperties
    <3>3. faults' \in Nat
      BY <1>1, <2>2 DEF Adversity, Fault
    <3>4. toDev' \in Seq(Request) /\ toCli' \in Seq(Piece)
      BY <1>1, <1>2, <2>2, <3>1, <3>2
    <3>5. isConnect' \in BOOLEAN
      BY <1>1, <2>2
    <3>6. QED
      BY <1>1, <2>1, <2>2, <3>3, <3>4, <3>5
  <2>3. CASE /\ Adversity
             /\ conn' = "up" /\ isConnect' = TRUE
             /\ toCli' = <<>> /\ devOut' = <<>>
             /\ toDev' \in Late({"setting", "users", "free"}, MaxLate)
    BY <1>1, <1>2, <1>3, <2>1, <2>3 DEF Adversity, Fault
  <2>4. CASE /\ Fault
             /\ conn' = "dead" /\ isConnect' = FALSE
             /\ toCli' = <<>> /\ devOut' = <<>> /\ toDev' = <<>>
    <3>1. faults' \in Nat
      BY <1>1, <2>4 DEF Fault
    <3>2. isConnect' \in BOOLEAN
      BY <2>4
    <3>3. QED
      BY <1>2, <2>1, <2>4, <3>1, <3>2
  <2>5. QED
    BY <1>5, <2>2, <2>3, <2>4 DEF TableFails
<1>6. QED
  BY <1>4, <1>5

LEMMA CallTypes ==
    ASSUME TypeInv, Calls
    PROVE  TypeInv'
<1> USE DEF TypeInv, TTypeOK
<1>e. <<>> \in Seq(Request) /\ <<>> \in Seq(Piece) /\ <<>> \in Seq(Chunk)
  BY EmptySeq
<1>1. CASE \E o \in Scans : StartScan(o)
  <2>1. PICK o \in Scans : StartScan(o)
    BY <1>1
  <2>2. <<Lowest(Users), 0>> \in Wanted /\ <<Lowest(Users), 0>> \in Places
    BY UsersType, FirstPlace
  <2>3. /\ at' \in Wanted /\ at' \in Places /\ found' = {} /\ pc' \in {"probe", "idle"}
        /\ op' \in AllOps /\ callNo' \in Nat /\ result' \in {"none", "error"}
    BY <2>1, <2>2 DEF StartScan, NewCall, AllOps, Return
  <2>4. owed' \in BOOLEAN
    BY <2>1 DEF StartScan
  <2>5. UNCHANGED <<tmpl, stuck, shape, tabVars, got, streamSafe>>
    BY <2>1 DEF StartScan
  <2>6. /\ toDev' \in Seq(Request) /\ devOut' \in Seq(Piece) /\ toCli' \in Seq(Piece)
        /\ conn' \in {"up", "dead"} /\ isConnect' \in BOOLEAN /\ buffer' \in BOOLEAN
        /\ faults' \in Nat
    <3>1. CASE UNCHANGED <<netVars, buffer, isConnect>>
      BY <3>1 DEF netVars
    <3>2. CASE TableComes \/ TableFails
      BY <3>2, UsersReadTypes
    <3>3. QED
      BY <2>1, <3>1, <3>2 DEF StartScan
  <2>7. QED
    BY <2>3, <2>4, <2>5, <2>6 DEF tabVars, Pcs
<1>2. CASE StartTemplates
  <2>1. /\ pc' = "wrap" /\ raws' = 1 /\ parts' = <<>> /\ result' = "none"
        /\ op' = "templates" /\ callNo' \in Nat
        /\ UNCHANGED <<devVars, netVars, scanVars, got, streamSafe, isConnect>>
    BY <1>2 DEF StartTemplates, NewCall
  <2>2. 1 \in 1..RawAttempts
    BY CountsAssumption
  <2>3. QED
    BY <1>e, <2>1, <2>2 DEF devVars, netVars, scanVars, Pcs, AllOps, ScanPcs
<1>3. CASE (Reconnect(TRUE) /\ UNCHANGED faults) \/ (Reconnect(FALSE) /\ Fault)
  <2>1. /\ devOut' = <<>> /\ toCli' = <<>>
        /\ conn' \in {"up", "dead"} /\ pc' = "idle" /\ result' \in {"ok", "error"}
        /\ op' = "connect" /\ callNo' \in Nat /\ faults' \in Nat
        /\ UNCHANGED <<tmpl, stuck, shape, scanVars, tabVars, got, streamSafe>>
    <3>1. CASE Reconnect(TRUE) /\ UNCHANGED faults
      BY <3>1 DEF Reconnect, NewCall, Return
    <3>2. CASE Reconnect(FALSE) /\ Fault
      BY <3>2 DEF Reconnect, NewCall, Return, Fault
    <3>3. QED
      BY <1>3, <3>1, <3>2
  <2>2. isConnect' \in BOOLEAN /\ buffer' \in BOOLEAN
    BY <1>3 DEF Reconnect
  <2>3. toDev' \in Seq(Request)
    <3>1. toDev' \in Late({"setting"}, 2) \/ toDev' = <<>>
      BY <1>3 DEF Reconnect
    <3>2. QED
      BY <1>e, <3>1, LateType
  <2>4. QED
    BY <1>e, <2>1, <2>2, <2>3 DEF scanVars, tabVars, Pcs, AllOps, ScanPcs
<1>4. CASE GetUsers
  <2>1. /\ pc' = "idle" /\ result' \in {"ok", "error"} /\ op' = "users" /\ callNo' \in Nat
        /\ UNCHANGED <<tmpl, stuck, shape, scanVars, tabVars, got, streamSafe>>
    BY <1>4 DEF GetUsers, NewCall, Return
  <2>2. TableComes \/ TableFails
    BY <1>4 DEF GetUsers
  <2>3. QED
    BY <2>1, <2>2, UsersReadTypes DEF scanVars, tabVars, Pcs, AllOps, ScanPcs
<1>5. QED
  BY <1>1, <1>2, <1>3, <1>4 DEF Calls

Found == [at : Places, of : Places \cup {<<>>}]

LEMMA AdvanceTypes ==
    ASSUME TypeInv, pc \in ScanPcs, NEW f, f \subseteq Found, Advance(f)
    PROVE  /\ pc' \in {"probe", "idle"} /\ result' \in {"none", "ok", "error"}
           /\ at' \in Wanted /\ found' \subseteq Found /\ streamSafe' \in BOOLEAN
           /\ owed' = owed
<1> DEFINE next == <<at[1], at[2] + 1>>
           over == Enough(f) \/ next \notin Places
           last == After(at[1]) = {}
<1>1. at \in Wanted /\ result \in {"none", "ok", "error"} /\ streamSafe \in BOOLEAN
  BY DEF TypeInv, TTypeOK
<1>2. at[1] \in Users
  BY <1>1 DEF Wanted
<1>3. next \in Places => next \in Wanted
  BY <1>2 DEF Places, Wanted
<1>4. ~last => <<Lowest(After(at[1])), 0>> \in Wanted
  <2>1. After(at[1]) \in SUBSET Users
    BY DEF After
  <2>2. QED
    BY <2>1, FirstPlace
<1>5. found' = f /\ streamSafe' = streamSafe /\ owed' = owed
  BY DEF Advance
<1>6. \/ ~over /\ at' = next /\ pc' = "probe" /\ result' = result
      \/ ~last /\ at' = <<Lowest(After(at[1])), 0>> /\ pc' = "probe" /\ result' = result
      \/ at' = at /\ pc' = "idle" /\ result' \in {"ok", "error"}
  BY DEF Advance, Return
<1>7. ~over => next \in Places
  OBVIOUS
<1> HIDE DEF next, over, last
<1>8. QED
  BY <1>1, <1>3, <1>4, <1>5, <1>6, <1>7

LEMMA PresentTypes ==
    ASSUME TypeInv, pc \in ScanPcs, NEW p \in Piece, p.k \in {"data", "body", "chunk"}, Present(p)
    PROVE  /\ pc' \in {"probe", "idle"} /\ result' \in {"none", "ok", "error"}
           /\ at' \in Wanted /\ found' \subseteq Found /\ streamSafe' \in BOOLEAN
           /\ owed' = owed
<1> DEFINE x == [at |-> at, of |-> IF p.k = "chunk" THEN <<>> ELSE p.of]
<1>1. (IF p.k = "chunk" THEN <<>> ELSE p.of) \in Places \cup {<<>>}
  BY PieceOf
<1>2. at \in Places
  BY UsersType DEF TypeInv
<1>3. x \in Found
  BY <1>1, <1>2 DEF Found
<1>4. found \subseteq Found
  BY DEF TypeInv, TTypeOK, Found
<1>5. found \cup {x} \subseteq Found
  BY <1>3, <1>4
<1>6. Advance(found \cup {x})
  BY DEF Present
<1> HIDE DEF x
<1>7. QED
  BY <1>5, <1>6, AdvanceTypes

LEMMA ScanTypes ==
    ASSUME TypeInv, ScanSteps
    PROVE  TypeInv'
<1> DEFINE Outcome == /\ pc' \in {"idle"} \cup ScanPcs /\ result' \in {"none", "ok", "error"}
                      /\ at' \in Places \cup {<<0, 0>>} /\ (pc' \in ScanPcs => at' \in Wanted)
                      /\ found' \subseteq Found /\ streamSafe' \in BOOLEAN /\ owed' = owed
           Net == toDev' \in Seq(Request) /\ toCli' \in Seq(Piece) /\ got' \in Seq(Piece)
<1> USE DEF ScanPcs
<1>1. /\ pc \in ScanPcs /\ at \in Wanted /\ at \in Places /\ found \subseteq Found
      /\ result \in {"none", "ok", "error"} /\ streamSafe \in BOOLEAN
  <2>1. pc \in ScanPcs
    BY DEF ScanSteps, ProbeRefused, Probe, ProbeSendError, Await, AwaitCut, AwaitQuiet, PushRecv,
           PushQuiet, ScanPcs
  <2>2. QED
    BY <2>1, UsersType DEF TypeInv, TTypeOK, Found
<1>2. toDev \in Seq(Request) /\ toCli \in Seq(Piece) /\ got \in Seq(Piece) /\ devOut \in Seq(Piece)
  BY DEF TypeInv, TTypeOK
<1>3. UNCHANGED <<devVars, devOut, conn, faults, op, callNo, tabVars, isConnect>>
  BY DEF ScanSteps, ProbeRefused, Probe, ProbeSendError, Await, AwaitCut, AwaitQuiet, PushRecv,
         PushQuiet, netVars
<1>4. (pc' \in {"probe", "idle"} /\ result' \in {"none", "ok", "error"}
        /\ at' \in Wanted /\ found' \subseteq Found /\ streamSafe' \in BOOLEAN
        /\ owed' = owed) => Outcome
  BY UsersType DEF Pcs
<1>5. ProbeFails => Outcome
  BY <1>1 DEF ProbeFails, Return, scanVars, Pcs, ScanPcs
<1>6. <<>> \in Seq(Piece) /\ <<P("tail")>> \in Seq(Piece)
  BY PieceTypes, OneType, EmptySeq
<1>7. Outcome /\ Net
  <2>1. CASE ProbeRefused
    BY <1>1, <1>2, <2>1 DEF ProbeRefused, Return, scanVars, netVars, Pcs, ScanPcs
  <2>2. CASE Probe
    <3> DEFINE req == [cmd |-> "probe", at |-> at]
    <3>1. req \in Request
      BY <1>1, RequestTypes
    <3>2. Append(toDev, req) \in Seq(Request)
      BY <1>2, <3>1, AppendProperties
    <3>3. toDev' \in Seq(Request)
      BY <1>2, <2>2, <3>2 DEF Probe, SendTo
    <3>4. pc' = "await" /\ UNCHANGED <<toCli, got, scanVars, streamSafe, result>>
      BY <2>2 DEF Probe
    <3>5. QED
      BY <1>1, <1>2, <3>3, <3>4 DEF scanVars, Pcs
  <2>3. CASE ProbeSendError \/ AwaitQuiet
    <3>1. ProbeFails /\ UNCHANGED <<netVars, got>>
      BY <2>3 DEF ProbeSendError, AwaitQuiet
    <3>2. QED
      BY <1>2, <1>5, <3>1 DEF netVars
  <2>4. CASE AwaitCut
    <3>1. ProbeFails /\ UNCHANGED <<toDev, got>> /\ toCli' = <<P("tail")>>
      BY <2>4 DEF AwaitCut
    <3>2. QED
      BY <1>2, <1>5, <1>6, <3>1
  <2>5. CASE PushQuiet
    <3>1. ProbeFails /\ UNCHANGED netVars /\ got' = <<>>
      BY <2>5 DEF PushQuiet
    <3>2. QED
      BY <1>2, <1>5, <1>6, <3>1 DEF netVars
  <2>6. CASE Await
    <3> DEFINE first == Head(toCli)
    <3>1. first \in Piece /\ toCli' = <<>> /\ toDev' = toDev
      BY <1>2, <2>6, HeadTailProperties DEF Await
    <3>2. got' = got \/ got' = <<>>
      BY <2>6 DEF Await
    <3>3. Net
      BY <1>2, <1>6, <3>1, <3>2
    <3> HIDE DEF first, Net
    <3>4. CASE Absent
      BY <1>1, <1>4, <3>3, <3>4, AdvanceTypes DEF Absent
    <3>5. CASE first.k \in {"data", "body", "chunk"} /\ Present(first)
      BY <1>1, <1>4, <3>1, <3>3, <3>5, PresentTypes
    <3>6. CASE pc' = "push" /\ UNCHANGED <<scanVars, streamSafe, result>>
      BY <1>1, <3>3, <3>6 DEF scanVars, Pcs
    <3>7. CASE ProbeFails
      BY <1>5, <3>3, <3>7
    <3>8. QED
      BY <2>6, <3>4, <3>5, <3>6, <3>7 DEF Await, first
  <2>7. CASE PushRecv
    <3> DEFINE all == got \o toCli
    <3>1. all \in Seq(Piece)
      BY <1>2, ConcatProperties
    <3>2. toCli' = <<>> /\ toDev' = toDev /\ (got' = all \/ got' = <<>>)
      BY <2>7 DEF PushRecv
    <3>3. Net
      BY <1>2, <1>6, <3>1, <3>2
    <3> HIDE DEF all, Net
    <3>4. CASE \E i \in DOMAIN all : IsTemplate(all, i) /\ Present(all[i])
      <4>1. PICK i \in DOMAIN all : IsTemplate(all, i) /\ Present(all[i])
        BY <3>4
      <4>2. all[i] \in Piece /\ all[i].k \in {"data", "body", "chunk"}
        BY <3>1, <4>1, ElementOfSeq, LenProperties DEF IsTemplate
      <4>3. QED
        BY <1>1, <1>4, <3>3, <4>1, <4>2, PresentTypes
    <3>5. CASE UNCHANGED <<pc, scanVars, streamSafe, result>>
      BY <1>1, <3>3, <3>5 DEF scanVars, Pcs, ScanPcs
    <3>6. CASE ProbeFails
      BY <1>5, <3>3, <3>6
    <3>7. QED
      BY <2>7, <3>4, <3>5, <3>6 DEF PushRecv, all
  <2>8. QED
    BY <2>1, <2>2, <2>3, <2>4, <2>5, <2>6, <2>7 DEF ScanSteps
<1>8. QED
  BY <1>2, <1>3, <1>7 DEF TypeInv, TTypeOK, Found, Pcs, devVars, tabVars

\* A table that came at once is made of its parts, in order.
LEMMA TableInType ==
    ASSUME NEW q \in Seq(Piece), HoldsTable(q)
    PROVE  /\ TableIn(q) \in Seq(Chunk)
           /\ \A n \in 1..Chunks : \E j \in DOMAIN q : q[j].k = "chunk" /\ TableIn(q)[n] = q[j]
<1>1. ASSUME NEW n \in 1..Chunks
      PROVE  \E j \in DOMAIN q : q[j].k = "chunk" /\ TableIn(q)[n] = q[j] /\ q[j] \in Chunk
  <2>1. PICK j \in Payloads(q) : q[j].i = n
    BY DEF HoldsTable
  <2> DEFINE j0 == CHOOSE m \in Payloads(q) : q[m].i = n
  <2>2. j0 \in Payloads(q)
    BY <2>1
  <2>3. TableIn(q)[n] = q[j0]
    BY DEF TableIn
  <2> HIDE DEF j0
  <2>4. j0 \in DOMAIN q /\ q[j0].k = "chunk"
    BY <2>2 DEF HoldsTable, Payloads
  <2>5. q[j0] \in Piece
    BY <2>4, ElementOfSeq, LenProperties
  <2>6. QED
    BY <2>3, <2>4, <2>5, PieceOf
<1>2. DOMAIN TableIn(q) = 1..Chunks /\ TableIn(q) = [n \in 1..Chunks |-> TableIn(q)[n]]
  BY DEF TableIn
<1>3. TableIn(q) \in [1..Chunks -> Chunk]
  BY <1>1, <1>2
<1>4. QED
  BY <1>1, <1>3, CountsAssumption, FunctionIsSeq

LEMMA AnnouncedTypes ==
    ASSUME NEW q \in Seq(Piece), Announced(q), parts \in Seq(Chunk), result \in {"none", "ok", "error"}
    PROVE  /\ pc' \in {"fetch", "idle"} /\ parts' \in Seq(Chunk) /\ result' \in {"none", "ok", "error"}
           /\ pc' = "fetch" => parts' = parts
BY TableInType DEF Announced, Return

LEMMA LeftoversType ==
    ASSUME NEW q \in Seq(Piece), NEW r \in Leftovers(q)
    PROVE  r \in Seq(Piece)
<1> DEFINE from(i) == SubSeq(q, i, Len(q))
<1>1. Len(q) \in Nat
  BY LenProperties
<1>2. ASSUME NEW i \in 2..(Len(q) + 1) PROVE from(i) \in Seq(Piece)
  BY <1>1, PartType
<1>3. <<P("tail")>> \in Seq(Piece)
  BY PieceTypes, OneType
<1>4. ASSUME NEW i \in 3..(Len(q) + 1) PROVE <<P("tail")>> \o from(i) \in Seq(Piece)
  <2>1. i \in 2..(Len(q) + 1)
    BY <1>1
  <2>2. from(i) \in Seq(Piece)
    BY <1>2, <2>1
  <2> HIDE DEF from
  <2>3. QED
    BY <1>3, <2>2, ConcatProperties
<1>5. r \in {from(i) : i \in 2..(Len(q) + 1)} \cup {<<P("tail")>> \o from(i) : i \in 3..(Len(q) + 1)}
  BY Zenon DEF Leftovers
<1> HIDE DEF from
<1>6. QED
  BY <1>2, <1>4, <1>5

LEMMA TableTypes ==
    ASSUME TypeInv, TableSteps
    PROVE  TypeInv'
<1> DEFINE Fits == /\ pc' \in {"wrap", "drain"} => parts' = <<>>
                   /\ pc' \in {"fetch", "awaitChunk"} => Len(parts') < Chunks
           Outcome == /\ pc' \in Pcs \ ScanPcs /\ result' \in {"none", "ok", "error"}
                      /\ raws' \in 1..RawAttempts /\ parts' \in Seq(Chunk)
                      /\ streamSafe' \in BOOLEAN /\ Fits
           Net == toDev' \in Seq(Request) /\ toCli' \in Seq(Piece) /\ got' \in Seq(Piece)
<1>1. /\ raws \in 1..RawAttempts /\ parts \in Seq(Chunk) /\ streamSafe \in BOOLEAN
      /\ result \in {"none", "ok", "error"} /\ callNo \in Nat /\ pc \in Pcs
      /\ Len(parts) \in Nat /\ Chunks \in Nat /\ 0 < Chunks
  BY CountsAssumption, LenProperties DEF TypeInv, TTypeOK
<1>0. /\ pc \in {"wrap", "drain"} => parts = <<>> /\ Len(parts) < Chunks
      /\ pc \in {"fetch", "awaitChunk"} => Len(parts) < Chunks
  BY <1>1, EmptySeq DEF TypeInv
<1>2. toDev \in Seq(Request) /\ toCli \in Seq(Piece) /\ got \in Seq(Piece) /\ devOut \in Seq(Piece)
  BY DEF TypeInv, TTypeOK
<1>3. UNCHANGED <<devVars, devOut, conn, faults, op, callNo, scanVars, isConnect>>
  BY DEF TableSteps, WrapSend, WrapSendError, WrapRecv, WrapQuiet, ChunkSend, ChunkSendError,
         ChunkRecv, ChunkCut, ChunkQuiet, FreeSend, FreeSendError, FreeRecv, FreeQuiet, netVars
<1>4. <<>> \in Seq(Piece) /\ <<P("tail")>> \in Seq(Piece)
  BY PieceTypes, OneType, EmptySeq
<1>5. ASSUME NEW req \in Request, SendTo(req) PROVE toDev' \in Seq(Request)
  <2>1. Append(toDev, req) \in Seq(Request)
    BY <1>2, AppendProperties
  <2>2. QED
    BY <1>2, <1>5, <2>1 DEF SendTo
<1>6. ChunkFails /\ UNCHANGED raws => Outcome
  BY <1>1 DEF ChunkFails, Release, Pcs, ScanPcs
<1>7. Outcome /\ Net
  <2>1. CASE WrapSend
    <3>1. toDev' \in Seq(Request)
      BY <1>5, <2>1, RequestTypes DEF WrapSend
    <3>2. pc' = "drain" /\ got' = <<>> /\ UNCHANGED <<toCli, tabVars, streamSafe, result>>
      BY <2>1 DEF WrapSend
    <3>3. parts' = <<>>
      BY <1>0, <2>1 DEF WrapSend, tabVars
    <3>4. QED
      BY <1>1, <1>2, <1>4, <3>1, <3>2, <3>3 DEF tabVars, Pcs, ScanPcs
  <2>2. CASE WrapSendError
    BY <1>1, <1>2, <2>2 DEF WrapSendError, Return, netVars, tabVars, Pcs, ScanPcs
  <2>3. CASE WrapRecv
    <3>1. got' = got \o toCli /\ toCli' = <<>> /\ UNCHANGED <<toDev, raws, streamSafe>> /\ pc = "drain"
      BY <2>3 DEF WrapRecv
    <3>2. got \o toCli \in Seq(Piece)
      BY <1>2, ConcatProperties
    <3>3. got' \in Seq(Piece)
      BY <3>1, <3>2
    <3>4. Net
      BY <1>2, <1>4, <3>1, <3>3
    <3>5. Announced(got') \/ UNCHANGED <<pc, parts, result>>
      BY <2>3 DEF WrapRecv
    <3>6. pc' \in {"fetch", "idle", "drain"} /\ parts' \in Seq(Chunk) /\ result' \in {"none", "ok", "error"}
      BY <1>1, <3>1, <3>3, <3>5, AnnouncedTypes
    <3>7. pc' # "idle" => parts' = parts
      BY <1>1, <3>1, <3>3, <3>5, AnnouncedTypes
    <3>8. QED
      BY <1>0, <1>1, <3>1, <3>4, <3>6, <3>7 DEF Pcs, ScanPcs
  <2>4. CASE WrapQuiet
    <3>1. UNCHANGED <<netVars, got, streamSafe>>
      BY <2>4 DEF WrapQuiet
    <3>2. CASE Announced(got) /\ UNCHANGED raws
      <4>1. pc' \in {"fetch", "idle"} /\ parts' \in Seq(Chunk) /\ result' \in {"none", "ok", "error"}
        BY <1>1, <1>2, <3>2, AnnouncedTypes
      <4>2. pc' = "fetch" => Len(parts') < Chunks
        BY <1>0, <1>1, <1>2, <2>4, <3>2, AnnouncedTypes DEF WrapQuiet
      <4>3. QED
        BY <1>1, <1>2, <3>1, <3>2, <4>1, <4>2 DEF netVars, Pcs, ScanPcs
    <3>3. CASE raws < RawAttempts /\ raws' = raws + 1 /\ pc' = "wrap" /\ UNCHANGED <<parts, result>>
      <4>1. raws' \in 1..RawAttempts
        BY <1>1, <3>3, CountsAssumption
      <4>2. parts' = <<>>
        BY <1>0, <2>4, <3>3 DEF WrapQuiet
      <4>3. QED
        BY <1>1, <1>2, <3>1, <3>3, <4>1, <4>2 DEF netVars, Pcs, ScanPcs
    <3>4. CASE Return("error") /\ UNCHANGED <<raws, parts>>
      BY <1>1, <1>2, <3>1, <3>4 DEF Return, netVars, Pcs, ScanPcs
    <3>5. QED
      BY <2>4, <3>2, <3>3, <3>4 DEF WrapQuiet
  <2>5. CASE ChunkSend
    <3> DEFINE req == [cmd |-> "chunk", i |-> Len(parts) + 1, call |-> callNo]
    <3>1. UNCHANGED <<toCli, got, tabVars, streamSafe, result>> /\ pc' = "awaitChunk"
      BY <2>5 DEF ChunkSend
    <3>2. Len(parts) + 1 \in 1..Chunks
      BY <1>0, <1>1, <2>5 DEF ChunkSend
    <3>3. req \in Request
      BY <1>1, <3>2, RequestTypes
    <3>4. toDev' \in Seq(Request)
      BY <1>5, <2>5, <3>3 DEF ChunkSend
    <3>5. Len(parts') < Chunks
      BY <1>0, <2>5, <3>1 DEF ChunkSend, tabVars
    <3>6. QED
      BY <1>1, <1>2, <3>1, <3>4, <3>5 DEF tabVars, Pcs, ScanPcs
  <2>6. CASE ChunkSendError \/ ChunkQuiet
    <3>1. ChunkFails /\ UNCHANGED <<netVars, got, raws>>
      BY <2>6 DEF ChunkSendError, ChunkQuiet
    <3>2. QED
      BY <1>2, <1>6, <3>1 DEF netVars
  <2>7. CASE ChunkRecv
    <3>1. UNCHANGED <<toDev, got, raws>>
      BY <2>7 DEF ChunkRecv
    <3>2. CASE /\ Len(toCli) = 1 /\ ChunkFits(toCli[1])
               /\ parts' = Append(parts, toCli[1])
               /\ toCli' = <<>>
               /\ streamSafe' = streamSafe
               /\ IF Len(parts') < Chunks THEN pc' = "fetch" /\ result' = result
                  ELSE Release(IF IsTable(parts') THEN "ok" ELSE "error")
      <4>1. toCli[1] \in Piece
        <5>1. 1 \in 1..Len(toCli)
          BY <3>2
        <5>2. QED
          BY <1>2, <5>1, ElementOfSeq
      <4>2. toCli[1] \in Chunk
        BY <3>2, <4>1, PieceOf DEF ChunkFits
      <4>3. Append(parts, toCli[1]) \in Seq(Chunk)
        BY <1>1, <4>2, AppendProperties
      <4>4. /\ pc' \in {"fetch", "free"} /\ (pc' = "fetch" => Len(parts') < Chunks)
            /\ result' \in {"none", "ok", "error"}
        BY <1>1, <3>2 DEF Release
      <4>5. Outcome
        BY <1>1, <3>1, <3>2, <4>3, <4>4 DEF Pcs, ScanPcs
      <4>6. QED
        BY <1>2, <1>4, <3>1, <3>2, <4>5
    <3>3. CASE toCli' \in Leftovers(toCli) /\ ChunkFails
      <4>1. toCli' \in Seq(Piece)
        BY <1>2, <3>3, LeftoversType
      <4>2. QED
        BY <1>2, <1>6, <3>1, <3>3, <4>1
    <3>4. QED
      BY <2>7, <3>2, <3>3 DEF ChunkRecv
  <2>8. CASE ChunkCut
    <3>1. ChunkFails /\ UNCHANGED <<toDev, got, raws>> /\ toCli' = <<P("tail")>>
      BY <2>8 DEF ChunkCut
    <3>2. QED
      BY <1>2, <1>4, <1>6, <3>1
  <2>9. CASE FreeSend
    <3>1. toDev' \in Seq(Request)
      BY <1>5, <2>9, RequestTypes DEF FreeSend
    <3>2. pc' = "freeAck" /\ UNCHANGED <<toCli, got, tabVars, streamSafe, result>>
      BY <2>9 DEF FreeSend
    <3>3. QED
      BY <1>1, <1>2, <3>1, <3>2 DEF tabVars, Pcs, ScanPcs
  <2>10. CASE FreeSendError \/ FreeQuiet
    BY <1>1, <1>2, <2>10 DEF FreeSendError, FreeQuiet, Return, netVars, tabVars, Pcs, ScanPcs
  <2>11. CASE FreeRecv
    <3> DEFINE first == IF toCli[1].k \in {"ok", "err"} THEN <<>> ELSE <<P("tail")>>
    <3>1. Tail(toCli) \in Seq(Piece)
      BY <1>2, <2>11, HeadTailProperties DEF FreeRecv
    <3>2. first \in Seq(Piece)
      BY <1>4
    <3>3. toCli' = first \o Tail(toCli)
      BY <2>11 DEF FreeRecv
    <3> HIDE DEF first
    <3>4. toCli' \in Seq(Piece)
      BY <3>1, <3>2, <3>3, ConcatProperties
    <3>5. QED
      BY <1>1, <1>2, <2>11, <3>4 DEF FreeRecv, Return, tabVars, Pcs, ScanPcs
  <2>12. QED
    BY <2>1, <2>2, <2>3, <2>4, <2>5, <2>6, <2>7, <2>8, <2>9, <2>10, <2>11 DEF TableSteps
<1>8. QED
  BY <1>2, <1>3, <1>7 DEF TypeInv, TTypeOK, devVars, scanVars

LEMMA TypeStep ==
    ASSUME TypeInv, [Next]_tvars
    PROVE  TypeInv'
<1>1. CASE UNCHANGED tvars
  BY <1>1 DEF TypeInv, TTypeOK, tvars, devVars, netVars, cliVars, scanVars, tabVars
<1>2. QED
  BY <1>1, CallTypes, ScanTypes, TableTypes, OutsideTypes DEF Next

LEMMA InitTypes == Init => TypeInv
<1> SUFFICES ASSUME Init PROVE TypeInv
  OBVIOUS
<1>1. 1 \in 1..RawAttempts
  BY CountsAssumption
<1>2. <<>> \in Seq(Request) /\ <<>> \in Seq(Piece) /\ <<>> \in Seq(Chunk)
  BY EmptySeq
<1>3. QED
  BY <1>1, <1>2 DEF Init, TypeInv, TTypeOK, Pcs, ScanPcs, AllOps

\* Every variable keeps its type, however late or lost the answers are: a scan
\* never leaves the users and fingers it was asked about, an announcement is
\* requested at most RawAttempts times, and parts are only asked for while some
\* are missing.
THEOREM TypeCorrect == Spec => []TTypeOK
<1>1. TypeInv => TTypeOK
  BY DEF TypeInv
<1>2. QED
  BY <1>1, InitTypes, TypeStep, PTL DEF Spec

-----------------------------------------------------------------------------
(* The terminal and the network.                                           *)

LEMMA NothingOwed ==
    ASSUME NEW S
    PROVE  Stream(S, <<>>, <<>>) /\ LeadsLine(<<>>, <<>>)
BY EmptyStream DEF Stream, LeadsLine

\* The stream after a step of the terminal or the network.
LEMMA OutsideSilent ==
    ASSUME Silent, conn \in {"up", "dead"}, Outside
    PROVE  Silent'
<1>1. CASE Serve \/ ServeMute \/ Refuse
  BY <1>1 DEF Silent, Serve, ServeMute, Refuse, TakeRequest
<1>2. CASE Break
  BY <1>2 DEF Silent, Break
<1>3. CASE \E n \in 1..Len(devOut) : Deliver(n)
  <2>1. Len(devOut) = 0
    BY EmptySeq DEF Silent
  <2>2. QED
    BY <1>3, <2>1
<1>4. QED
  BY <1>1, <1>2, <1>3 DEF Outside

LEMMA OutsideOwes ==
    ASSUME NEW S, Owes(S, conn, toDev, devOut, toCli), conn \in {"up", "dead"}, Outside
    PROVE  /\ Owes(S, conn', toDev', devOut', toCli')
           /\ LeadsLine(devOut, toCli) => LeadsLine(devOut', toCli')
           /\ toCli = <<>> /\ devOut = <<>> => toCli' = <<>> /\ devOut' = <<>>
<1>1. CASE Serve \/ ServeMute \/ Refuse
  <2>1. toDev # <<>>
    BY <1>1 DEF Serve, ServeMute, Refuse, TakeRequest
  <2>2. conn = "dead"
    BY <2>1 DEF Owes
  <2>3. UNCHANGED <<conn, devOut, toCli>>
    BY <1>1, <2>2 DEF Serve, ServeMute, Refuse, TakeRequest
  <2>4. QED
    BY <2>2, <2>3 DEF Owes
<1>2. CASE Break
  <2>1. conn' = "dead" /\ devOut' = <<>> /\ (toCli' = toCli \/ toCli' = <<>>)
    BY <1>2 DEF Break
  <2>2. Stream(S, toCli', <<>>)
    BY <2>1, EmptyStream DEF Owes, Stream
  <2>3. LeadsLine(devOut, toCli) => LeadsLine(<<>>, toCli')
    BY <2>1, EmptyStream DEF LeadsLine
  <2>4. QED
    BY <2>1, <2>2, <2>3 DEF Owes
<1>3. CASE \E n \in 1..Len(devOut) : Deliver(n)
  <2>1. PICK n \in 1..Len(devOut) : Deliver(n)
    BY <1>3
  <2> DEFINE before == SubSeq(devOut, 1, n)
             after  == SubSeq(devOut, n + 1, Len(devOut))
  <2>2. toCli' = toCli \o before /\ devOut' = after /\ UNCHANGED <<conn, toDev>> /\ conn = "up"
    BY <2>1 DEF Deliver
  <2>3. /\ Stream(S, toCli \o before, after)
        /\ toCli \o before # <<>> /\ devOut # <<>>
        /\ Leads(toCli) /\ (toCli = <<>> => Leads(devOut)) => Leads(toCli \o before)
    BY <2>1, StreamMoves DEF Owes
  <2> HIDE DEF before, after
  <2>4. QED
    BY <2>2, <2>3 DEF Owes, LeadsLine
<1>4. QED
  BY <1>1, <1>2, <1>3 DEF Outside

LEMMA OutsideWaits ==
    ASSUME NEW S, NEW req, Waits(req, S, conn, toDev, devOut, toCli), conn \in {"up", "dead"},
           Answer(req) \in Seq(S), Ends(Answer(req)), LeadsLine(Answer(req), <<>>) \/ req.cmd # "probe",
           req.cmd \in {"wrapped", "chunk"} => P("err") \in S,
           Outside
    PROVE  /\ Waits(req, S, conn', toDev', devOut', toCli')
           /\ req.cmd = "probe" /\ LeadsLine(devOut, toCli) => LeadsLine(devOut', toCli')
<1>1. CASE Owes(S, conn, toDev, devOut, toCli)
  BY <1>1, OutsideOwes DEF Waits
<1>2. CASE conn = "up" /\ toDev = <<req>> /\ devOut = <<>> /\ toCli = <<>>
  <2>h. Head(toDev) = req /\ Tail(toDev) = <<>> /\ Len(toDev) = 1
    BY <1>2
  <2>e. Stream(S, <<>>, <<>>) /\ LeadsLine(<<>>, <<>>)
    BY NothingOwed
  <2>1. CASE Serve
    <3>1. <<>> \o Answer(req) = Answer(req)
      BY ConcatEmptySeq
    <3>2. toDev' = <<>> /\ conn' = "up" /\ toCli' = <<>> /\ devOut' = Answer(req)
      BY <1>2, <2>1, <2>h, <3>1 DEF Serve, TakeRequest
    <3>3. Stream(S, <<>>, Answer(req))
      BY EmptyStream DEF Stream
    <3>4. QED
      BY <3>2, <3>3 DEF Waits, Owes
  <2>2. CASE ServeMute
    BY <1>2, <2>2, <2>e, <2>h DEF ServeMute, TakeRequest, Waits, Owes
  <2>3. CASE Refuse
    <3>1. req.cmd \in {"wrapped", "chunk"} /\ P("err") \in S
      BY <2>3, <2>h DEF Refuse
    <3>2. toDev' = <<>> /\ conn' = "up" /\ toCli' = <<>> /\ devOut' = <<P("err")>>
      BY <1>2, <2>3, <2>h DEF Refuse
    <3>3. Stream(S, <<>>, <<P("err")>>)
      <4>1. <<P("err")>> \in Seq(S) /\ Len(<<P("err")>>) = 1
        BY <3>1, OneType
      <4>2. Ends(<<P("err")>>)
        BY <4>1 DEF Ends
      <4>3. QED
        BY <4>1, <4>2, EmptyStream DEF Stream
    <3>4. QED
      BY <3>1, <3>2, <3>3 DEF Waits, Owes
  <2>4. CASE Break
    <3>1. conn' = "dead" /\ devOut' = <<>> /\ toCli' = <<>>
      BY <1>2, <2>4 DEF Break
    <3>2. QED
      BY <2>e, <3>1 DEF Waits, Owes
  <2>5. CASE \E n \in 1..Len(devOut) : Deliver(n)
    BY <1>2, <2>5, EmptySeq
  <2>6. QED
    BY <2>1, <2>2, <2>3, <2>4, <2>5 DEF Outside
<1>3. QED
  BY <1>1, <1>2 DEF Waits

\* Who times out has waited for an answer that does not come any more.
LEMMA TimedOut ==
    ASSUME Timely = TRUE, MayTimeOut, conn \in {"up", "dead"}, conn = "dead" => devOut = <<>>
    PROVE  Silent
BY DEF MayTimeOut, Coming, Silent

\* A request goes out on a line with nothing on it.
LEMMA Sent ==
    ASSUME NEW S, NEW req, Silent, conn \in {"up", "dead"}, SendTo(req), UNCHANGED <<conn, devOut, toCli>>
    PROVE  Waits(req, S, conn', toDev', devOut', toCli') /\ LeadsLine(devOut', toCli')
<1>1. devOut' = <<>> /\ toCli' = <<>> /\ Stream(S, <<>>, <<>>) /\ LeadsLine(<<>>, <<>>)
  BY NothingOwed DEF Silent
<1>2. CASE conn = "up"
  <2>1. toDev' = <<req>>
    BY <1>2 DEF SendTo, Silent
  <2>2. QED
    BY <1>1, <1>2, <2>1 DEF Waits
<1>3. CASE conn = "dead"
  BY <1>1, <1>3 DEF Waits, Owes
<1>4. QED
  BY <1>2, <1>3

\* An answer of a single piece leaves nothing behind it.
LEMMA AnswerCame ==
    ASSUME NEW S, NEW req, Waits(req, S, conn, toDev, devOut, toCli), toCli # <<>>,
           \A p \in S : Closes(p)
    PROVE  /\ Len(toCli) = 1 /\ toCli[1] \in S /\ Head(toCli) = toCli[1] /\ Tail(toCli) = <<>>
           /\ devOut = <<>> /\ (conn = "up" => toDev = <<>>)
<1>1. Owes(S, conn, toDev, devOut, toCli)
  BY DEF Waits
<1>2. /\ toCli \in Seq(S) /\ Ends(toCli) /\ (Closed(toCli) => devOut = <<>>)
      /\ conn = "up" => toDev = <<>>
  BY <1>1 DEF Owes, Stream
<1>3. Len(toCli) \in Nat \ {0} /\ DOMAIN toCli = 1..Len(toCli)
  BY <1>2, EmptySeq, LenProperties
<1>4. toCli[1] \in S
  BY <1>2, <1>3, ElementOfSeq
<1>5. Len(toCli) = 1 /\ Closed(toCli)
  BY <1>2, <1>3, <1>4 DEF Ends, Closed
<1>6. Tail(toCli) = <<>>
  <2>1. Tail(toCli) \in Seq(S) /\ Len(Tail(toCli)) = 0
    BY <1>2, <1>5, HeadTailProperties
  <2>2. QED
    BY <2>1, EmptySeq
<1>7. QED
  BY <1>2, <1>4, <1>5, <1>6

-----------------------------------------------------------------------------
(* An exchange, however slow its answer.  A client that has asked about one *)
(* user and finger, on a line that was silent before, can receive nothing   *)
(* but the answer, which ends with its closing frame.                       *)

Asking ==
    /\ Waits(ToProbe, Frames(at), conn, toDev, devOut, toCli)
    /\ LeadsLine(devOut, toCli)

Pushing ==
    /\ Owes(Frames(at), conn, toDev, devOut, toCli)
    /\ got \in Seq(Frames(at)) /\ Ends(got)
    /\ Closed(got) => toCli = <<>> /\ devOut = <<>>

LEMMA OutsideExchange ==
    ASSUME conn \in {"up", "dead"}, Outside
    PROVE  (Asking => Asking') /\ (Pushing => Pushing')
<1>1. UNCHANGED <<at, got>>
  BY DEF Outside, Serve, ServeMute, Refuse, Break, Deliver, TakeRequest, cliVars, scanVars
<1>2. Frames(at)' = Frames(at) /\ ToProbe' = ToProbe
  BY <1>1 DEF Frames, ToProbe
<1>3. ASSUME Asking PROVE Asking'
  <2>1. Waits(ToProbe, Frames(at), conn, toDev, devOut, toCli) /\ LeadsLine(devOut, toCli)
    BY <1>3 DEF Asking
  <2>2. /\ Answer(ToProbe) \in Seq(Frames(at)) /\ Ends(Answer(ToProbe)) /\ Leads(Answer(ToProbe))
    BY AnswerType DEF ToProbe
  <2>3. ToProbe.cmd = "probe" /\ LeadsLine(Answer(ToProbe), <<>>)
    BY <2>2, EmptyStream DEF ToProbe, LeadsLine
  <2>4. /\ Waits(ToProbe, Frames(at), conn', toDev', devOut', toCli')
        /\ LeadsLine(devOut', toCli')
    BY <2>1, <2>2, <2>3, OutsideWaits
  <2>5. QED
    BY <1>2, <2>4 DEF Asking
<1>4. ASSUME Pushing PROVE Pushing'
  <2>1. Owes(Frames(at), conn, toDev, devOut, toCli)
    BY <1>4 DEF Pushing
  <2>2. /\ Owes(Frames(at), conn', toDev', devOut', toCli')
        /\ toCli = <<>> /\ devOut = <<>> => toCli' = <<>> /\ devOut' = <<>>
    BY <2>1, OutsideOwes
  <2>3. QED
    BY <1>1, <1>2, <1>4, <2>2 DEF Pushing
<1>5. QED
  BY <1>3, <1>4

\* The question goes out on a silent line.
LEMMA ProbeAsks ==
    ASSUME Silent, conn \in {"up", "dead"}, Probe
    PROVE  Asking'
<1>1. SendTo(ToProbe) /\ UNCHANGED <<conn, devOut, toCli, at>>
  BY DEF Probe, scanVars, ToProbe
<1>2. Waits(ToProbe, Frames(at), conn', toDev', devOut', toCli') /\ LeadsLine(devOut', toCli')
  BY <1>1, Sent
<1>3. ToProbe' = ToProbe /\ Frames(at)' = Frames(at)
  BY <1>1 DEF ToProbe, Frames
<1>4. QED
  BY <1>2, <1>3 DEF Asking

\* The first frame that comes in answer to a question tells its kind.
LEMMA FirstFrame ==
    ASSUME Asking, toCli # <<>>
    PROVE  /\ Owes(Frames(at), conn, toDev, devOut, toCli)
           /\ Head(toCli) = toCli[1] /\ toCli[1] \in Frames(at)
           /\ toCli[1].k \in {"err", "data", "prep"}
           /\ toCli[1].k \in {"err", "data"} => devOut = <<>>
<1>1. /\ Waits(ToProbe, Frames(at), conn, toDev, devOut, toCli) /\ LeadsLine(devOut, toCli)
  BY DEF Asking
<1>2. Owes(Frames(at), conn, toDev, devOut, toCli)
  BY <1>1 DEF Waits
<1>3. toCli \in Seq(Frames(at)) /\ Leads(toCli) /\ (Closed(toCli) => devOut = <<>>)
  BY <1>1, <1>2 DEF Owes, Stream, LeadsLine
<1>4. 1 \in 1..Len(toCli) /\ DOMAIN toCli = 1..Len(toCli)
  BY <1>3, EmptySeq, LenProperties
<1>5. toCli[1] \in Frames(at)
  BY <1>3, <1>4, ElementOfSeq
<1>6. toCli[1].k \in {"err", "data", "prep"}
  BY <1>3, <1>5 DEF Leads, Frames, P
<1>7. toCli[1].k \in {"err", "data"} => devOut = <<>>
  BY <1>3, <1>4 DEF Closed, Closes
<1>8. QED
  BY <1>2, <1>5, <1>6, <1>7

\* A question is answered by a frame after which the line is silent, or a push begins.
LEMMA Answered ==
    ASSUME Asking, Await
    PROVE  \/ Silent' /\ Absent
           \/ Silent' /\ \E p \in Frames(at) : p.k \in {"data", "body"} /\ Present(p)
           \/ Pushing' /\ pc' = "push" /\ UNCHANGED <<scanVars, streamSafe, result>>
<1>1. toCli # <<>> /\ toCli' = <<>> /\ UNCHANGED <<toDev, devOut, conn>>
  BY DEF Await
<1>2. /\ Owes(Frames(at), conn, toDev, devOut, toCli)
      /\ Head(toCli) = toCli[1] /\ toCli[1] \in Frames(at)
      /\ toCli[1].k \in {"err", "data", "prep"}
      /\ toCli[1].k \in {"err", "data"} => devOut = <<>>
  BY <1>1, FirstFrame
<1>3. CASE toCli[1].k \in {"err", "data"}
  <2>1. Silent'
    BY <1>1, <1>2, <1>3 DEF Owes, Silent
  <2>2. Absent \/ (toCli[1].k = "data" /\ Present(toCli[1]))
    BY <1>2, <1>3 DEF Await, IsAck
  <2>3. QED
    BY <1>2, <2>1, <2>2
<1>4. CASE toCli[1].k = "prep"
  <2>1. pc' = "push" /\ got' = <<>> /\ UNCHANGED <<scanVars, streamSafe, result>>
    BY <1>2, <1>4 DEF Await, IsAck
  <2>2. Owes(Frames(at), conn', toDev', devOut', toCli')
    BY <1>1, <1>2, EmptyStream DEF Owes, Stream
  <2>3. Frames(at)' = Frames(at)
    BY <2>1 DEF Frames, scanVars
  <2>4. Pushing'
    BY <2>1, <2>2, <2>3, EmptyStream DEF Pushing
  <2>5. QED
    BY <2>1, <2>4
<1>5. QED
  BY <1>2, <1>3, <1>4

\* A push goes on, or ends with an acknowledgement after which the line is silent.
LEMMA PushAnswered ==
    ASSUME Pushing, PushRecv
    PROVE  \/ Pushing' /\ UNCHANGED <<pc, scanVars, streamSafe, result>>
           \/ Silent' /\ \E p \in Frames(at) : p.k \in {"data", "body"} /\ Present(p)
           \/ Silent' /\ ProbeFails
<1> DEFINE all == got \o toCli
<1>1. toCli # <<>> /\ toCli' = <<>> /\ UNCHANGED <<toDev, devOut, conn>>
  BY DEF PushRecv
<1>2. /\ Owes(Frames(at), conn, toDev, devOut, toCli)
      /\ got \in Seq(Frames(at)) /\ Ends(got)
      /\ Closed(got) => toCli = <<>> /\ devOut = <<>>
  BY DEF Pushing
<1>3. toCli \in Seq(Frames(at)) /\ Ends(toCli) /\ (Closed(toCli) => devOut = <<>>)
  BY <1>2 DEF Owes, Stream
<1>4. all \in Seq(Frames(at)) /\ Ends(all) /\ (Closed(all) => devOut = <<>>)
  BY <1>1, <1>2, <1>3, EndsConcat
<1> HIDE DEF all
<1>5. CASE ~HasAck(all) /\ got' = all /\ UNCHANGED <<pc, scanVars, streamSafe, result>>
  <2>1. Owes(Frames(at), conn', toDev', devOut', toCli')
    BY <1>1, <1>2, EmptyStream DEF Owes, Stream
  <2>2. Frames(at)' = Frames(at)
    BY <1>5 DEF Frames, scanVars
  <2>3. Pushing'
    BY <1>1, <1>4, <1>5, <2>1, <2>2 DEF Pushing
  <2>4. QED
    BY <1>5, <2>3
<1>6. CASE HasAck(all)
  <2>1. PICK j \in DOMAIN all : IsAck(all[j])
    BY <1>6 DEF HasAck
  <2>2. Closes(all[j])
    <3>1. all[j] \in Frames(at)
      BY <1>4, <2>1, ElementOfSeq, LenProperties
    <3>2. QED
      BY <2>1, <3>1 DEF Frames, P, IsAck, Closes
  <2>3. Silent'
    BY <1>1, <1>2, <1>4, <2>2 DEF Closed, Owes, Silent
  <2>4. CASE \E i \in DOMAIN all : IsTemplate(all, i) /\ Present(all[i])
    <3>1. PICK i \in DOMAIN all : IsTemplate(all, i) /\ Present(all[i])
      BY <2>4
    <3>2. all[i] \in Frames(at) /\ all[i].k \in {"data", "body"}
      BY <1>4, <3>1, ElementOfSeq, LenProperties DEF IsTemplate
    <3>3. QED
      BY <2>3, <3>1, <3>2
  <2>5. CASE ProbeFails
    BY <2>3, <2>5
  <2>6. QED
    BY <1>6, <2>4, <2>5 DEF PushRecv, all
<1>7. QED
  BY <1>5, <1>6 DEF PushRecv, all

-----------------------------------------------------------------------------
(* Whose templates a scan records.  A scan that began on a silent line asks *)
(* again only when it is silent again, and not at all after a failure.      *)

ScanInv ==
    /\ TypeInv
    /\ pc = "probe" /\ streamSafe /\ ~owed => Silent
    /\ pc = "await" /\ ~owed => Asking
    /\ pc = "push" /\ ~owed => Pushing
    /\ OwnTemplates

LEMMA OutsideKeeps ==
    ASSUME ScanInv, Outside
    PROVE  ScanInv'
<1>1. UNCHANGED <<pc, found, owed, streamSafe>>
  BY DEF Outside, Serve, ServeMute, Refuse, Break, Deliver, TakeRequest, cliVars, scanVars
<1>2. TypeInv' /\ conn \in {"up", "dead"}
  BY OutsideTypes DEF ScanInv, TypeInv, TTypeOK
<1>3. QED
  BY <1>1, <1>2, OutsideSilent, OutsideExchange DEF ScanInv, OwnTemplates

\* A scan notes whether it is given a silent line; other calls record nothing.
LEMMA CallKeeps ==
    ASSUME ScanInv, Calls
    PROVE  ScanInv'
<1>1. TypeInv'
  BY CallTypes DEF ScanInv
<1>2. CASE \E o \in Scans : StartScan(o)
  <2>1. pc' \in {"probe", "idle"} /\ found' = {} /\ owed' = (streamSafe /\ ~Silent')
        /\ streamSafe' = streamSafe
    BY <1>2 DEF StartScan, Return
  <2>2. pc' = "probe" /\ streamSafe' /\ ~owed' => Silent'
    BY <2>1
  <2>3. QED
    BY <1>1, <2>1, <2>2 DEF ScanInv, OwnTemplates
<1>3. CASE StartTemplates \/ GetUsers \/ Reconnect(TRUE) \/ Reconnect(FALSE)
  <2>1. pc' \in {"wrap", "idle"} /\ UNCHANGED <<found, owed>>
    BY <1>3 DEF StartTemplates, GetUsers, Reconnect, Return, scanVars
  <2>2. QED
    BY <1>1, <2>1 DEF ScanInv, OwnTemplates
<1>4. QED
  BY <1>2, <1>3 DEF Calls

\* A table read goes on or comes back to its caller.
LEMMA StaysTable ==
    ASSUME TypeInv', TableSteps
    PROVE  pc \in TablePcs /\ pc' \in {"idle"} \cup TablePcs
<1>1. pc \in TablePcs
  BY DEF TableSteps, WrapSend, WrapSendError, WrapRecv, WrapQuiet, ChunkSend, ChunkSendError,
         ChunkRecv, ChunkCut, ChunkQuiet, FreeSend, FreeSendError, FreeRecv, FreeQuiet, TablePcs
<1>2. pc' \notin ScanPcs
  <2> USE DEF ScanPcs, Return, Release
  <2>1. CASE WrapSend \/ WrapSendError
    BY <2>1 DEF WrapSend, WrapSendError
  <2>2. CASE WrapRecv
    BY <1>1, <2>2 DEF WrapRecv, Announced, TablePcs
  <2>3. CASE WrapQuiet
    BY <2>3 DEF WrapQuiet, Announced
  <2>4. CASE ChunkSend \/ ChunkSendError \/ ChunkCut \/ ChunkQuiet
    BY <2>4 DEF ChunkSend, ChunkSendError, ChunkCut, ChunkQuiet, ChunkFails
  <2>5. CASE ChunkRecv
    BY <2>5 DEF ChunkRecv, ChunkFails
  <2>6. CASE FreeSend \/ FreeSendError \/ FreeRecv \/ FreeQuiet
    BY <2>6 DEF FreeSend, FreeSendError, FreeRecv, FreeQuiet
  <2>7. QED
    BY <2>1, <2>2, <2>3, <2>4, <2>5, <2>6 DEF TableSteps
<1>3. QED
  BY <1>1, <1>2 DEF TypeInv, TTypeOK, Pcs, ScanPcs, TablePcs

\* A table read asks no question about a user and records none.
LEMMA TableStepKeeps ==
    ASSUME ScanInv, TableSteps
    PROVE  ScanInv'
<1>1. TypeInv'
  BY TableTypes DEF ScanInv
<1>2. UNCHANGED <<found, owed>>
  BY DEF TableSteps, WrapSend, WrapSendError, WrapRecv, WrapQuiet, ChunkSend, ChunkSendError,
         ChunkRecv, ChunkCut, ChunkQuiet, FreeSend, FreeSendError, FreeRecv, FreeQuiet, scanVars
<1>3. pc' \notin ScanPcs
  BY <1>1, StaysTable DEF ScanPcs, TablePcs
<1>4. QED
  BY <1>1, <1>2, <1>3 DEF ScanInv, OwnTemplates, ScanPcs

\* The scan goes on only when its answer is complete and the line is silent.
LEMMA AdvanceKeeps ==
    ASSUME ScanInv, TypeInv', NEW f, ~owed => \A x \in f : x.at = x.of, Advance(f),
           ~owed => Silent'
    PROVE  ScanInv'
<1>1. found' = f /\ owed' = owed /\ pc' \in {"probe", "idle"}
  BY DEF Advance, Return
<1>2. QED
  BY <1>1 DEF ScanInv, OwnTemplates

\* After a failed exchange no further one is tried.
LEMMA FailureKeeps ==
    ASSUME ScanInv, TypeInv', ProbeFails
    PROVE  ScanInv'
BY DEF ProbeFails, Return, scanVars, ScanInv, OwnTemplates

\* What a scan does with an answer while it is owed nothing else.
LEMMA AnswerKeeps ==
    ASSUME ScanInv, TypeInv', ~owed,
           \/ Silent' /\ Absent
           \/ Silent' /\ \E p \in Frames(at) : p.k \in {"data", "body"} /\ Present(p)
           \/ Silent' /\ ProbeFails
           \/ Pushing' /\ pc' = "push" /\ UNCHANGED <<scanVars, streamSafe, result>>
    PROVE  ScanInv'
<1>1. CASE Silent' /\ Absent
  BY <1>1, AdvanceKeeps DEF Absent, ScanInv, OwnTemplates
<1>2. CASE Silent' /\ \E p \in Frames(at) : p.k \in {"data", "body"} /\ Present(p)
  <2>1. PICK p \in Frames(at) : p.k \in {"data", "body"} /\ Present(p)
    BY <1>2
  <2> DEFINE x == [at |-> at, of |-> p.of]
  <2>2. p.of = at /\ p.k # "chunk"
    BY <2>1 DEF Frames, P
  <2>3. Advance(found \cup {x})
    BY <2>1, <2>2 DEF Present
  <2>4. \A y \in found \cup {x} : y.at = y.of
    BY <2>2 DEF ScanInv, OwnTemplates
  <2> HIDE DEF x
  <2>5. QED
    BY <1>2, <2>3, <2>4, AdvanceKeeps
<1>3. CASE Silent' /\ ProbeFails
  BY <1>3, FailureKeeps
<1>4. CASE Pushing' /\ pc' = "push" /\ UNCHANGED <<scanVars, streamSafe, result>>
  BY <1>4 DEF ScanInv, OwnTemplates, scanVars
<1>5. QED
  BY <1>1, <1>2, <1>3, <1>4

LEMMA ScanStepKeeps ==
    ASSUME ScanInv, ScanSteps
    PROVE  ScanInv'
<1>1. TypeInv' /\ TypeInv /\ conn \in {"up", "dead"}
  BY ScanTypes DEF ScanInv, TypeInv, TTypeOK
<1>2. CASE owed
  <2>1. owed'
    BY <1>2 DEF ScanSteps, ProbeRefused, Probe, ProbeSendError, Await, AwaitCut, AwaitQuiet,
                PushRecv, PushQuiet, ProbeFails, Present, Absent, Advance, scanVars
  <2>2. QED
    BY <1>1, <2>1 DEF ScanInv, OwnTemplates
<1>3. CASE ~owed
  <2>1. CASE ProbeRefused
    BY <1>1, <2>1 DEF ProbeRefused, Return, scanVars, ScanInv, OwnTemplates
  <2>2. CASE Probe
    <3>1. Silent /\ pc' = "await" /\ UNCHANGED <<found, owed>>
      BY <1>3, <2>2 DEF Probe, MayProbe, ScanInv, scanVars
    <3>2. Asking'
      BY <1>1, <2>2, <3>1, ProbeAsks
    <3>3. QED
      BY <1>1, <3>1, <3>2 DEF ScanInv, OwnTemplates
  <2>3. CASE Await
    <3>1. Asking
      BY <1>3, <2>3 DEF Await, ScanInv
    <3>2. QED
      BY <1>1, <1>3, <2>3, <3>1, Answered, AnswerKeeps
  <2>4. CASE PushRecv
    <3>1. Pushing /\ pc = "push"
      BY <1>3, <2>4 DEF PushRecv, ScanInv
    <3>2. QED
      BY <1>1, <1>3, <2>4, <3>1, PushAnswered, AnswerKeeps
  <2>5. CASE ProbeSendError \/ AwaitCut \/ AwaitQuiet \/ PushQuiet
    BY <1>1, <2>5, FailureKeeps DEF ProbeSendError, AwaitCut, AwaitQuiet, PushQuiet
  <2>6. QED
    BY <2>1, <2>2, <2>3, <2>4, <2>5 DEF ScanSteps
<1>4. QED
  BY <1>1, <1>2, <1>3 DEF TypeInv, TTypeOK

\* However late, lost or cut the answers are, and however many calls are made, a
\* scan that began on a silent line records no template for another user or
\* finger than its own.
THEOREM NoForeignTemplates == Spec => []OwnTemplates
<1>1. Init => ScanInv
  BY InitTypes DEF Init, ScanInv, OwnTemplates
<1>2. ScanInv /\ [Next]_tvars => ScanInv'
  <2>1. ASSUME ScanInv, UNCHANGED tvars PROVE ScanInv'
    <3>1. TypeInv'
      BY <2>1, TypeStep DEF ScanInv
    <3>2. QED
      BY <2>1, <3>1 DEF ScanInv, tvars, netVars, cliVars, scanVars, OwnTemplates, Silent,
                        Asking, Pushing, ToProbe, Frames
  <2>2. QED
    BY <2>1, CallKeeps, ScanStepKeeps, TableStepKeeps, OutsideKeeps DEF Next
<1>3. ScanInv => OwnTemplates
  BY DEF ScanInv
<1>4. QED
  BY <1>1, <1>2, <1>3, PTL DEF Spec

-----------------------------------------------------------------------------
(* When no answer is slower than its timeout (Timely), requests go out one *)
(* at a time: between two of them nothing is under way on a live           *)
(* connection, and what arrives is the answer to the last one.             *)

ToTable == [cmd |-> "wrapped"]
ToPart  == [cmd |-> "chunk", i |-> Len(parts) + 1, call |-> callNo]
ToFree  == [cmd |-> "free"]
Part(n) == [k |-> "chunk", i |-> n, call |-> callNo]

TableAnswers == {P("announce"), P("err")}
PartAnswers  == {Part(Len(parts) + 1), P("err")}

InTurn ==
    /\ isConnect = TRUE \/ conn = "dead"
    /\ pc \in {"idle", "probe", "wrap", "fetch", "free"} => Silent
    /\ pc = "await" => Asking
    /\ pc = "push" => Pushing
    /\ pc = "drain" => got = <<>> /\ Waits(ToTable, TableAnswers, conn, toDev, devOut, toCli)
    /\ pc = "awaitChunk" => Waits(ToPart, PartAnswers, conn, toDev, devOut, toCli)
    /\ pc = "freeAck" => Waits(ToFree, {P("ok")}, conn, toDev, devOut, toCli)

\* The parts are those of the call in progress, in order.
InOrder ==
    /\ pc \in ScanPcs => op # "templates"
    /\ pc \in TablePcs => op = "templates"
    /\ op = "templates" => \A i \in DOMAIN parts : parts[i] = Part(i)

TurnInv == TypeInv /\ InTurn /\ InOrder

\* The answers to the requests of a table read, each a piece that closes it.
LEMMA AnswerInFull ==
    /\ Answer(ToTable) \in Seq(TableAnswers) /\ Ends(Answer(ToTable))
    /\ Answer(ToPart) \in Seq(PartAnswers) /\ Ends(Answer(ToPart))
    /\ Answer(ToFree) \in Seq({P("ok")}) /\ Ends(Answer(ToFree))
    /\ \A p \in TableAnswers \cup PartAnswers \cup {P("ok")} : Closes(p)
<1>1. \A p \in TableAnswers \cup PartAnswers \cup {P("ok")} : Closes(p)
  BY DEF TableAnswers, PartAnswers, Part, P, Closes
<1>2. ASSUME NEW S, NEW x \in S PROVE <<x>> \in Seq(S) /\ Ends(<<x>>)
  <2>1. <<x>> \in Seq(S) /\ Len(<<x>>) = 1 /\ DOMAIN <<x>> = 1..1
    BY OneType
  <2>2. QED
    BY <2>1 DEF Ends
<1>3. Answer(ToTable) = <<P("announce")>>
  <2>1. /\ ToTable.cmd = "wrapped" /\ ToTable.cmd # "probe"
        /\ ToTable.cmd # "users" /\ ToTable.cmd # "setting"
    BY DEF ToTable
  <2>2. QED
    BY <2>1, Zenon DEF Answer
<1>4. Answer(ToFree) = <<P("ok")>>
  <2>1. /\ ToFree.cmd # "wrapped" /\ ToFree.cmd # "probe" /\ ToFree.cmd # "chunk"
        /\ ToFree.cmd # "users" /\ ToFree.cmd # "setting"
    BY DEF ToFree
  <2>2. QED
    BY <2>1, Zenon DEF Answer
<1>5. Answer(ToPart) = IF buffer THEN <<Part(Len(parts) + 1)>> ELSE <<P("err")>>
  <2>1. /\ ToPart.cmd # "wrapped" /\ ToPart.cmd # "probe" /\ ToPart.cmd = "chunk"
        /\ ToPart.cmd # "users" /\ ToPart.cmd # "setting"
        /\ [k |-> "chunk", i |-> ToPart.i, call |-> ToPart.call] = Part(Len(parts) + 1)
    BY DEF ToPart, Part
  <2>2. Answer(ToPart) = IF buffer THEN <<[k |-> "chunk", i |-> ToPart.i, call |-> ToPart.call]>>
                         ELSE <<P("err")>>
    BY <2>1, Zenon DEF Answer
  <2>3. QED
    BY <2>1, <2>2
<1>6. /\ P("announce") \in TableAnswers /\ P("ok") \in {P("ok")}
      /\ Part(Len(parts) + 1) \in PartAnswers /\ P("err") \in PartAnswers
  BY DEF TableAnswers, PartAnswers
<1>7. QED
  BY <1>1, <1>2, <1>3, <1>4, <1>5, <1>6

LEMMA OutsideTurn ==
    ASSUME TurnInv, Outside
    PROVE  TurnInv'
<1>1. UNCHANGED cliVars
  BY DEF Outside, Serve, ServeMute, Refuse, Break, Deliver, TakeRequest
<1>2. UNCHANGED <<pc, op, callNo, at, found, got, parts, isConnect>>
  BY <1>1 DEF cliVars, scanVars, tabVars
<1>3. TypeInv' /\ InOrder'
  BY <1>2, OutsideTypes DEF TurnInv, InOrder, Part
<1>4. /\ ToTable' = ToTable /\ ToPart' = ToPart
      /\ ToFree' = ToFree /\ TableAnswers' = TableAnswers /\ PartAnswers' = PartAnswers
  BY <1>2 DEF ToTable, ToPart, ToFree, TableAnswers, PartAnswers, Part
<1>5. conn \in {"up", "dead"}
  BY DEF TurnInv, TypeInv, TTypeOK
<1>6. InTurn
  BY DEF TurnInv
<1>e. isConnect' = TRUE \/ conn' = "dead"
  BY <1>2, <1>6 DEF InTurn, Outside, Serve, ServeMute, Refuse, Break, Deliver, TakeRequest
<1>7. pc \in {"idle", "probe", "wrap", "fetch", "free"} => Silent'
  BY <1>5, <1>6, OutsideSilent DEF InTurn
<1>8. CASE pc \in {"await", "push"}
  BY <1>2, <1>3, <1>5, <1>6, <1>8, <1>e, OutsideExchange DEF InTurn, TurnInv
<1>10. CASE pc = "drain"
  <2>1. ToTable.cmd = "wrapped" /\ P("err") \in TableAnswers
    BY DEF ToTable, TableAnswers
  <2>2. Waits(ToTable, TableAnswers, conn, toDev, devOut, toCli)
    BY <1>6, <1>10 DEF InTurn
  <2>3. Waits(ToTable, TableAnswers, conn', toDev', devOut', toCli')
    BY <1>5, <2>1, <2>2, AnswerInFull, OutsideWaits
  <2>4. QED
    BY <1>2, <1>3, <1>4, <1>e, <1>10, <2>3 DEF InTurn, TurnInv
<1>11. CASE pc = "awaitChunk"
  <2>1. ToPart.cmd = "chunk" /\ P("err") \in PartAnswers
    BY DEF ToPart, PartAnswers
  <2>2. Waits(ToPart, PartAnswers, conn, toDev, devOut, toCli)
    BY <1>6, <1>11 DEF InTurn
  <2>3. Waits(ToPart, PartAnswers, conn', toDev', devOut', toCli')
    BY <1>5, <2>1, <2>2, AnswerInFull, OutsideWaits
  <2>4. QED
    BY <1>2, <1>3, <1>4, <1>e, <1>11, <2>3 DEF InTurn, TurnInv
<1>12. CASE pc = "freeAck"
  <2>1. ToFree.cmd = "free"
    BY DEF ToFree
  <2>2. Waits(ToFree, {P("ok")}, conn, toDev, devOut, toCli)
    BY <1>6, <1>12 DEF InTurn
  <2>3. Waits(ToFree, {P("ok")}, conn', toDev', devOut', toCli')
    BY <1>5, <2>1, <2>2, AnswerInFull, OutsideWaits
  <2>4. QED
    BY <1>2, <1>3, <1>4, <1>e, <1>12, <2>3 DEF InTurn, TurnInv, P
<1>13. CASE pc \in {"idle", "probe", "wrap", "fetch", "free"}
  BY <1>2, <1>3, <1>e, <1>7, <1>13 DEF InTurn, TurnInv
<1>14. pc \in {"idle", "probe", "wrap", "fetch", "free", "await", "push", "drain", "awaitChunk", "freeAck"}
  BY DEF TurnInv, TypeInv, TTypeOK, Pcs
<1>15. QED
  BY <1>8, <1>10, <1>11, <1>12, <1>13, <1>14

\* A client that stands still finds a line with nothing on it.
LEMMA StandsStill ==
    ASSUME TypeInv', InOrder', isConnect' = TRUE \/ conn' = "dead",
           pc' \in {"idle", "probe", "wrap", "fetch", "free"}, Silent'
    PROVE  TurnInv'
BY DEF TurnInv, InTurn

\* A users read leaves nothing under way, whichever way it ends.
LEMMA UsersReadSilent ==
    ASSUME Timely = TRUE, TypeInv, Silent, isConnect = TRUE \/ conn = "dead",
           TableComes \/ TableFails
    PROVE  Silent' /\ (isConnect' = TRUE \/ conn' = "dead")
<1>1. \A cmds, n : Late(cmds, n) = {<<>>}
  BY DEF Late
<1>2. CASE TableComes
  BY <1>1, <1>2 DEF TableComes, Silent
<1>3. CASE TableFails
  <2>1. CASE /\ toCli' \in IF conn = "up" THEN {<<>>} ELSE {<<>>, toCli}
             /\ \E late \in Late({"users", "free"}, MaxLate) :
                   toDev' = IF conn = "up" THEN toDev \o late ELSE toDev
             /\ UNCHANGED <<devOut, conn, isConnect>>
    <3>1. toDev' = IF conn = "up" THEN toDev \o <<>> ELSE toDev
      BY <1>1, <2>1
    <3>2. <<>> \o <<>> = <<>>
      BY EmptySeq, ConcatEmptySeq
    <3>3. QED
      BY <2>1, <3>1, <3>2 DEF Silent
  <2>2. CASE toCli' = <<>> /\ devOut' = <<>> /\ conn' = "up" /\ isConnect' = TRUE
             /\ toDev' \in Late({"setting", "users", "free"}, MaxLate)
    BY <1>1, <2>2 DEF Silent
  <2>3. CASE toCli' = <<>> /\ devOut' = <<>> /\ conn' = "dead"
    BY <2>3 DEF Silent
  <2>4. QED
    BY <1>3, <2>1, <2>2, <2>3 DEF TableFails
<1>4. QED
  BY <1>2, <1>3

LEMMA CallTurn ==
    ASSUME Timely = TRUE, TurnInv, Calls
    PROVE  TurnInv'
<1>1. TypeInv' /\ TypeInv /\ conn \in {"up", "dead"}
  BY CallTypes DEF TurnInv, TypeInv, TTypeOK
<1>2. pc = "idle" /\ Silent /\ (isConnect = TRUE \/ conn = "dead")
  BY DEF Calls, StartScan, StartTemplates, GetUsers, Reconnect, NewCall, TurnInv, InTurn
<1>3. TableComes \/ TableFails => Silent' /\ (isConnect' = TRUE \/ conn' = "dead")
  BY <1>1, <1>2, UsersReadSilent
<1>4. CASE \E o \in Scans : StartScan(o)
  <2>1. pc' \in {"probe", "idle"} /\ op' # "templates"
    BY <1>4 DEF StartScan, NewCall, Scans, Return
  <2>2. Silent' /\ (isConnect' = TRUE \/ conn' = "dead")
    <3>1. UNCHANGED <<netVars, isConnect>> \/ TableComes \/ TableFails
      BY <1>4 DEF StartScan
    <3>2. QED
      BY <1>2, <1>3, <3>1 DEF netVars, Silent
  <2>3. InOrder'
    BY <2>1 DEF InOrder, ScanPcs, TablePcs
  <2>4. QED
    BY <1>1, <2>1, <2>2, <2>3, StandsStill
<1>5. CASE StartTemplates
  <2>1. /\ pc' = "wrap" /\ op' = "templates" /\ parts' = <<>>
        /\ UNCHANGED <<toDev, devOut, toCli, conn, isConnect>>
    BY <1>5 DEF StartTemplates, NewCall, netVars
  <2>2. InOrder' /\ Silent' /\ (isConnect' = TRUE \/ conn' = "dead")
    BY <1>2, <2>1 DEF InOrder, ScanPcs, TablePcs, Silent
  <2>3. QED
    BY <1>1, <2>1, <2>2, StandsStill
<1>6. CASE Reconnect(TRUE) \/ Reconnect(FALSE)
  <2>1. /\ pc' = "idle" /\ op' = "connect" /\ devOut' = <<>> /\ toCli' = <<>>
        /\ isConnect' = TRUE \/ conn' = "dead"
    BY <1>6 DEF Reconnect, NewCall, Return
  <2>2. toDev' = <<>>
    BY <1>6 DEF Reconnect, Late
  <2>3. InOrder' /\ Silent'
    BY <2>1, <2>2 DEF InOrder, ScanPcs, TablePcs, Silent
  <2>4. QED
    BY <1>1, <2>1, <2>3, StandsStill
<1>7. CASE GetUsers
  <2>1. pc' = "idle" /\ op' = "users" /\ (TableComes \/ TableFails)
    BY <1>7 DEF GetUsers, NewCall, Return
  <2>2. InOrder'
    BY <2>1 DEF InOrder, ScanPcs, TablePcs
  <2>3. QED
    BY <1>1, <1>3, <2>1, <2>2, StandsStill
<1>8. QED
  BY <1>4, <1>5, <1>6, <1>7 DEF Calls

LEMMA ScanTurn ==
    ASSUME Timely = TRUE, TurnInv, ScanSteps
    PROVE  TurnInv'
<1> USE DEF ScanPcs
<1>1. /\ pc \in ScanPcs /\ op # "templates" /\ op' = op
      /\ UNCHANGED <<conn, devOut, isConnect>>
      /\ isConnect' = TRUE \/ conn' = "dead"
  BY DEF TurnInv, InTurn, InOrder, ScanSteps, ProbeRefused, Probe, ProbeSendError, Await, AwaitCut,
         AwaitQuiet, PushRecv, PushQuiet, netVars
<1>2. TypeInv' /\ InTurn /\ TypeInv /\ conn \in {"up", "dead"}
  BY ScanTypes DEF TurnInv, TypeInv, TTypeOK
<1>3. pc' \in {"idle"} \cup ScanPcs => InOrder'
  BY <1>1 DEF InOrder, TablePcs
<1>4. pc' \in {"idle", "probe"} /\ Silent' => TurnInv'
  BY <1>1, <1>2, <1>3, StandsStill
<1>5. (pc' = "await" /\ Asking') \/ (pc' = "push" /\ Pushing') => TurnInv'
  BY <1>1, <1>2, <1>3 DEF TurnInv, InTurn
<1>6. ProbeFails => pc' = "idle"
  BY DEF ProbeFails, Return
<1>7. \A f : Advance(f) => pc' \in {"probe", "idle"}
  BY DEF Advance, Return
<1>8. CASE ProbeRefused \/ ProbeSendError
  <2>1. pc = "probe" /\ pc' = "idle" /\ UNCHANGED <<toDev, toCli>>
    BY <1>6, <1>8 DEF ProbeRefused, ProbeSendError, Return, netVars
  <2>2. QED
    BY <1>1, <1>2, <1>4, <2>1 DEF InTurn, Silent
<1>9. CASE Probe
  <2>1. Silent /\ pc' = "await"
    BY <1>2, <1>9 DEF Probe, InTurn
  <2>2. QED
    BY <1>2, <1>5, <1>9, <2>1, ProbeAsks
<1>10. CASE AwaitQuiet \/ PushQuiet
  <2>1. pc \in {"await", "push"} /\ MayTimeOut /\ pc' = "idle" /\ UNCHANGED <<toDev, toCli>>
    BY <1>6, <1>10 DEF AwaitQuiet, PushQuiet, netVars
  <2>2. conn = "dead" => devOut = <<>>
    BY <1>2, <2>1 DEF InTurn, Asking, Pushing, Waits, Owes
  <2>3. Silent
    BY <1>2, <2>1, <2>2, TimedOut
  <2>4. QED
    BY <1>1, <1>4, <2>1, <2>3 DEF Silent
<1>11. CASE Await
  <2>1. Asking
    BY <1>2, <1>11 DEF Await, InTurn
  <2>2. QED
    BY <1>4, <1>5, <1>7, <1>11, <2>1, Answered DEF Absent, Present
<1>12. CASE PushRecv
  <2>1. Pushing /\ pc = "push"
    BY <1>2, <1>12 DEF PushRecv, InTurn
  <2>2. QED
    BY <1>4, <1>5, <1>6, <1>7, <1>12, <2>1, PushAnswered DEF Present
<1>13. ~AwaitCut
  BY DEF AwaitCut
<1>14. QED
  BY <1>8, <1>9, <1>10, <1>11, <1>12, <1>13 DEF ScanSteps

\* A stream without parts holds no table.
LEMMA NoTable ==
    ASSUME NEW q, \A j \in DOMAIN q : q[j].k # "chunk"
    PROVE  ~HoldsTable(q)
<1>1. 1 \in 1..Chunks
  BY CountsAssumption
<1>2. ASSUME HoldsTable(q) PROVE FALSE
  <2>1. PICK j \in Payloads(q) : q[j].i = 1
    BY <1>1, <1>2 DEF HoldsTable
  <2>2. q[j].k = "chunk" /\ j \in DOMAIN q
    BY <1>2, <2>1 DEF HoldsTable, Payloads
  <2>3. QED
    BY <2>2
<1>3. QED
  BY <1>2

\* One more part, the one that was asked for.
LEMMA OneMorePart ==
    ASSUME parts \in Seq(Chunk), \A i \in DOMAIN parts : parts[i] = Part(i),
           Part(Len(parts) + 1) \in Chunk
    PROVE  LET more == Append(parts, Part(Len(parts) + 1))
           IN  \A i \in DOMAIN more : more[i] = Part(i)
<1> DEFINE more == Append(parts, Part(Len(parts) + 1))
<1>1. Len(parts) \in Nat /\ DOMAIN parts = 1..Len(parts)
  BY LenProperties
<1>2. /\ more \in Seq(Chunk) /\ Len(more) = Len(parts) + 1
      /\ \A i \in 1..Len(parts) : more[i] = parts[i]
      /\ more[Len(parts) + 1] = Part(Len(parts) + 1)
  BY AppendProperties
<1>3. DOMAIN more = 1..(Len(parts) + 1)
  BY <1>2, LenProperties
<1> HIDE DEF more
<1>4. ASSUME NEW i \in DOMAIN more PROVE more[i] = Part(i)
  <2>1. CASE i \in 1..Len(parts)
    BY <1>1, <1>2, <2>1
  <2>2. CASE i = Len(parts) + 1
    BY <1>2, <2>2
  <2>3. QED
    BY <1>1, <1>3, <2>1, <2>2
<1>5. QED
  BY <1>4 DEF more

\* A single frame that does not fit leaves nothing behind when it is dropped.
LEMMA NothingLeft ==
    ASSUME NEW q, Len(q) = 1, NEW r \in Leftovers(q)
    PROVE  r = <<>>
<1> DEFINE from(i) == SubSeq(q, i, Len(q))
<1>1. r \in {from(i) : i \in 2..(Len(q) + 1)} \cup {<<P("tail")>> \o from(i) : i \in 3..(Len(q) + 1)}
  BY Zenon DEF Leftovers
<1>2. from(2) = <<>>
  BY SubSeqEmpty
<1>3. 2..(Len(q) + 1) = {2} /\ 3..(Len(q) + 1) = {}
  OBVIOUS
<1> HIDE DEF from
<1>4. QED
  BY <1>1, <1>2, <1>3

LEMMA TableTurn ==
    ASSUME Timely = TRUE, TurnInv, TableSteps
    PROVE  TurnInv'
<1> USE DEF TablePcs
<1>1. /\ pc \in TablePcs /\ UNCHANGED <<op, callNo, at, isConnect, conn, devOut>>
  BY DEF TableSteps, WrapSend, WrapSendError, WrapRecv, WrapQuiet, ChunkSend, ChunkSendError,
         ChunkRecv, ChunkCut, ChunkQuiet, FreeSend, FreeSendError, FreeRecv, FreeQuiet, netVars, scanVars
<1>2. /\ TypeInv' /\ InTurn /\ InOrder /\ TypeInv /\ conn \in {"up", "dead"}
      /\ isConnect' = TRUE \/ conn' = "dead"
  BY <1>1, TableTypes DEF TurnInv, TypeInv, TTypeOK, InTurn
<1>3. op = "templates" /\ op' = "templates" /\ \A i \in DOMAIN parts : parts[i] = Part(i)
  BY <1>1, <1>2 DEF InOrder
<1>4. pc' \in {"idle"} \cup TablePcs
  BY <1>2, StaysTable
<1>5. (\A i \in DOMAIN parts' : parts'[i] = Part(i)) => InOrder'
  BY <1>1, <1>3, <1>4 DEF InOrder, ScanPcs, Part
<1>6. UNCHANGED parts => InOrder'
  BY <1>3, <1>5
<1>7. InOrder' /\ pc' \in {"idle", "wrap", "fetch", "free"} /\ Silent' => TurnInv'
  BY <1>2, StandsStill
<1>8. pc \in {"wrap", "fetch", "free"} => Silent
  BY <1>2 DEF InTurn
<1>9. pc \in {"drain", "awaitChunk", "freeAck"} /\ MayTimeOut => Silent
  <2>1. pc \in {"drain", "awaitChunk", "freeAck"} => (conn = "dead" => devOut = <<>>)
    BY <1>2 DEF InTurn, Waits, Owes
  <2>2. QED
    BY <1>2, <2>1, TimedOut
<1>10. UNCHANGED <<toDev, toCli>> /\ Silent => Silent'
  BY <1>1 DEF Silent
<1>11. CASE WrapSend
  <2>1. pc = "wrap" /\ pc' = "drain" /\ got' = <<>> /\ SendTo(ToTable) /\ UNCHANGED <<toCli, parts>>
    BY <1>11 DEF WrapSend, ToTable, tabVars
  <2>2. Waits(ToTable, TableAnswers, conn', toDev', devOut', toCli')
    BY <1>1, <1>2, <1>8, <2>1, Sent
  <2>3. ToTable' = ToTable /\ TableAnswers' = TableAnswers
    BY DEF ToTable, TableAnswers
  <2>4. QED
    BY <1>2, <1>6, <2>1, <2>2, <2>3 DEF TurnInv, InTurn
<1>12. CASE WrapSendError \/ ChunkSendError \/ FreeSendError
  <2>1. /\ pc \in {"wrap", "fetch", "free"} /\ pc' \in {"idle", "free"}
        /\ UNCHANGED <<toDev, toCli, parts>>
    BY <1>12 DEF WrapSendError, ChunkSendError, FreeSendError, ChunkFails, Release, Return, netVars, tabVars
  <2>2. QED
    BY <1>6, <1>7, <1>8, <1>10, <2>1
<1>13. CASE ChunkQuiet \/ FreeQuiet
  <2>1. /\ pc \in {"awaitChunk", "freeAck"} /\ MayTimeOut /\ pc' \in {"idle", "free"}
        /\ UNCHANGED <<toDev, toCli, parts>>
    BY <1>13 DEF ChunkQuiet, FreeQuiet, ChunkFails, Release, Return, netVars, tabVars
  <2>2. QED
    BY <1>6, <1>7, <1>9, <1>10, <2>1
<1>14. CASE WrapQuiet
  <2>1. pc = "drain" /\ MayTimeOut /\ UNCHANGED <<toDev, toCli>> /\ got = <<>>
    BY <1>2, <1>14 DEF WrapQuiet, netVars, InTurn
  <2>2. Payloads(got) = {}
    BY <2>1 DEF Payloads
  <2>3. pc' \in {"wrap", "idle"} /\ UNCHANGED parts
    BY <1>14, <2>2 DEF WrapQuiet, Return
  <2>4. QED
    BY <1>6, <1>7, <1>9, <1>10, <2>1, <2>3
<1>15. CASE WrapRecv
  <2>1. pc = "drain" /\ toCli # <<>> /\ toCli' = <<>> /\ toDev' = toDev /\ got' = got \o toCli
    BY <1>15 DEF WrapRecv
  <2>2. got = <<>> /\ Waits(ToTable, TableAnswers, conn, toDev, devOut, toCli)
    BY <1>2, <2>1 DEF InTurn
  <2>3. \A p \in TableAnswers : Closes(p)
    BY AnswerInFull
  <2>4. /\ Len(toCli) = 1 /\ toCli[1] \in TableAnswers
        /\ devOut = <<>> /\ (conn = "up" => toDev = <<>>)
    BY <2>1, <2>2, <2>3, AnswerCame
  <2>5. toCli \in Seq(Piece)
    BY <1>2 DEF TypeInv, TTypeOK
  <2>6. got' = toCli /\ DOMAIN toCli = {1}
    <3>1. <<>> \o toCli = toCli /\ DOMAIN toCli = 1..1
      BY <2>4, <2>5, ConcatEmptySeq, LenProperties
    <3>2. QED
      BY <2>1, <2>2, <3>1
  <2>7. toCli[1].k \in {"announce", "err"}
    BY <2>4 DEF TableAnswers, P
  <2>8. HasAck(toCli) /\ ~HoldsTable(toCli)
    BY <2>6, <2>7, NoTable DEF HasAck, IsAck
  <2>9. Announced(toCli)
    BY <1>15, <2>6, <2>8 DEF WrapRecv
  <2>10. pc' \in {"fetch", "idle"} /\ UNCHANGED parts
    BY <2>8, <2>9 DEF Announced, Return
  <2>11. Silent'
    BY <1>1, <2>1, <2>4 DEF Silent
  <2>12. QED
    BY <1>6, <1>7, <2>10, <2>11
<1>16. CASE ChunkSend
  <2>1. pc = "fetch" /\ pc' = "awaitChunk" /\ SendTo(ToPart) /\ UNCHANGED <<toCli, parts>>
    BY <1>16 DEF ChunkSend, ToPart, tabVars
  <2>2. Waits(ToPart, PartAnswers, conn', toDev', devOut', toCli')
    BY <1>1, <1>2, <1>8, <2>1, Sent
  <2>3. ToPart' = ToPart /\ PartAnswers' = PartAnswers
    BY <1>1, <2>1 DEF ToPart, PartAnswers, Part
  <2>4. QED
    BY <1>2, <1>6, <2>1, <2>2, <2>3 DEF TurnInv, InTurn
<1>17. CASE ChunkRecv
  <2>1. pc = "awaitChunk" /\ toCli # <<>> /\ toDev' = toDev
    BY <1>17 DEF ChunkRecv
  <2>2. Waits(ToPart, PartAnswers, conn, toDev, devOut, toCli)
    BY <1>2, <2>1 DEF InTurn
  <2>3. \A p \in PartAnswers : Closes(p)
    BY AnswerInFull
  <2>4. /\ Len(toCli) = 1 /\ toCli[1] \in PartAnswers
        /\ devOut = <<>> /\ (conn = "up" => toDev = <<>>)
    BY <2>1, <2>2, <2>3, AnswerCame
  <2>5. toCli' = <<>> => Silent'
    BY <1>1, <2>1, <2>4 DEF Silent
  <2>6. CASE toCli' \in Leftovers(toCli) /\ ChunkFails
    <3>1. toCli' = <<>>
      BY <2>4, <2>6, NothingLeft
    <3>2. pc' = "free" /\ UNCHANGED parts
      BY <2>6 DEF ChunkFails, Release
    <3>3. QED
      BY <1>6, <1>7, <2>5, <3>1, <3>2
  <2>7. CASE /\ ChunkFits(toCli[1]) /\ parts' = Append(parts, toCli[1]) /\ toCli' = <<>>
             /\ IF Len(parts') < Chunks THEN pc' = "fetch" /\ result' = result
                ELSE Release(IF IsTable(parts') THEN "ok" ELSE "error")
    <3>1. toCli[1] = Part(Len(parts) + 1)
      BY <2>4, <2>7 DEF ChunkFits, PartAnswers, P
    <3>2. parts \in Seq(Chunk) /\ callNo \in Nat
      BY <1>2 DEF TypeInv, TTypeOK
    <3>3. Part(Len(parts) + 1) \in Chunk
      <4>1. toCli \in Seq(Piece)
        BY <1>2 DEF TypeInv, TTypeOK
      <4>2. 1 \in 1..Len(toCli)
        BY <2>4
      <4>3. toCli[1] \in Piece /\ toCli[1].k = "chunk"
        BY <2>7, <4>1, <4>2, ElementOfSeq DEF ChunkFits
      <4>4. QED
        BY <3>1, <4>3, PieceOf
    <3>4. \A i \in DOMAIN parts' : parts'[i] = Part(i)
      BY <1>3, <2>7, <3>1, <3>2, <3>3, OneMorePart
    <3>5. pc' \in {"fetch", "free"}
      BY <2>7 DEF Release
    <3>6. QED
      BY <1>5, <1>7, <2>5, <2>7, <3>4, <3>5
  <2>8. QED
    BY <1>17, <2>6, <2>7 DEF ChunkRecv
<1>18. CASE FreeSend
  <2>1. pc = "free" /\ pc' = "freeAck" /\ SendTo(ToFree) /\ UNCHANGED <<toCli, parts>>
    BY <1>18 DEF FreeSend, ToFree, tabVars
  <2>2. Waits(ToFree, {P("ok")}, conn', toDev', devOut', toCli')
    BY <1>1, <1>2, <1>8, <2>1, Sent
  <2>3. ToFree' = ToFree /\ P("ok")' = P("ok")
    BY DEF ToFree, P
  <2>4. QED
    BY <1>2, <1>6, <2>1, <2>2, <2>3 DEF TurnInv, InTurn
<1>19. CASE FreeRecv
  <2>1. /\ pc = "freeAck" /\ toCli # <<>> /\ toDev' = toDev /\ pc' = "idle" /\ UNCHANGED parts
        /\ toCli' = (IF toCli[1].k \in {"ok", "err"} THEN <<>> ELSE <<P("tail")>>) \o Tail(toCli)
    BY <1>19 DEF FreeRecv, Return, tabVars
  <2>2. Waits(ToFree, {P("ok")}, conn, toDev, devOut, toCli)
    BY <1>2, <2>1 DEF InTurn
  <2>3. \A p \in {P("ok")} : Closes(p)
    BY AnswerInFull
  <2>4. /\ toCli[1] = P("ok") /\ Tail(toCli) = <<>>
        /\ devOut = <<>> /\ (conn = "up" => toDev = <<>>)
    BY <2>1, <2>2, <2>3, AnswerCame
  <2>5. toCli' = <<>> \o <<>>
    BY <2>1, <2>4 DEF P
  <2>6. toCli' = <<>>
    BY <2>5, ConcatEmptySeq, EmptySeq
  <2>7. Silent'
    BY <1>1, <2>1, <2>4, <2>6 DEF Silent
  <2>8. QED
    BY <1>6, <1>7, <2>1, <2>7
<1>20. ~ChunkCut
  BY DEF ChunkCut
<1>21. QED
  BY <1>11, <1>12, <1>13, <1>14, <1>15, <1>16, <1>17, <1>18, <1>19, <1>20 DEF TableSteps

LEMMA TurnStep ==
    ASSUME Timely = TRUE, TurnInv, [Next]_tvars
    PROVE  TurnInv'
<1>1. CASE UNCHANGED tvars
  <2>1. TypeInv'
    BY <1>1, TypeStep DEF TurnInv
  <2>2. UNCHANGED <<pc, op, callNo, at, got, parts, isConnect, conn, toDev, devOut, toCli>>
    BY <1>1 DEF tvars, netVars, cliVars, scanVars, tabVars
  <2>3. InTurn' /\ InOrder'
    BY <2>2 DEF TurnInv, InTurn, InOrder, Silent, Asking, Pushing, Frames, ToProbe, ToTable, ToPart, ToFree,
                TableAnswers, PartAnswers, Part, P
  <2>4. QED
    BY <2>1, <2>3 DEF TurnInv
<1>2. QED
  BY <1>1, CallTurn, ScanTurn, TableTurn, OutsideTurn DEF Next

LEMMA InitTurn == Init => TurnInv
<1> SUFFICES ASSUME Init PROVE TurnInv
  OBVIOUS
<1>1. TypeInv /\ pc = "idle" /\ Silent /\ isConnect = TRUE /\ op = "connect"
  BY InitTypes DEF Init, Silent
<1>2. QED
  BY <1>1 DEF TurnInv, InTurn, InOrder, ScanPcs, TablePcs

\* When no answer is slower than its timeout, the parts of a table that is
\* returned were all fetched by the call that returns it, whatever is refused,
\* lost or broken: an answer of an earlier call is never taken for a part.
THEOREM TablesAreCurrent ==
    ASSUME Timely = TRUE
    PROVE  Spec => []TableIsCurrent
<1>1. TurnInv => TableIsCurrent
  BY DEF TurnInv, InOrder, TableIsCurrent, Done, Part
<1>2. QED
  BY <1>1, InitTurn, TurnStep, PTL DEF Spec

\* When no answer is slower than its timeout, a scan that starts with the flag
\* _wl10_stream_safe set finds a line that owes nothing, whatever calls went
\* before it and however they ended: no call that leaves the flag alone, a users
\* read, a table read or a reconnection, leaves an answer behind.
THEOREM ScansAreClean ==
    ASSUME Timely = TRUE
    PROVE  Spec => []ScansBeginClean
<1> DEFINE Clean == TurnInv /\ ~owed
<1>1. Init => Clean
  BY InitTurn DEF Init
<1>2. Clean /\ [Next]_tvars => Clean'
  <2> SUFFICES ASSUME TurnInv, ~owed, [Next]_tvars PROVE TurnInv' /\ ~owed'
    OBVIOUS
  <2>1. TurnInv'
    BY TurnStep
  <2>2. CASE \E o \in Scans : StartScan(o)
    <3>1. pc' \in {"probe", "idle"} /\ owed' = (streamSafe /\ ~Silent')
      BY <2>2 DEF StartScan, Return
    <3>2. Silent'
      BY <2>1, <3>1 DEF TurnInv, InTurn
    <3>3. QED
      BY <2>1, <3>1, <3>2
  <2>3. ASSUME owed' = owed PROVE TurnInv' /\ ~owed'
    BY <2>1, <2>3
  <2>4. CASE StartTemplates \/ GetUsers \/ Reconnect(TRUE) \/ Reconnect(FALSE)
    <3>1. owed' = owed
      BY <2>4 DEF StartTemplates, GetUsers, Reconnect, scanVars
    <3>2. QED
      BY <2>3, <3>1
  <2>5. CASE ScanSteps
    <3>1. owed' = owed
      BY <2>5 DEF ScanSteps, ProbeRefused, Probe, ProbeSendError, Await, AwaitCut, AwaitQuiet,
                  PushRecv, PushQuiet, ProbeFails, Present, Absent, Advance, scanVars
    <3>2. QED
      BY <2>3, <3>1
  <2>6. CASE TableSteps
    <3>1. owed' = owed
      BY <2>6 DEF TableSteps, WrapSend, WrapSendError, WrapRecv, WrapQuiet, ChunkSend,
                  ChunkSendError, ChunkRecv, ChunkCut, ChunkQuiet, FreeSend, FreeSendError,
                  FreeRecv, FreeQuiet, scanVars
    <3>2. QED
      BY <2>3, <3>1
  <2>7. CASE Outside \/ UNCHANGED tvars
    <3>1. owed' = owed
      BY <2>7 DEF Outside, Serve, ServeMute, Refuse, Break, Deliver, TakeRequest, tvars, cliVars, scanVars
    <3>2. QED
      BY <2>3, <3>1
  <2>8. QED
    BY <2>2, <2>4, <2>5, <2>6, <2>7 DEF Next, Calls
<1>3. Clean => ScansBeginClean
  BY DEF ScansBeginClean
<1>4. QED
  BY <1>1, <1>2, <1>3, PTL DEF Spec

-----------------------------------------------------------------------------
(* The terminal's buffer.  Each send of the announcement request that comes *)
(* to nothing on a live connection costs a fault, so a call that meets at   *)
(* most one fault has not used up its sends; its request is refused only on *)
(* a buffer that was free; and once the release was served it is free.      *)

Granted == toCli \in Seq({P("announce")}) /\ devOut \in Seq({P("announce")})

SendsCost ==
    pc \in {"wrap", "drain"} /\ conn = "up" =>
        raws <= 1 + faults /\ (pc = "drain" /\ Silent => raws <= faults)

NothingWrong ==
    /\ faults = 0 => conn = "up"
    /\ faults = 0 /\ pc \in ScanPcs \cup {"idle", "wrap"} => ~buffer
    /\ faults = 0 /\ pc = "drain" /\ toDev # <<>> => ~buffer

FreedInv ==
    /\ SendsCost
    /\ NothingWrong
    /\ pc = "drain" /\ faults <= 1 /\ conn = "up" => ~buffer \/ Granted
    /\ pc = "freeAck" /\ conn = "up" /\ toDev = <<>> => ~buffer

LEMMA GrantedMoves ==
    ASSUME Granted, NEW n \in 1..Len(devOut), Deliver(n)
    PROVE  Granted'
<1> DEFINE S == {P("announce")}
<1>1. toCli \in Seq(S) /\ devOut \in Seq(S)
  BY DEF Granted
<1>2. Len(devOut) \in Nat
  BY <1>1, LenProperties
<1>3. n \in Int /\ n <= Len(devOut) /\ n + 1 \in Nat \ {0} /\ Len(devOut) <= Len(devOut) /\ Len(devOut) \in Int
  BY <1>2
<1> HIDE DEF S
<1>4. SubSeq(devOut, 1, n) \in Seq(S) /\ SubSeq(devOut, n + 1, Len(devOut)) \in Seq(S)
  BY <1>1, <1>3, PartType
<1>5. toCli \o SubSeq(devOut, 1, n) \in Seq(S)
  BY <1>1, <1>4, ConcatProperties
<1>6. toCli' \in Seq(S) /\ devOut' \in Seq(S)
  BY <1>4, <1>5 DEF Deliver
<1>7. QED
  BY <1>6 DEF Granted, S, P

\* What the terminal served, by the line that was left.
LEMMA OutsideFreed ==
    ASSUME TurnInv, FreedInv, Outside
    PROVE  FreedInv'
<1>1. UNCHANGED <<pc, raws>>
  BY DEF Outside, Serve, ServeMute, Refuse, Break, Deliver, TakeRequest, cliVars, tabVars
<1>2. /\ faults \in Nat /\ conn \in {"up", "dead"} /\ buffer \in BOOLEAN
      /\ devOut \in Seq(Piece) /\ toCli \in Seq(Piece) /\ raws \in Nat
  BY DEF TurnInv, TypeInv, TTypeOK
<1>3. faults' \in Nat /\ faults <= faults' /\ (conn' = "up" => conn = "up")
  BY <1>2 DEF Outside, Serve, ServeMute, Refuse, Break, Deliver, TakeRequest, Fault
<1>4. InTurn
  BY DEF TurnInv
<1>5. faults = 0 => conn = "up"
  BY DEF FreedInv, NothingWrong
<1>6. pc = "drain" /\ conn = "up" /\ toDev # <<>> => toDev = <<ToTable>> /\ devOut = <<>> /\ toCli = <<>>
  BY <1>4 DEF InTurn, Waits, Owes
<1>7. pc = "freeAck" /\ conn = "up" /\ toDev # <<>> => toDev = <<ToFree>>
  BY <1>4 DEF InTurn, Waits, Owes
<1>8. pc \in {"await", "push"} /\ conn = "up" /\ toDev # <<>> => toDev = <<ToProbe>>
  BY <1>4 DEF InTurn, Asking, Pushing, Waits, Owes
<1>9. pc \in {"idle", "probe", "wrap"} /\ conn = "up" => toDev = <<>> /\ devOut = <<>>
  BY <1>4 DEF InTurn, Silent
<1>10. /\ Head(<<ToTable>>).cmd = "wrapped" /\ Tail(<<ToTable>>) = <<>>
       /\ Head(<<ToFree>>).cmd = "free" /\ Tail(<<ToFree>>) = <<>>
       /\ Head(<<ToProbe>>).cmd = "probe" /\ Tail(<<ToProbe>>) = <<>>
  BY DEF ToTable, ToFree, ToProbe
<1>11. <<P("announce")>> # <<>> /\ <<P("err")>> # <<>>
  OBVIOUS
<1>12. CASE Serve
  <2>1. /\ toDev # <<>> /\ toDev' = Tail(toDev) /\ UNCHANGED <<toCli, conn, faults>>
        /\ buffer' = (Head(toDev).cmd = "wrapped" \/ (buffer /\ Head(toDev).cmd # "free"))
    BY <1>12 DEF Serve, TakeRequest
  <2>2. pc = "drain" /\ conn = "up" => devOut' = <<P("announce")>>
    <3>1. SUFFICES ASSUME pc = "drain", conn = "up" PROVE devOut' = <<P("announce")>>
      OBVIOUS
    <3>2. toDev = <<ToTable>> /\ devOut = <<>>
      BY <1>6, <2>1, <3>1
    <3>3. Answer(ToTable) = <<P("announce")>>
      <4>1. ToTable.cmd = "wrapped" /\ ToTable.cmd # "probe"
        BY DEF ToTable
      <4>2. QED
        BY <4>1, Zenon DEF Answer
    <3>4. devOut' = <<>> \o <<P("announce")>>
      BY <1>12, <3>1, <3>2, <3>3 DEF Serve
    <3>5. QED
      BY <3>4, OneType, ConcatEmptySeq
  <2>3. SendsCost'
    BY <1>1, <1>11, <2>1, <2>2 DEF FreedInv, SendsCost, Silent
  <2>4. NothingWrong'
    BY <1>1, <1>5, <1>6, <1>8, <1>9, <1>10, <2>1 DEF FreedInv, NothingWrong, ScanPcs
  <2>5. pc = "drain" /\ conn = "up" => Granted'
    <3>1. SUFFICES ASSUME pc = "drain", conn = "up" PROVE Granted'
      OBVIOUS
    <3>2. toCli' = <<>> /\ devOut' = <<P("announce")>>
      BY <1>6, <2>1, <2>2, <3>1
    <3>3. <<>> \in Seq({P("announce")}) /\ <<P("announce")>> \in Seq({P("announce")})
      BY EmptySeq, OneType
    <3>4. QED
      BY <3>2, <3>3 DEF Granted, P
  <2>6. pc = "freeAck" /\ conn = "up" => ~buffer'
    BY <1>7, <1>10, <2>1
  <2>7. QED
    BY <1>1, <2>1, <2>3, <2>4, <2>5, <2>6 DEF FreedInv
<1>13. CASE ServeMute
  <2>1. /\ toDev # <<>> /\ toDev' = Tail(toDev) /\ UNCHANGED <<toCli, conn, devOut>>
        /\ buffer' = (Head(toDev).cmd = "wrapped" \/ (buffer /\ Head(toDev).cmd # "free"))
        /\ faults' = faults + 1
    BY <1>13 DEF ServeMute, TakeRequest, Fault
  <2>2. SendsCost'
    BY <1>1, <1>2, <2>1 DEF FreedInv, SendsCost
  <2>3. pc = "drain" /\ conn = "up" => Granted'
    <3>1. pc = "drain" /\ conn = "up" => devOut' = <<>> /\ toCli' = <<>>
      BY <1>6, <2>1
    <3>2. <<>> \in Seq({P("announce")})
      BY EmptySeq
    <3>3. QED
      BY <3>1, <3>2 DEF Granted, P
  <2>4. pc = "freeAck" /\ conn = "up" => ~buffer'
    BY <1>7, <1>10, <2>1
  <2>5. NothingWrong'
    BY <1>2, <2>1 DEF NothingWrong
  <2>6. QED
    BY <1>1, <2>1, <2>2, <2>3, <2>4, <2>5 DEF FreedInv
<1>14. CASE Refuse
  <2>1. /\ toDev # <<>> /\ Head(toDev).cmd \in {"wrapped", "chunk"} /\ toDev' = Tail(toDev)
        /\ UNCHANGED <<toCli, conn, buffer>> /\ faults' = faults + 1
        /\ devOut' = IF conn = "up" THEN Append(devOut, P("err")) ELSE devOut
    BY <1>14 DEF Refuse, Fault, devVars
  <2>2. conn = "up" => devOut' # <<>>
    <3>1. P("err") \in Piece
      BY PieceTypes
    <3>2. Append(devOut, P("err")) # <<>>
      BY <1>2, <3>1, AppendProperties
    <3>3. QED
      BY <2>1, <3>2
  <2>3. SendsCost'
    BY <1>1, <1>2, <2>1, <2>2 DEF FreedInv, SendsCost, Silent
  <2>4. NothingWrong'
    BY <1>2, <2>1 DEF NothingWrong
  <2>5. pc = "drain" /\ faults' <= 1 => ~buffer'
    BY <1>2, <2>1 DEF FreedInv, NothingWrong
  <2>6. ~(pc = "freeAck" /\ conn = "up")
    BY <1>7, <1>10, <2>1
  <2>7. QED
    BY <1>1, <2>1, <2>3, <2>4, <2>5, <2>6 DEF FreedInv
<1>15. CASE Break
  <2>1. conn' = "dead" /\ faults' = faults + 1
    BY <1>15 DEF Break, Fault
  <2>2. QED
    BY <1>2, <2>1 DEF FreedInv, SendsCost, NothingWrong
<1>16. CASE \E n \in 1..Len(devOut) : Deliver(n)
  <2>1. PICK n \in 1..Len(devOut) : Deliver(n)
    BY <1>16
  <2>2. UNCHANGED <<toDev, conn, faults, buffer>> /\ conn = "up"
    BY <2>1 DEF Deliver, devVars
  <2>3. toCli' # <<>>
    <3>1. Len(devOut) \in Nat
      BY <1>2, LenProperties
    <3>2. n \in Int /\ n <= Len(devOut) /\ n >= 1
      BY <3>1
    <3>3. SubSeq(devOut, 1, n) \in Seq(Piece)
      BY <1>2, <3>2, PartType
    <3>4. \A i \in 1..n : devOut[i] \in Piece
      BY <1>2, <3>1, <3>2, ElementOfSeq
    <3>5. Len(SubSeq(devOut, 1, n)) = IF 1 <= n THEN n - 1 + 1 ELSE 0
      BY <3>2, <3>4, SubSeqProperties
    <3>6. SubSeq(devOut, 1, n) # <<>>
      BY <3>2, <3>5, EmptySeq
    <3>7. toCli \o SubSeq(devOut, 1, n) # <<>>
      <4> DEFINE part == SubSeq(devOut, 1, n)
      <4> HIDE DEF part
      <4>1. part \in Seq(Piece) /\ part # <<>> /\ toCli \in Seq(Piece)
        BY <1>2, <3>3, <3>6 DEF part
      <4>2. toCli \o part # <<>>
        BY <4>1, ConcatEqualIffEmpty
      <4>3. QED
        BY <4>2 DEF part
    <3>8. QED
      BY <2>1, <3>7 DEF Deliver
  <2>4. SendsCost'
    BY <1>1, <2>2, <2>3 DEF FreedInv, SendsCost, Silent
  <2>5. Granted => Granted'
    BY <2>1, GrantedMoves
  <2>6. QED
    BY <1>1, <2>2, <2>4, <2>5 DEF FreedInv, NothingWrong
<1>17. QED
  BY <1>12, <1>13, <1>14, <1>15, <1>16 DEF Outside

\* A users read without a fault leaves the connection up and the buffer free.
LEMMA UsersReadFreed ==
    ASSUME Timely = TRUE, faults \in Nat, faults = 0 => conn = "up" /\ ~buffer,
           TableComes \/ TableFails
    PROVE  faults' = 0 => conn' = "up" /\ ~buffer'
<1>1. buffer' \in {buffer, FALSE}
  BY DEF TableComes, TableFails
<1>2. CASE TableComes
  <2>1. conn' = "up" /\ faults' = faults
    BY <1>2 DEF TableComes
  <2>2. QED
    BY <1>1, <2>1
<1>3. CASE TableFails
  <2>1. faults' = faults + 1 \/ (conn = "dead" /\ faults' = faults)
    BY <1>3 DEF TableFails, Adversity, Fault
  <2>2. QED
    BY <2>1
<1>4. QED
  BY <1>2, <1>3

LEMMA CallFreed ==
    ASSUME Timely = TRUE, TurnInv, FreedInv, Calls
    PROVE  FreedInv'
<1>1. pc = "idle" /\ faults \in Nat
  BY DEF Calls, StartScan, StartTemplates, GetUsers, Reconnect, NewCall, TurnInv, TypeInv, TTypeOK
<1>2. faults = 0 => conn = "up" /\ ~buffer
  BY <1>1 DEF FreedInv, NothingWrong
<1>3. TableComes \/ TableFails => (faults' = 0 => conn' = "up" /\ ~buffer')
  BY <1>1, <1>2, UsersReadFreed
<1>4. ASSUME pc' \in {"idle", "probe"}, faults' = 0 => conn' = "up" /\ ~buffer' PROVE FreedInv'
  BY <1>4 DEF FreedInv, SendsCost, NothingWrong
<1>5. CASE (\E o \in Scans : StartScan(o)) \/ GetUsers
  <2>1. pc' \in {"idle", "probe"}
    BY <1>5 DEF StartScan, GetUsers, Return
  <2>2. UNCHANGED <<netVars, buffer>> \/ TableComes \/ TableFails
    BY <1>5 DEF StartScan, GetUsers
  <2>3. faults' = 0 => conn' = "up" /\ ~buffer'
    BY <1>2, <1>3, <2>2 DEF netVars
  <2>4. QED
    BY <1>4, <2>1, <2>3
<1>6. CASE StartTemplates
  <2>1. pc' = "wrap" /\ raws' = 1 /\ UNCHANGED <<faults, conn, buffer>>
    BY <1>6 DEF StartTemplates, netVars, devVars
  <2>2. QED
    BY <1>1, <1>2, <2>1 DEF FreedInv, SendsCost, NothingWrong
<1>7. CASE Reconnect(TRUE) /\ UNCHANGED faults
  <2>1. pc' = "idle" /\ conn' = "up" /\ faults' = faults /\ buffer' \in {buffer, FALSE}
    BY <1>7 DEF Reconnect, Return
  <2>2. QED
    BY <1>2, <1>4, <2>1
<1>8. CASE Reconnect(FALSE) /\ Fault
  <2>1. pc' = "idle" /\ faults' = faults + 1
    BY <1>8 DEF Reconnect, Return, Fault
  <2>2. QED
    BY <1>1, <1>4, <2>1
<1>9. QED
  BY <1>5, <1>6, <1>7, <1>8 DEF Calls

LEMMA ScanFreed ==
    ASSUME TurnInv, FreedInv, ScanSteps
    PROVE  FreedInv'
<1>1. pc \in ScanPcs /\ UNCHANGED <<conn, faults, buffer>>
  BY DEF ScanSteps, ProbeRefused, Probe, ProbeSendError, Await, AwaitCut, AwaitQuiet, PushRecv,
         PushQuiet, netVars, devVars, ScanPcs
<1>2. pc' \in {"idle"} \cup ScanPcs
  BY <1>1 DEF ScanSteps, ProbeRefused, Probe, ProbeSendError, Await, AwaitCut, AwaitQuiet, PushRecv,
         PushQuiet, ProbeFails, Present, Absent, Advance, Return, ScanPcs
<1>3. QED
  BY <1>1, <1>2 DEF FreedInv, SendsCost, NothingWrong, ScanPcs

\* What a failed announcement leaves: after one fault the buffer is free.
LEMMA TableFreed ==
    ASSUME Timely = TRUE, TurnInv, FreedInv, TableSteps
    PROVE  /\ FreedInv'
           /\ RawAttempts >= 2 /\ pc' = "idle" /\ conn = "up" /\ faults <= 1 => ~buffer'
<1>1. UNCHANGED <<conn, faults, buffer, devOut>>
  BY DEF TableSteps, WrapSend, WrapSendError, WrapRecv, WrapQuiet, ChunkSend, ChunkSendError,
         ChunkRecv, ChunkCut, ChunkQuiet, FreeSend, FreeSendError, FreeRecv, FreeQuiet, netVars, devVars
<1>2. /\ faults \in Nat /\ conn \in {"up", "dead"} /\ raws \in Nat /\ raws >= 1 /\ buffer \in BOOLEAN
      /\ toCli \in Seq(Piece) /\ toDev \in Seq(Request)
  BY DEF TurnInv, TypeInv, TTypeOK
<1>3. InTurn /\ (isConnect = TRUE \/ conn = "dead")
  BY DEF TurnInv, InTurn
<1>4. /\ faults = 0 => conn = "up"
      /\ SendsCost /\ NothingWrong
  BY DEF FreedInv, NothingWrong
<1>5. pc \in {"drain", "freeAck"} /\ MayTimeOut => Silent
  <2>1. pc \in {"drain", "freeAck"} => (conn = "dead" => devOut = <<>>)
    BY <1>3 DEF InTurn, Waits, Owes
  <2>2. QED
    BY <1>2, <2>1, TimedOut
<1>6. CASE WrapSend
  <2>1. pc = "wrap" /\ pc' = "drain" /\ UNCHANGED <<raws, toCli>> /\ SendTo(ToTable)
    BY <1>6 DEF WrapSend, tabVars, ToTable
  <2>2. Silent
    BY <1>3, <2>1 DEF InTurn
  <2>3. conn = "up" => toDev' # <<>>
    BY <2>1, <2>2 DEF SendTo, Silent
  <2>4. <<>> \in Seq({P("announce")})
    BY EmptySeq
  <2>5. Granted'
    BY <1>1, <2>1, <2>2, <2>4 DEF Granted, Silent, P
  <2>6. QED
    BY <1>1, <1>4, <2>1, <2>3, <2>5 DEF FreedInv, SendsCost, NothingWrong, Silent
<1>7. CASE WrapSendError \/ FreeSendError
  <2>1. conn = "dead" /\ pc' = "idle"
    BY <1>3, <1>7 DEF WrapSendError, FreeSendError, Return
  <2>2. QED
    BY <1>1, <1>4, <2>1 DEF FreedInv, SendsCost, NothingWrong
<1>8. CASE WrapRecv
  <2>1. pc = "drain" /\ toCli # <<>> /\ UNCHANGED <<toDev, raws>> /\ got' = got \o toCli
    BY <1>8 DEF WrapRecv
  <2>2. got = <<>> /\ Waits(ToTable, TableAnswers, conn, toDev, devOut, toCli)
    BY <1>3, <2>1 DEF InTurn
  <2>3. \A p \in TableAnswers : Closes(p)
    BY AnswerInFull
  <2>4. Len(toCli) = 1 /\ toCli[1] \in TableAnswers
    BY <2>1, <2>2, <2>3, AnswerCame
  <2>5. got' = toCli /\ DOMAIN toCli = {1}
    <3>1. <<>> \o toCli = toCli /\ DOMAIN toCli = 1..1
      BY <1>2, <2>4, ConcatEmptySeq, LenProperties
    <3>2. QED
      BY <2>1, <2>2, <3>1
  <2>6. toCli[1].k \in {"announce", "err"}
    BY <2>4 DEF TableAnswers, P
  <2>7. HasAck(toCli) /\ ~HoldsTable(toCli)
    BY <2>5, <2>6, NoTable DEF HasAck, IsAck
  <2>8. Announced(toCli)
    BY <1>8, <2>5, <2>7 DEF WrapRecv
  <2>9. pc' = "fetch" \/ (pc' = "idle" /\ ~IsAnnouncement(toCli, 1))
    BY <2>5, <2>7, <2>8 DEF Announced, Return
  <2>10. Granted => toCli[1] = P("announce")
    <3>1. 1 \in 1..Len(toCli)
      BY <2>4
    <3>2. toCli \in Seq({P("announce")}) => toCli[1] \in {P("announce")}
      BY <3>1, ElementOfSeq
    <3>3. QED
      BY <3>2 DEF Granted
  <2>11. toCli[1] = P("announce") => IsAnnouncement(toCli, 1)
    BY <2>5 DEF IsAnnouncement, Payloads, Carries, P
  <2>12. pc' = "idle" /\ conn = "up" /\ faults <= 1 => ~buffer
    BY <2>1, <2>9, <2>10, <2>11 DEF FreedInv
  <2>13. QED
    BY <1>1, <1>2, <1>4, <2>9, <2>12 DEF FreedInv, SendsCost, NothingWrong, ScanPcs
<1>9. CASE WrapQuiet
  <2>1. pc = "drain" /\ MayTimeOut /\ got = <<>> /\ Silent
    BY <1>3, <1>5, <1>9 DEF WrapQuiet, InTurn
  <2>2. Payloads(got) = {}
    BY <2>1 DEF Payloads
  <2>3. \/ pc' = "wrap" /\ raws' = raws + 1
        \/ pc' = "idle" /\ raws = RawAttempts
    BY <1>9, <2>2 DEF WrapQuiet, Return
  <2>4. conn = "up" => raws <= faults
    BY <1>4, <2>1 DEF SendsCost
  <2>5. faults # 0
    BY <1>2, <1>4, <2>4
  <2>6. RawAttempts \in Nat
    BY CountsAssumption
  <2>7. QED
    BY <1>1, <1>2, <1>4, <2>3, <2>4, <2>5, <2>6 DEF FreedInv, SendsCost, NothingWrong
<1>10. CASE ChunkSend \/ ChunkSendError \/ ChunkRecv \/ ChunkCut \/ ChunkQuiet
  <2>1. pc' \in {"fetch", "awaitChunk", "free"}
    BY <1>10 DEF ChunkSend, ChunkSendError, ChunkRecv, ChunkCut, ChunkQuiet, ChunkFails, Release
  <2>2. QED
    BY <1>1, <1>4, <2>1 DEF FreedInv, SendsCost, NothingWrong, ScanPcs
<1>11. CASE FreeSend
  <2>1. pc = "free" /\ pc' = "freeAck" /\ SendTo(ToFree)
    BY <1>11 DEF FreeSend, ToFree
  <2>2. conn = "up" => toDev' # <<>>
    BY <1>3, <2>1 DEF SendTo, InTurn, Silent
  <2>3. QED
    BY <1>1, <1>4, <2>1, <2>2 DEF FreedInv, SendsCost, NothingWrong, ScanPcs
<1>12. CASE FreeRecv \/ FreeQuiet
  <2>1. pc = "freeAck" /\ pc' = "idle"
    BY <1>12 DEF FreeRecv, FreeQuiet, Return
  <2>2. conn = "up" => toDev = <<>>
    <3>1. CASE FreeRecv
      <4>1. toCli # <<>> /\ Waits(ToFree, {P("ok")}, conn, toDev, devOut, toCli)
        BY <1>3, <2>1, <3>1 DEF FreeRecv, InTurn
      <4>2. QED
        BY <4>1 DEF Waits, Owes
    <3>2. CASE FreeQuiet
      BY <1>5, <2>1, <3>2 DEF FreeQuiet, Silent
    <3>3. QED
      BY <1>12, <3>1, <3>2
  <2>3. conn = "up" => ~buffer
    BY <2>1, <2>2 DEF FreedInv
  <2>4. QED
    BY <1>1, <1>4, <2>1, <2>3 DEF FreedInv, SendsCost, NothingWrong
<1>13. QED
  BY <1>6, <1>7, <1>8, <1>9, <1>10, <1>11, <1>12 DEF TableSteps

LEMMA FreedStep ==
    ASSUME Timely = TRUE, TurnInv, FreedInv, [Next]_tvars
    PROVE  FreedInv'
<1>1. CASE UNCHANGED tvars
  <2>1. UNCHANGED <<pc, raws, faults, conn, buffer, toDev, devOut, toCli>>
    BY <1>1 DEF tvars, netVars, devVars, cliVars, tabVars
  <2>2. QED
    BY <2>1 DEF FreedInv, SendsCost, NothingWrong, Granted, Silent, P
<1>2. QED
  BY <1>1, CallFreed, ScanFreed, TableFreed, OutsideFreed DEF Next

\* When no answer is slower than its timeout, a table read that meets at most one
\* refusal, lost answer or broken connection leaves no announced table on a live
\* terminal: whichever way it ends, the release was served or nothing was
\* announced, so the terminal goes on answering template reads.
THEOREM BufferIsReleased ==
    ASSUME Timely = TRUE, RawAttempts >= 2
    PROVE  Spec => BufferReleased
<1>1. Init => FreedInv
  BY DEF Init, FreedInv, SendsCost, NothingWrong
<1>2. ASSUME TurnInv, FreedInv, [Next]_tvars
      PROVE  [op = "templates" /\ pc # "idle" /\ pc' = "idle" /\ conn = "up" /\ faults <= 1
                => ~buffer']_tvars
  <2>1. SUFFICES ASSUME Next, op = "templates", pc # "idle", pc' = "idle", conn = "up", faults <= 1
                 PROVE  ~buffer'
    BY <1>2
  <2>2. pc \notin ScanPcs
    BY <1>2, <2>1 DEF TurnInv, InOrder
  <2>3. ~Calls
    BY <2>1 DEF Calls, StartScan, StartTemplates, GetUsers, Reconnect, NewCall
  <2>4. ~ScanSteps
    BY <2>2 DEF ScanSteps, ProbeRefused, Probe, ProbeSendError, Await, AwaitCut, AwaitQuiet, PushRecv,
                PushQuiet, ScanPcs
  <2>5. ~Outside
    BY <2>1 DEF Outside, Serve, ServeMute, Refuse, Break, Deliver, TakeRequest, cliVars
  <2>6. TableSteps
    BY <2>1, <2>3, <2>4, <2>5 DEF Next
  <2>7. QED
    BY <1>2, <2>1, <2>6, TableFreed
<1>3. QED
  BY <1>1, <1>2, InitTurn, TurnStep, FreedStep, PTL DEF Spec, BufferReleased

-----------------------------------------------------------------------------
(* What a scan reports.  While it goes on, either the terminal refuses      *)
(* everything and nothing was recorded, or what was recorded is what is     *)
(* stored at the places asked about so far: all of it for a full scan, one  *)
(* template of every user that has any for a report.                        *)

Blocked == stuck \/ buffer

Precedes(p, a) == p[1] < a[1] \/ (p[1] = a[1] /\ p[2] < a[2])
Passed(a) == {p \in Wanted : Precedes(p, a)}

Named(p, f) == \E x \in f : x.at[1] = p[1] /\ (op = "scan" => x.at = p)

Faithful(A, f) ==
    /\ \A x \in f : x.at = x.of /\ x.at \in tmpl /\ x.at \in A
    /\ \A p \in tmpl : p \in A => Named(p, f)

Recorded(A, f) == (Blocked => f = {}) /\ (~Blocked => Faithful(A, f))

\* Nothing that is still to be served changes the buffer; or the scan began on
\* a dead connection, where it will get no answer at all.
OnlyProbes == toDev \in Seq([cmd : {"probe"}, at : Places])
Unasked    == conn = "dead" /\ toCli = <<>> /\ found = {} /\ at = <<Lowest(Users), 0>>

\* The first frame of the answer tells whether there is a template.
Tells(p) == IF p.k = "err" THEN Blocked \/ at \notin tmpl ELSE ~Blocked /\ at \in tmpl
Told ==
    /\ toCli # <<>> => Tells(toCli[1])
    /\ toCli = <<>> /\ devOut # <<>> => Tells(devOut[1])

Ended == pc = "idle" /\ op \in Scans /\ result = "ok"

TruthInv ==
    /\ pc \in ScanPcs => /\ op \in Scans
                         /\ OnlyProbes \/ (Unasked /\ pc # "push")
                         /\ Recorded(Passed(at), found)
                         /\ op # "scan" => \A x \in found : x.at[1] # at[1]
    /\ pc = "await" => Told
    /\ pc = "push" => ~Blocked /\ at \in tmpl
    /\ Ended => /\ OnlyProbes /\ Recorded(Wanted, found)
                /\ op = "fingerprints" => found # {}

LEMMA PlaceOf ==
    ASSUME NEW p \in Wanted
    PROVE  /\ p[1] \in Users /\ p[2] \in Fids /\ p = <<p[1], p[2]>> /\ p \in Places
           /\ p[1] \in Nat /\ p[2] \in Nat /\ p[2] <= MaxFid
<1>1. p[1] \in Users /\ p[2] \in Fids /\ p = <<p[1], p[2]>>
  BY DEF Wanted
<1>2. p \in Places /\ p[1] \in Nat
  BY <1>1, UsersType
<1>3. p[2] \in Nat /\ p[2] <= MaxFid
  BY <1>1, FidsAssumption DEF Fids
<1>4. QED
  BY <1>1, <1>2, <1>3

\* The places before the next one are those before this one, and this one.
LEMMA PassedNext ==
    ASSUME NEW a \in Wanted
    PROVE  Passed(<<a[1], a[2] + 1>>) = Passed(a) \cup {a}
<1> DEFINE b == <<a[1], a[2] + 1>>
<1>1. a[1] \in Nat /\ a[2] \in Nat /\ a = <<a[1], a[2]>>
  BY PlaceOf
<1>2. b[1] = a[1] /\ b[2] = a[2] + 1
  OBVIOUS
<1> HIDE DEF b
<1>3. ASSUME NEW p \in Wanted
      PROVE  Precedes(p, b) <=> Precedes(p, a) \/ p = a
  <2>1. p[1] \in Nat /\ p[2] \in Nat /\ p = <<p[1], p[2]>>
    BY PlaceOf
  <2>2. p = a <=> p[1] = a[1] /\ p[2] = a[2]
    BY <1>1, <2>1
  <2>3. QED
    BY <1>1, <1>2, <2>1, <2>2 DEF Precedes
<1>4. QED
  BY <1>3 DEF Passed, b

\* Nothing comes before the first place.
LEMMA PassedFirst == Passed(<<Lowest(Users), 0>>) = {}
<1> DEFINE b == <<Lowest(Users), 0>>
<1>1. Lowest(Users) \in Users /\ \A v \in Users : Lowest(Users) <= v
  BY UsersType, LowestIn
<1>2. b[1] = Lowest(Users) /\ b[2] = 0
  OBVIOUS
<1> HIDE DEF b
<1>3. ASSUME NEW p \in Wanted PROVE ~Precedes(p, b)
  <2>1. p[1] \in Users /\ p[1] \in Nat /\ p[2] \in Nat /\ Lowest(Users) \in Nat
    BY <1>1, PlaceOf, UsersType
  <2>2. QED
    BY <1>1, <1>2, <2>1 DEF Precedes
<1>4. QED
  BY <1>3 DEF Passed, b

\* What is recorded once the answer for the place at hand is added.
LEMMA RecordedOne ==
    ASSUME at \in Wanted, NEW f,
           Recorded(Passed(at), found),
           \/ f = found /\ (Blocked \/ at \notin tmpl)
           \/ f = found \cup {[at |-> at, of |-> at]} /\ ~Blocked /\ at \in tmpl
    PROVE  Recorded(Passed(at) \cup {at}, f)
<1>1. CASE Blocked
  BY <1>1 DEF Recorded
<1>2. CASE ~Blocked
  <2> DEFINE y == [at |-> at, of |-> at]
  <2>1. Faithful(Passed(at), found)
    BY <1>2 DEF Recorded
  <2>2. found \subseteq f /\ (\A x \in f : x \in found \/ (x = y /\ at \in tmpl)) /\ (at \in tmpl => y \in f)
    BY <1>2
  <2>3. y.at = at /\ y.of = at
    OBVIOUS
  <2> HIDE DEF y
  <2>4. ASSUME NEW x \in f PROVE x.at = x.of /\ x.at \in tmpl /\ x.at \in Passed(at) \cup {at}
    BY <2>1, <2>2, <2>3 DEF Faithful
  <2>5. ASSUME NEW p \in tmpl, p \in Passed(at) \cup {at} PROVE Named(p, f)
    BY <2>1, <2>2, <2>3, <2>5 DEF Faithful, Named
  <2>6. QED
    BY <1>2, <2>4, <2>5 DEF Recorded, Faithful
<1>3. QED
  BY <1>1, <1>2

\* When the scan leaves a user, what is stored for that user is recorded.
LEMMA UserDone ==
    ASSUME at \in Wanted, NEW f, ~Blocked, Faithful(Passed(at) \cup {at}, f),
           Enough(f) \/ <<at[1], at[2] + 1>> \notin Places,
           NEW p \in Wanted, p \in tmpl, p[1] <= at[1]
    PROVE  Named(p, f)
<1>1. /\ at[1] \in Nat /\ at[2] \in Nat /\ at = <<at[1], at[2]>> /\ at[2] <= MaxFid /\ at[1] \in Users
      /\ p[1] \in Nat /\ p[2] \in Nat /\ p = <<p[1], p[2]>> /\ p[2] <= MaxFid
  BY PlaceOf
<1>2. CASE p \in Passed(at) \cup {at}
  BY <1>2 DEF Faithful
<1>3. CASE p \notin Passed(at) \cup {at}
  <2>1. ~Precedes(p, at) /\ p # at
    BY <1>3 DEF Passed
  <2>2. p[1] = at[1] /\ p[2] > at[2]
    <3>1. p[2] = at[2] /\ p[1] = at[1] => p = at
      BY <1>1
    <3>2. QED
      BY <1>1, <2>1, <3>1 DEF Precedes
  <2>3. <<at[1], at[2] + 1>> \in Places
    <3>1. at[1] \in Uids /\ at[2] + 1 \in Fids
      BY <1>1, <2>2, FidsAssumption DEF Users, Fids
    <3>2. QED
      BY <3>1 DEF Places
  <2>4. op # "scan" /\ \E x \in f : x.at = at
    BY <2>3 DEF Enough
  <2>5. QED
    BY <2>2, <2>4 DEF Named
<1>4. QED
  BY <1>2, <1>3

LEMMA AdvanceTruth ==
    ASSUME TypeInv, TruthInv, pc \in ScanPcs, NEW f, Advance(f),
           \/ f = found /\ (Blocked \/ at \notin tmpl)
           \/ f = found \cup {[at |-> at, of |-> at]} /\ ~Blocked /\ at \in tmpl,
           OnlyProbes', op' = op, UNCHANGED devVars
    PROVE  TruthInv'
<1> DEFINE next == <<at[1], at[2] + 1>>
           over == Enough(f) \/ next \notin Places
           done == Passed(at) \cup {at}
<1>1. /\ at \in Wanted /\ op \in Scans /\ Recorded(Passed(at), found)
      /\ op # "scan" => \A x \in found : x.at[1] # at[1]
  BY DEF TypeInv, TruthInv
<1>2. Recorded(done, f)
  BY <1>1, RecordedOne
<1>3. found' = f /\ Blocked' = Blocked /\ tmpl' = tmpl
  BY DEF Advance, Blocked, devVars
<1>4. at[1] \in Users /\ at[1] \in Nat
  BY <1>1, PlaceOf
<1>5. \A x \in f : ~Blocked => x.at \in Wanted /\ x.at[1] \in Nat /\ x.at[1] <= at[1]
  <2>1. SUFFICES ASSUME NEW x \in f, ~Blocked PROVE x.at \in Wanted /\ x.at[1] \in Nat /\ x.at[1] <= at[1]
    OBVIOUS
  <2>2. x.at \in done
    BY <1>2, <2>1 DEF Recorded, Faithful
  <2>3. x.at \in Wanted /\ (Precedes(x.at, at) \/ x.at = at)
    BY <1>1, <2>2 DEF Passed
  <2>4. x.at[1] \in Nat
    BY <2>3, PlaceOf
  <2>5. QED
    BY <1>4, <2>3, <2>4 DEF Precedes
<1>6. ASSUME NEW A, Recorded(A, f) PROVE Recorded(A, f)'
  BY <1>3, <1>6 DEF Recorded, Faithful, Named
<1>7. CASE ~over /\ at' = next /\ pc' = "probe"
  <2>1. Passed(at') = done
    BY <1>1, <1>7, PassedNext
  <2>2. Recorded(Passed(at), found)'
    BY <1>2, <1>3, <1>6, <2>1
  <2>3. op # "scan" => \A x \in f : x.at[1] # at[1]
    <3>1. SUFFICES ASSUME op # "scan", NEW x \in f, x.at[1] = at[1] PROVE FALSE
      OBVIOUS
    <3>2. x \notin found
      BY <1>1, <3>1
    <3>3. x.at = at
      BY <3>1, <3>2
    <3>4. Enough(f)
      BY <3>1, <3>3 DEF Enough
    <3>5. QED
      BY <1>7, <3>4
  <2>4. at'[1] = at[1]
    BY <1>7
  <2>5. QED
    BY <1>1, <1>3, <1>7, <2>2, <2>3, <2>4 DEF TruthInv, Ended, ScanPcs
<1>8. CASE over /\ After(at[1]) # {} /\ at' = <<Lowest(After(at[1])), 0>> /\ pc' = "probe"
  <2> DEFINE v == Lowest(After(at[1]))
  <2>1. After(at[1]) \in SUBSET Nat /\ After(at[1]) \in SUBSET Users
    BY UsersType DEF After
  <2>2. v \in After(at[1]) /\ \A w \in After(at[1]) : v <= w
    BY <1>8, <2>1, LowestIn
  <2>3. v \in Nat /\ at[1] < v
    BY <1>4, <2>1, <2>2 DEF After
  <2>4. at'[1] = v /\ at'[2] = 0
    BY <1>8
  <2> HIDE DEF v
  <2>5. ASSUME ~Blocked PROVE Faithful(Passed(at'), f)
    <3>1. Faithful(done, f)
      BY <1>2, <2>5 DEF Recorded
    <3>2. ASSUME NEW x \in f PROVE x.at \in Passed(at')
      <4>1. x.at \in Wanted /\ x.at[1] \in Nat /\ x.at[1] < v
        BY <1>4, <1>5, <2>3, <2>5
      <4>2. QED
        BY <2>4, <4>1 DEF Passed, Precedes
    <3>3. ASSUME NEW p \in tmpl, p \in Passed(at') PROVE Named(p, f)
      <4>1. p \in Wanted /\ Precedes(p, at')
        BY <3>3 DEF Passed
      <4>2. p[1] \in Users /\ p[1] \in Nat /\ p[2] \in Nat
        BY <4>1, PlaceOf
      <4>3. p[1] < v
        BY <2>3, <2>4, <4>1, <4>2 DEF Precedes
      <4>4. p[1] <= at[1]
        <5>1. CASE p[1] > at[1]
          <6>1. p[1] \in After(at[1])
            BY <4>2, <5>1 DEF After
          <6>2. QED
            BY <2>2, <2>3, <4>2, <4>3, <6>1
        <5>2. QED
          BY <1>4, <4>2, <5>1
      <4>5. QED
        BY <1>1, <1>8, <2>5, <3>1, <4>1, <4>4, UserDone
    <3>4. QED
      BY <3>1, <3>2, <3>3 DEF Faithful
  <2>6. Recorded(Passed(at'), f)
    BY <1>2, <2>5 DEF Recorded
  <2>7. Recorded(Passed(at), found)'
    BY <1>3, <1>6, <2>6
  <2>8. \A x \in f : x.at[1] # at'[1]
    <3>1. CASE Blocked
      BY <1>2, <3>1 DEF Recorded
    <3>2. CASE ~Blocked
      BY <1>4, <1>5, <2>3, <2>4, <3>2
    <3>3. QED
      BY <3>1, <3>2
  <2>9. QED
    BY <1>1, <1>3, <1>8, <2>7, <2>8 DEF TruthInv, Ended, ScanPcs
<1>9. CASE over /\ After(at[1]) = {} /\ pc' = "idle" /\ result' = (IF Certified(f) THEN "ok" ELSE "error")
  <2>1. ASSUME ~Blocked PROVE Faithful(Wanted, f)
    <3>1. Faithful(done, f)
      BY <1>2, <2>1 DEF Recorded
    <3>2. ASSUME NEW p \in tmpl, p \in Wanted PROVE Named(p, f)
      <4>1. p[1] \in Users /\ p[1] \in Nat
        BY <3>2, PlaceOf
      <4>2. p[1] \notin After(at[1])
        BY <1>9
      <4>3. p[1] <= at[1]
        BY <1>4, <4>1, <4>2 DEF After
      <4>4. QED
        BY <1>1, <1>9, <2>1, <3>1, <3>2, <4>3, UserDone
    <3>3. QED
      BY <1>5, <2>1, <3>1, <3>2 DEF Faithful
  <2>2. Recorded(Wanted, f)
    BY <1>2, <2>1 DEF Recorded
  <2>3. Recorded(Wanted, found)'
    <3>1. Recorded(Wanted, f)'
      BY <1>6, <2>2
    <3>2. QED
      BY <1>3, <3>1
  <2>4. result' = "ok" => Certified(f)
    BY <1>9
  <2>5. QED
    BY <1>3, <1>9, <2>3, <2>4 DEF TruthInv, Ended, ScanPcs, Certified
<1>10. QED
  BY <1>7, <1>8, <1>9 DEF Advance, Return

\* The terminal answers a question with what it stores.
LEMMA AnswerTells ==
    Answer(ToProbe) # <<>> /\ Tells(Answer(ToProbe)[1])
<1> DEFINE one(k) == [k |-> k, of |-> at]
<1>1. /\ ToProbe.cmd = "probe" /\ ToProbe.at = at
      /\ ToProbe.cmd # "wrapped" /\ ToProbe.cmd # "chunk"
  BY DEF ToProbe
<1>2. Answer(ToProbe) = IF stuck \/ buffer \/ ToProbe.at \notin tmpl THEN <<P("err")>>
                        ELSE IF shape = "data" THEN <<[k |-> "data", of |-> ToProbe.at]>>
                        ELSE <<[k |-> "prep", of |-> ToProbe.at], [k |-> "body", of |-> ToProbe.at], P("ok")>>
  BY <1>1, Zenon DEF Answer, Pushed
<1>3. CASE Blocked \/ at \notin tmpl
  <2>1. Answer(ToProbe) = <<P("err")>>
    BY <1>1, <1>2, <1>3, Zenon DEF Blocked
  <2>2. Answer(ToProbe) # <<>> /\ Answer(ToProbe)[1] = P("err") /\ P("err").k = "err"
    BY <2>1 DEF P
  <2>3. QED
    BY <1>3, <2>2 DEF Tells
<1>4. CASE ~Blocked /\ at \in tmpl
  <2>1. Answer(ToProbe) \in {<<one("data")>>, <<one("prep"), one("body"), P("ok")>>}
    BY <1>1, <1>2, <1>4, Zenon DEF Blocked
  <2>2. Answer(ToProbe) # <<>> /\ Answer(ToProbe)[1] \in {one("data"), one("prep")}
    BY <2>1
  <2>3. Answer(ToProbe)[1].k # "err"
    BY <2>2
  <2>4. QED
    BY <1>4, <2>2, <2>3 DEF Tells
<1>5. QED
  BY <1>3, <1>4

\* Questions that are served change nothing in the terminal.
LEMMA ProbesServed ==
    ASSUME OnlyProbes, buffer \in BOOLEAN, Outside
    PROVE  OnlyProbes' /\ UNCHANGED <<tmpl, stuck, buffer>>
<1> DEFINE Probes == [cmd : {"probe"}, at : Places]
<1>1. toDev \in Seq(Probes)
  BY DEF OnlyProbes
<1>2. toDev # <<>> => /\ Head(toDev) \in Probes /\ Tail(toDev) \in Seq(Probes)
  BY <1>1, HeadTailProperties
<1>3. toDev # <<>> => Head(toDev).cmd = "probe"
  BY <1>2
<1>4. TakeRequest => UNCHANGED <<tmpl, stuck, buffer>>
  <2>1. SUFFICES ASSUME TakeRequest PROVE UNCHANGED <<tmpl, stuck, buffer>>
    OBVIOUS
  <2>2. Head(toDev).cmd # "wrapped" /\ Head(toDev).cmd # "free"
    BY <1>3, <2>1 DEF TakeRequest
  <2>3. buffer' = (Head(toDev).cmd = "wrapped" \/ (buffer /\ Head(toDev).cmd # "free"))
    BY <2>1, Zenon DEF TakeRequest
  <2>4. buffer' = buffer
    BY <2>2, <2>3
  <2>5. QED
    BY <2>1, <2>4 DEF TakeRequest
<1>5. TakeRequest => toDev' \in Seq(Probes)
  BY <1>2 DEF TakeRequest
<1>6. CASE Serve \/ ServeMute
  BY <1>4, <1>5, <1>6 DEF Serve, ServeMute, OnlyProbes
<1>7. ~Refuse
  BY <1>3 DEF Refuse
<1>8. CASE Break
  <2>1. PICK n \in 0..Len(toDev) : toDev' = SubSeq(toDev, 1, n)
    BY <1>8 DEF Break
  <2>2. 1 \in Nat \ {0} /\ n \in Int /\ n <= Len(toDev)
    <3>1. Len(toDev) \in Nat
      BY <1>1, LenProperties
    <3>2. QED
      BY <3>1
  <2>3. SubSeq(toDev, 1, n) \in Seq(Probes)
    BY <1>1, <2>2, PartType
  <2>4. QED
    BY <1>8, <2>1, <2>3 DEF Break, OnlyProbes, devVars
<1>9. CASE \E n \in 1..Len(devOut) : Deliver(n)
  BY <1>9 DEF Deliver, OnlyProbes, devVars
<1>10. QED
  BY <1>6, <1>7, <1>8, <1>9 DEF Outside

\* The frame that comes first goes on telling the truth until it is received.
LEMMA OutsideTold ==
    ASSUME Told, Waits(ToProbe, Frames(at), conn, toDev, devOut, toCli), conn \in {"up", "dead"},
           Outside, UNCHANGED <<at, tmpl>>, Blocked' = Blocked \/ (conn = "dead" /\ toCli = <<>>)
    PROVE  Told'
<1>1. toCli' = <<>> /\ devOut' = <<>> => Told'
  BY DEF Told
<1>2. CASE Owes(Frames(at), conn, toDev, devOut, toCli)
  <2>1. toCli \in Seq(Frames(at)) /\ devOut \in Seq(Frames(at)) /\ (conn = "dead" => devOut = <<>>)
    BY <1>2 DEF Owes, Stream
  <2>2. CASE Serve \/ ServeMute \/ Refuse
    <3>1. conn = "dead" /\ UNCHANGED <<devOut, toCli>>
      BY <1>2, <2>2 DEF Owes, Serve, ServeMute, Refuse, TakeRequest
    <3>2. CASE toCli = <<>>
      BY <1>1, <2>1, <3>1, <3>2
    <3>3. CASE toCli # <<>>
      <4>1. Blocked' = Blocked
        BY <3>3
      <4>2. QED
        BY <3>1, <4>1 DEF Told, Tells
    <3>4. QED
      BY <3>2, <3>3
  <2>3. CASE Break
    <3>1. conn = "up" /\ devOut' = <<>> /\ (toCli' = toCli \/ toCli' = <<>>)
      BY <2>3 DEF Break
    <3>2. Blocked' = Blocked
      BY <3>1
    <3>3. QED
      BY <1>1, <3>1, <3>2 DEF Told, Tells
  <2>4. CASE \E n \in 1..Len(devOut) : Deliver(n)
    <3>1. PICK n \in 1..Len(devOut) : Deliver(n)
      BY <2>4
    <3> DEFINE before == SubSeq(devOut, 1, n)
    <3>2. conn = "up" /\ toCli' = toCli \o before
      BY <3>1 DEF Deliver
    <3>3. Len(devOut) \in Nat /\ n \in Nat \ {0} /\ n <= Len(devOut) /\ devOut # <<>>
      BY <2>1, <3>1, EmptySeq, LenProperties
    <3>4. before \in Seq(Frames(at)) /\ Len(before) = n /\ before[1] = devOut[1]
      BY <2>1, <3>3, PartType, SubSeqProperties
    <3> HIDE DEF before
    <3>5. /\ toCli \o before # <<>>
          /\ toCli = <<>> => (toCli \o before)[1] = devOut[1]
          /\ toCli # <<>> => (toCli \o before)[1] = toCli[1]
      BY <2>1, <3>3, <3>4
    <3>6. Blocked' = Blocked
      BY <3>2
    <3>7. /\ toCli' # <<>>
          /\ toCli = <<>> => toCli'[1] = devOut[1]
          /\ toCli # <<>> => toCli'[1] = toCli[1]
      BY <3>2, <3>5
    <3>8. QED
      BY <3>3, <3>6, <3>7 DEF Told, Tells
  <2>5. QED
    BY <2>2, <2>3, <2>4 DEF Outside
<1>3. CASE conn = "up" /\ toDev = <<ToProbe>> /\ devOut = <<>> /\ toCli = <<>>
  <2>1. Head(toDev) = ToProbe /\ Blocked' = Blocked
    BY <1>3
  <2>2. CASE Serve
    <3>1. toCli' = <<>> /\ devOut' = <<>> \o Answer(ToProbe)
      BY <1>3, <2>1, <2>2 DEF Serve, TakeRequest
    <3>2. devOut' = Answer(ToProbe)
      BY <3>1, ConcatEmptySeq, AnswerType DEF ToProbe
    <3>3. QED
      BY <2>1, <3>1, <3>2, AnswerTells DEF Told, Tells
  <2>3. CASE ServeMute \/ Break
    BY <1>1, <1>3, <2>3 DEF ServeMute, Break, TakeRequest
  <2>4. ~Refuse
    BY <2>1 DEF Refuse, ToProbe
  <2>5. ~ \E n \in 1..Len(devOut) : Deliver(n)
    BY <1>3, EmptySeq
  <2>6. QED
    BY <2>2, <2>3, <2>4, <2>5 DEF Outside
<1>4. QED
  BY <1>2, <1>3 DEF Waits


LEMMA OutsideTruth ==
    ASSUME TurnInv, TruthInv, Outside
    PROVE  TruthInv'
<1>1. UNCHANGED cliVars
  BY DEF Outside, Serve, ServeMute, Refuse, Break, Deliver, TakeRequest
<1>2. UNCHANGED <<pc, op, at, found, result>>
  BY <1>1 DEF cliVars, scanVars
<1>3. tmpl' = tmpl /\ buffer \in BOOLEAN /\ conn \in {"up", "dead"}
  BY DEF Outside, Serve, ServeMute, Refuse, Break, Deliver, TakeRequest, devVars, TurnInv, TypeInv, TTypeOK
<1>4. OnlyProbes => OnlyProbes' /\ Blocked' = Blocked
  BY <1>3, ProbesServed DEF Blocked
<1>5. ASSUME NEW A, Recorded(A, found), Blocked' = Blocked PROVE Recorded(A, found)'
  BY <1>2, <1>3, <1>5 DEF Recorded, Faithful, Named
<1>6. Passed(at)' = Passed(at)
  BY <1>2 DEF Passed
<1>7. CASE pc \in ScanPcs /\ OnlyProbes
  <2>1. Recorded(Passed(at), found)'
    BY <1>4, <1>5, <1>6, <1>7 DEF TruthInv
  <2>2. pc = "await" => Told'
    <3>1. SUFFICES ASSUME pc = "await" PROVE Told'
      OBVIOUS
    <3>2. Told /\ Waits(ToProbe, Frames(at), conn, toDev, devOut, toCli)
      BY <3>1 DEF TruthInv, TurnInv, InTurn, Asking
    <3>3. Blocked' = Blocked \/ (conn = "dead" /\ toCli = <<>>)
      BY <1>4, <1>7
    <3>4. QED
      BY <1>2, <1>3, <3>2, <3>3, OutsideTold
  <2>3. QED
    BY <1>2, <1>3, <1>4, <1>7, <2>1, <2>2 DEF TruthInv, Ended, ScanPcs
<1>8. CASE pc \in ScanPcs /\ Unasked /\ pc # "push"
  <2>1. conn' = "dead" /\ toCli' = <<>>
    BY <1>8 DEF Unasked, Outside, Serve, ServeMute, Refuse, Break, Deliver, TakeRequest
  <2>2. Unasked'
    BY <1>2, <1>8, <2>1 DEF Unasked
  <2>3. Passed(at') = {} /\ found' = {}
    BY <1>2, <1>8, PassedFirst DEF Unasked
  <2>4. Recorded(Passed(at), found)'
    BY <2>3 DEF Recorded, Faithful
  <2>5. pc = "await" => Told'
    <3>1. SUFFICES ASSUME pc = "await" PROVE Told'
      OBVIOUS
    <3>2. Told /\ Waits(ToProbe, Frames(at), conn, toDev, devOut, toCli)
      BY <3>1 DEF TruthInv, TurnInv, InTurn, Asking
    <3>3. QED
      BY <1>2, <1>3, <1>8, <3>2, OutsideTold DEF Unasked
  <2>6. QED
    BY <1>2, <1>8, <2>2, <2>3, <2>4, <2>5 DEF TruthInv, Ended, ScanPcs
<1>9. CASE pc \notin ScanPcs
  <2>1. Ended => OnlyProbes' /\ Recorded(Wanted, found)'
    BY <1>4, <1>5 DEF TruthInv
  <2>2. QED
    BY <1>2, <1>9, <2>1 DEF TruthInv, Ended, ScanPcs
<1>10. QED
  BY <1>7, <1>8, <1>9 DEF TruthInv

LEMMA CallTruth ==
    ASSUME Timely = TRUE, TurnInv, Calls
    PROVE  TruthInv'
<1>1. TurnInv' /\ conn' \in {"up", "dead"}
  BY CallTurn DEF TurnInv, TypeInv, TTypeOK
<1>2. CASE \E o \in Scans : StartScan(o)
  <2>1. /\ pc' = "probe" \/ (pc' = "idle" /\ result' = "error")
        /\ op' \in Scans /\ found' = {} /\ at' = <<Lowest(Users), 0>>
    BY <1>2 DEF StartScan, NewCall, Return
  <2>2. Silent'
    BY <1>1, <2>1 DEF TurnInv, InTurn
  <2>3. Recorded(Passed(at), found)'
    <3>1. Passed(at') = {}
      BY <2>1, PassedFirst
    <3>2. QED
      BY <2>1, <3>1 DEF Recorded, Faithful
  <2>4. conn' = "up" => OnlyProbes'
    <3>1. conn' = "up" => toDev' = <<>>
      BY <2>2 DEF Silent
    <3>2. QED
      BY <3>1 DEF OnlyProbes
  <2>5. conn' = "dead" => Unasked'
    BY <2>1, <2>2 DEF Silent, Unasked
  <2>6. QED
    BY <1>1, <2>1, <2>3, <2>4, <2>5 DEF TruthInv, Ended, ScanPcs
<1>3. CASE StartTemplates \/ GetUsers \/ Reconnect(TRUE) \/ Reconnect(FALSE)
  <2>1. pc' \notin ScanPcs /\ op' \notin Scans
    BY <1>3 DEF StartTemplates, GetUsers, Reconnect, NewCall, Return, ScanPcs, Scans
  <2>2. QED
    BY <2>1 DEF TruthInv, Ended, ScanPcs
<1>4. QED
  BY <1>2, <1>3 DEF Calls

LEMMA TableTruth ==
    ASSUME TurnInv, TableSteps
    PROVE  TruthInv'
<1>1. pc \in TablePcs /\ op' = op
  BY DEF TableSteps, WrapSend, WrapSendError, WrapRecv, WrapQuiet, ChunkSend, ChunkSendError,
         ChunkRecv, ChunkCut, ChunkQuiet, FreeSend, FreeSendError, FreeRecv, FreeQuiet, TablePcs
<1>2. pc' \in TablePcs \cup {"idle"}
  BY <1>1 DEF TableSteps, WrapSend, WrapSendError, WrapRecv, WrapQuiet, ChunkSend, ChunkSendError,
         ChunkRecv, ChunkCut, ChunkQuiet, FreeSend, FreeSendError, FreeRecv, FreeQuiet, TablePcs,
         Announced, ChunkFails, Release, Return
<1>3. op' \notin Scans
  BY <1>1 DEF TurnInv, InOrder, Scans
<1>4. QED
  BY <1>2, <1>3 DEF TruthInv, Ended, ScanPcs, TablePcs

LEMMA ScanTruth ==
    ASSUME Timely = TRUE, TurnInv, TruthInv, ScanSteps
    PROVE  TruthInv'
<1>1. /\ pc \in ScanPcs /\ op' = op /\ UNCHANGED <<conn, devOut>> /\ UNCHANGED devVars
  BY DEF ScanSteps, ProbeRefused, Probe, ProbeSendError, Await, AwaitCut, AwaitQuiet, PushRecv,
         PushQuiet, netVars, ScanPcs
<1>2. /\ op \in Scans /\ (OnlyProbes \/ (Unasked /\ pc # "push")) /\ Recorded(Passed(at), found)
      /\ op # "scan" => \A x \in found : x.at[1] # at[1]
  BY <1>1 DEF TruthInv
<1>3. pc' = "idle" /\ result' = "error" => TruthInv'
  BY DEF TruthInv, Ended, ScanPcs
<1>4. Blocked' = Blocked /\ tmpl' = tmpl
  BY <1>1 DEF Blocked, devVars
<1>5. TypeInv /\ InTurn
  BY DEF TurnInv
<1>6. CASE ProbeRefused \/ ProbeSendError \/ AwaitQuiet \/ PushQuiet
  BY <1>3, <1>6 DEF ProbeRefused, ProbeSendError, AwaitQuiet, PushQuiet, ProbeFails, Return
<1>7. CASE Probe
  <2>1. pc = "probe" /\ pc' = "await" /\ SendTo(ToProbe) /\ UNCHANGED <<toCli, at, found>>
    BY <1>7 DEF Probe, scanVars, ToProbe
  <2>2. Told'
    BY <1>1, <1>5, <2>1 DEF InTurn, Silent, Told
  <2>3. OnlyProbes => OnlyProbes'
    <3> DEFINE Probes == [cmd : {"probe"}, at : Places]
    <3>1. ToProbe \in Probes
      <4>1. at \in Places
        BY <1>1, <1>5, UsersType DEF TypeInv
      <4>2. QED
        BY <4>1 DEF ToProbe
    <3>2. toDev \in Seq(Probes) => Append(toDev, ToProbe) \in Seq(Probes)
      BY <3>1, AppendProperties
    <3> HIDE DEF Probes
    <3>3. toDev \in Seq(Probes) => toDev' \in Seq(Probes)
      BY <2>1, <3>2 DEF SendTo
    <3>4. QED
      BY <3>3 DEF OnlyProbes, Probes
  <2>4. Unasked => Unasked'
    BY <1>1, <2>1 DEF Unasked
  <2>5. Recorded(Passed(at), found)'
    BY <1>2, <1>4, <2>1, <1>1 DEF Recorded, Faithful, Named, Passed
  <2>6. QED
    BY <1>1, <1>2, <2>1, <2>2, <2>3, <2>4, <2>5 DEF TruthInv, Ended, ScanPcs
<1>8. CASE Await
  <2>1. pc = "await" /\ toCli # <<>> /\ toDev' = toDev
    BY <1>8 DEF Await
  <2>2. /\ Head(toCli) = toCli[1] /\ toCli[1] \in Frames(at)
        /\ toCli[1].k \in {"err", "data", "prep"}
    BY <1>5, <2>1, FirstFrame DEF InTurn
  <2>3. Tells(toCli[1]) /\ OnlyProbes /\ OnlyProbes'
    BY <1>2, <2>1 DEF TruthInv, Told, Unasked, OnlyProbes
  <2>4. CASE toCli[1].k = "err"
    <3>1. Advance(found)
      BY <1>8, <2>2, <2>4 DEF Await, IsAck, Absent
    <3>2. Blocked \/ at \notin tmpl
      BY <2>3, <2>4 DEF Tells
    <3>3. QED
      BY <1>1, <1>5, <2>3, <3>1, <3>2, AdvanceTruth
  <2>5. CASE toCli[1].k = "data"
    <3>1. Present(toCli[1])
      BY <1>8, <2>2, <2>5 DEF Await, IsAck
    <3>2. toCli[1].of = at
      BY <2>2, <2>5 DEF Frames, P
    <3>3. Advance(found \cup {[at |-> at, of |-> at]})
      BY <2>5, <3>1, <3>2 DEF Present
    <3>4. ~Blocked /\ at \in tmpl
      BY <2>3, <2>5 DEF Tells
    <3>5. QED
      BY <1>1, <1>5, <2>3, <3>3, <3>4, AdvanceTruth
  <2>6. CASE toCli[1].k = "prep"
    <3>1. pc' = "push" /\ UNCHANGED <<at, found>>
      BY <1>8, <2>2, <2>6 DEF Await, IsAck, scanVars
    <3>2. ~Blocked /\ at \in tmpl
      BY <2>3, <2>6 DEF Tells
    <3>3. Recorded(Passed(at), found)'
      BY <1>1, <1>2, <1>4, <3>1 DEF Recorded, Faithful, Named, Passed
    <3>4. QED
      BY <1>1, <1>2, <1>4, <2>3, <3>1, <3>2, <3>3 DEF TruthInv, Ended, ScanPcs
  <2>7. QED
    BY <2>2, <2>4, <2>5, <2>6
<1>9. CASE PushRecv
  <2> DEFINE all == got \o toCli
  <2>1. pc = "push" /\ toDev' = toDev /\ ~Blocked /\ at \in tmpl
    BY <1>9 DEF PushRecv, TruthInv
  <2>2. OnlyProbes /\ OnlyProbes'
    BY <1>2, <2>1 DEF OnlyProbes
  <2>3. all \in Seq(Frames(at))
    <3>1. got \in Seq(Frames(at)) /\ toCli \in Seq(Frames(at))
      BY <1>5, <2>1 DEF InTurn, Pushing, Owes, Stream
    <3>2. QED
      BY <3>1, ConcatProperties
  <2> HIDE DEF all
  <2>4. CASE UNCHANGED <<pc, scanVars, streamSafe, result>>
    <3>1. pc' = "push" /\ UNCHANGED <<at, found>>
      BY <2>1, <2>4 DEF scanVars
    <3>2. Recorded(Passed(at), found)'
      BY <1>1, <1>2, <1>4, <3>1 DEF Recorded, Faithful, Named, Passed
    <3>3. QED
      BY <1>1, <1>2, <1>4, <2>1, <2>2, <3>1, <3>2 DEF TruthInv, Ended, ScanPcs
  <2>5. CASE \E i \in DOMAIN all : IsTemplate(all, i) /\ Present(all[i])
    <3>1. PICK i \in DOMAIN all : IsTemplate(all, i) /\ Present(all[i])
      BY <2>5
    <3>2. all[i] \in Frames(at) /\ all[i].k \in {"data", "body"}
      <4>1. i \in 1..Len(all)
        BY <2>3, LenProperties
      <4>2. QED
        BY <2>3, <3>1, <4>1, ElementOfSeq DEF IsTemplate
    <3>3. all[i].of = at /\ all[i].k # "chunk"
      BY <3>2 DEF Frames, P
    <3>4. Advance(found \cup {[at |-> at, of |-> at]})
      BY <3>1, <3>3 DEF Present
    <3>5. QED
      BY <1>1, <1>5, <2>1, <2>2, <3>4, AdvanceTruth
  <2>6. CASE ProbeFails
    BY <1>3, <2>6 DEF ProbeFails, Return
  <2>7. QED
    BY <1>9, <2>4, <2>5, <2>6 DEF PushRecv, all
<1>10. ~AwaitCut
  BY DEF AwaitCut
<1>11. QED
  BY <1>6, <1>7, <1>8, <1>9, <1>10 DEF ScanSteps

LEMMA TruthStep ==
    ASSUME Timely = TRUE, TurnInv, TruthInv, [Next]_tvars
    PROVE  TruthInv'
<1>1. CASE UNCHANGED tvars
  BY <1>1 DEF tvars, netVars, devVars, cliVars, scanVars, TruthInv, Ended, OnlyProbes, Unasked,
              Recorded, Faithful, Named, Passed, Told, Tells, Blocked
<1>2. QED
  BY <1>1, CallTruth, ScanTruth, TableTruth, OutsideTruth DEF Next

LEMMA TruthHolds ==
    ASSUME Timely = TRUE
    PROVE  Spec => [](TypeInv /\ TruthInv)
<1>1. Init => TruthInv
  BY DEF Init, TruthInv, Ended, ScanPcs, Scans
<1>2. TurnInv => TypeInv
  BY DEF TurnInv
<1>3. QED
  BY <1>1, <1>2, InitTurn, TurnStep, TruthStep, PTL DEF Spec

\* The report wl10_user_fingerprints certifies names exactly the users who have
\* a stored template, however the connection breaks and whatever is lost, as long
\* as no answer is slower than its timeout: a terminal that refuses every read, or
\* whose buffer was left announced, gives no certified report at all.
THEOREM ReportsAreTrue ==
    ASSUME Timely = TRUE
    PROVE  Spec => []ReportIsTrue
<1>1. ASSUME TypeInv, TruthInv PROVE ReportIsTrue
  <2>1. SUFFICES ASSUME Done("fingerprints")
                 PROVE  \A u \in Users : (\E x \in found : x.at[1] = u)
                                            <=> \E f \in Fids : <<u, f>> \in tmpl
    BY DEF ReportIsTrue
  <2>2. Recorded(Wanted, found) /\ found # {}
    BY <1>1, <2>1 DEF Done, TruthInv, Ended, Scans
  <2>3. Faithful(Wanted, found)
    BY <2>2 DEF Recorded
  <2>4. ASSUME NEW u \in Users, NEW x \in found, x.at[1] = u
        PROVE  \E f \in Fids : <<u, f>> \in tmpl
    <3>1. x.at \in Wanted /\ x.at \in tmpl
      BY <2>3 DEF Faithful
    <3>2. x.at[2] \in Fids /\ x.at = <<u, x.at[2]>>
      BY <2>4, <3>1, PlaceOf
    <3>3. QED
      BY <3>1, <3>2
  <2>5. ASSUME NEW u \in Users, NEW f \in Fids, <<u, f>> \in tmpl
        PROVE  \E x \in found : x.at[1] = u
    <3>1. <<u, f>> \in Wanted
      BY DEF Wanted
    <3>2. Named(<<u, f>>, found)
      BY <2>3, <2>5, <3>1 DEF Faithful
    <3>3. QED
      BY <3>2 DEF Named
  <2>6. QED
    BY <2>4, <2>5
<1>2. QED
  BY <1>1, TruthHolds, PTL

\* A full scan (wl10_scan_user_templates) that comes to its end on a terminal that
\* answers template reads has recorded exactly the stored templates of the real
\* users, when no answer is slower than its timeout: no finger is passed over, and
\* no reserved slot is reported as a user.
THEOREM ScansAreComplete ==
    ASSUME Timely = TRUE
    PROVE  Spec => []ScanIsComplete
<1>1. ASSUME TypeInv, TruthInv PROVE ScanIsComplete
  <2>1. SUFFICES ASSUME Done("scan"), ~Blocked
                 PROVE  {x.of : x \in found} = {p \in tmpl : p[1] \in Users}
    BY DEF ScanIsComplete, Blocked
  <2>2. Faithful(Wanted, found) /\ op = "scan"
    BY <1>1, <2>1 DEF Done, TruthInv, Ended, Scans, Recorded
  <2>3. ASSUME NEW x \in found PROVE x.of \in tmpl /\ x.of[1] \in Users
    <3>1. x.at = x.of /\ x.at \in tmpl /\ x.at \in Wanted
      BY <2>2 DEF Faithful
    <3>2. QED
      BY <3>1, PlaceOf
  <2>4. ASSUME NEW p \in tmpl, p[1] \in Users PROVE \E x \in found : x.of = p
    <3>1. p \in Wanted
      <4>1. p \in Uids \X Fids
        BY <1>1 DEF TypeInv, TTypeOK, Places
      <4>2. p = <<p[1], p[2]>> /\ p[2] \in Fids
        BY <4>1
      <4>3. QED
        BY <2>4, <4>2 DEF Wanted
    <3>2. Named(p, found)
      BY <2>2, <3>1 DEF Faithful
    <3>3. PICK x \in found : x.at = p
      BY <2>2, <3>2 DEF Named
    <3>4. x.of = p
      BY <2>2, <3>3 DEF Faithful
    <3>5. QED
      BY <3>4
  <2>5. QED
    BY <2>3, <2>4
<1>2. QED
  BY <1>1, TruthHolds, PTL

-----------------------------------------------------------------------------
(* Tables of one fetch.  Answers may come as late as they like: between the *)
(* parts of two fetches, received, on their way or asked for, there is the  *)
(* announcement that the later fetch began with, or the request for it; and *)
(* after every part of an earlier fetch comes that of the fetch in progress.*)
(* A table is taken from a run of parts that nothing interrupts, so that it *)
(* cannot reach from one fetch into another, unless an announcement or its  *)
(* request is lost.                                                         *)

\* In the stream q that arrives or is kept, and the requests d not yet served.
Apart(q, d) ==
    /\ \A i, j \in DOMAIN q : i < j /\ q[i].k = "chunk" /\ q[j].k = "chunk" /\ q[i].call # q[j].call
          => \E m \in DOMAIN q : i < m /\ m < j /\ q[m].k = "announce"
    /\ \A i, j \in DOMAIN d : i < j /\ d[i].cmd = "chunk" /\ d[j].cmd = "chunk" /\ d[i].call # d[j].call
          => \E m \in DOMAIN d : i < m /\ m < j /\ d[m].cmd = "wrapped"
    /\ \A i \in DOMAIN q, j \in DOMAIN d : q[i].k = "chunk" /\ d[j].cmd = "chunk" /\ q[i].call # d[j].call
          => \/ \E m \in DOMAIN q : i < m /\ q[m].k = "announce"
             \/ \E m \in DOMAIN d : m < j /\ d[m].cmd = "wrapped"

Renewed(q, d, c) ==
    /\ \A i \in DOMAIN q : q[i].k = "chunk" /\ q[i].call # c
          => \/ \E m \in DOMAIN q : i < m /\ q[m].k = "announce"
             \/ \E m \in DOMAIN d : d[m].cmd = "wrapped"
    /\ \A j \in DOMAIN d : d[j].cmd = "chunk" /\ d[j].call # c
          => \E m \in DOMAIN d : j < m /\ d[m].cmd = "wrapped"

\* What of the stream the call in progress has taken.
Front == IF pc = "drain" THEN got ELSE IF pc \in {"fetch", "awaitChunk"} THEN parts ELSE <<>>
Incoming == (Front \o toCli) \o devOut

OneFetch(q) == \A i, j \in DOMAIN q : q[i].call = q[j].call

FetchInv ==
    /\ faults = 0 /\ conn = "up"
    /\ Apart(Incoming, toDev)
    /\ pc \in {"drain", "fetch", "awaitChunk"} => Renewed(Incoming, toDev, callNo)
    /\ pc \in {"idle", "free", "freeAck"} /\ op = "templates" /\ result = "ok" => OneFetch(parts)

\* The places of a stream and of what follows it.
LEMMA ConcatPlaces ==
    ASSUME NEW S, NEW q \in Seq(S), NEW r \in Seq(S)
    PROVE  /\ q \o r \in Seq(S) /\ Len(q) \in Nat /\ Len(r) \in Nat
           /\ DOMAIN q = 1..Len(q) /\ DOMAIN r = 1..Len(r) /\ DOMAIN (q \o r) = 1..Len(q) + Len(r)
           /\ \A i \in 1..Len(q) : (q \o r)[i] = q[i]
           /\ \A i \in 1..Len(r) : (q \o r)[Len(q) + i] = r[i]
<1>1. /\ q \o r \in Seq(S) /\ Len(q \o r) = Len(q) + Len(r)
      /\ Len(q) \in Nat /\ Len(r) \in Nat /\ DOMAIN q = 1..Len(q) /\ DOMAIN r = 1..Len(r)
      /\ DOMAIN (q \o r) = 1..Len(q \o r)
      /\ \A i \in 1..Len(q) + Len(r) : (q \o r)[i] = IF i <= Len(q) THEN q[i] ELSE r[i - Len(q)]
  BY ConcatProperties, LenProperties
<1>2. ASSUME NEW i \in 1..Len(q) PROVE (q \o r)[i] = q[i]
  BY <1>1
<1>3. ASSUME NEW i \in 1..Len(r) PROVE (q \o r)[Len(q) + i] = r[i]
  <2>1. Len(q) + i \in 1..Len(q) + Len(r) /\ ~(Len(q) + i <= Len(q)) /\ Len(q) + i - Len(q) = i
    BY <1>1
  <2>2. QED
    BY <1>1, <2>1
<1>4. QED
  BY <1>1, <1>2, <1>3

LEMMA PiecesFollow == \A a, b, c \in Seq(Piece) : (a \o b) \o c = a \o (b \o c)
BY ConcatAssociative

\* Dropping what came first.
LEMMA ApartSuffix ==
    ASSUME NEW a \in Seq(Piece), NEW b \in Seq(Piece), NEW d
    PROVE  /\ Apart(a \o b, d) => Apart(b, d)
           /\ \A c : Renewed(a \o b, d, c) => Renewed(b, d, c)
<1> DEFINE q == a \o b
<1>1. /\ Len(a) \in Nat /\ Len(b) \in Nat /\ DOMAIN b = 1..Len(b) /\ DOMAIN q = 1..Len(a) + Len(b)
      /\ \A i \in 1..Len(b) : q[Len(a) + i] = b[i]
  BY ConcatPlaces
<1> HIDE DEF q
<1>2. \A i \in DOMAIN b : Len(a) + i \in DOMAIN q /\ q[Len(a) + i] = b[i]
  BY <1>1
<1>3. \A i \in DOMAIN b, m \in DOMAIN q :
         Len(a) + i < m => m - Len(a) \in DOMAIN b /\ i < m - Len(a) /\ b[m - Len(a)] = q[m]
  <2>1. SUFFICES ASSUME NEW i \in DOMAIN b, NEW m \in DOMAIN q, Len(a) + i < m
                 PROVE  m - Len(a) \in DOMAIN b /\ i < m - Len(a) /\ b[m - Len(a)] = q[m]
    OBVIOUS
  <2>2. m - Len(a) \in 1..Len(b) /\ i < m - Len(a) /\ Len(a) + (m - Len(a)) = m
    BY <1>1, <2>1
  <2>3. QED
    BY <1>1, <2>2
<1>4. ASSUME Apart(q, d) PROVE Apart(b, d)
  <2>1. ASSUME NEW i \in DOMAIN b, NEW j \in DOMAIN b, i < j, b[i].k = "chunk", b[j].k = "chunk",
               b[i].call # b[j].call
        PROVE  \E m \in DOMAIN b : i < m /\ m < j /\ b[m].k = "announce"
    <3>1. Len(a) + i < Len(a) + j
      BY <1>1, <2>1
    <3>2. PICK m \in DOMAIN q : Len(a) + i < m /\ m < Len(a) + j /\ q[m].k = "announce"
      BY <1>2, <1>4, <2>1, <3>1 DEF Apart
    <3>3. m - Len(a) < j
      BY <1>1, <3>2
    <3>4. QED
      BY <1>3, <3>2, <3>3
  <2>2. ASSUME NEW i \in DOMAIN b, NEW j \in DOMAIN d, b[i].k = "chunk", d[j].cmd = "chunk",
               b[i].call # d[j].call
        PROVE  \/ \E m \in DOMAIN b : i < m /\ b[m].k = "announce"
               \/ \E m \in DOMAIN d : m < j /\ d[m].cmd = "wrapped"
    <3>1. \/ \E m \in DOMAIN q : Len(a) + i < m /\ q[m].k = "announce"
          \/ \E m \in DOMAIN d : m < j /\ d[m].cmd = "wrapped"
      BY <1>2, <1>4, <2>2 DEF Apart
    <3>2. QED
      BY <1>3, <3>1
  <2>3. QED
    BY <1>4, <2>1, <2>2 DEF Apart
<1>5. ASSUME NEW c, Renewed(q, d, c) PROVE Renewed(b, d, c)
  <2>1. ASSUME NEW i \in DOMAIN b, b[i].k = "chunk", b[i].call # c
        PROVE  \/ \E m \in DOMAIN b : i < m /\ b[m].k = "announce"
               \/ \E m \in DOMAIN d : d[m].cmd = "wrapped"
    <3>1. \/ \E m \in DOMAIN q : Len(a) + i < m /\ q[m].k = "announce"
          \/ \E m \in DOMAIN d : d[m].cmd = "wrapped"
      BY <1>2, <1>5, <2>1 DEF Renewed
    <3>2. QED
      BY <1>3, <3>1
  <2>2. QED
    BY <1>5, <2>1 DEF Renewed
<1>6. QED
  BY <1>4, <1>5 DEF q

\* Adding what is no part to the front.
LEMMA ApartTail ==
    ASSUME NEW b \in Seq(Piece), NEW d, Apart(b, d)
    PROVE  Apart(<<P("tail")>> \o b, d)
<1> DEFINE q == <<P("tail")>> \o b
<1>1. <<P("tail")>> \in Seq(Piece) /\ Len(<<P("tail")>>) = 1 /\ <<P("tail")>>[1] = P("tail")
  BY PieceTypes, OneType
<1>2. /\ Len(b) \in Nat /\ DOMAIN b = 1..Len(b) /\ DOMAIN q = 1..1 + Len(b)
      /\ \A i \in 1..1 : q[i] = <<P("tail")>>[i]
      /\ \A i \in 1..Len(b) : q[1 + i] = b[i]
  BY <1>1, ConcatPlaces
<1> HIDE DEF q
<1>3. q[1].k = "tail"
  BY <1>1, <1>2 DEF P
<1>4. \A i \in DOMAIN q : q[i].k = "chunk" => i - 1 \in DOMAIN b /\ b[i - 1] = q[i]
  <2>1. SUFFICES ASSUME NEW i \in DOMAIN q, q[i].k = "chunk" PROVE i - 1 \in DOMAIN b /\ b[i - 1] = q[i]
    OBVIOUS
  <2>2. i # 1
    BY <1>3, <2>1
  <2>3. i - 1 \in 1..Len(b) /\ 1 + (i - 1) = i
    BY <1>2, <2>2
  <2>4. QED
    BY <1>2, <2>3
<1>5. \A m \in DOMAIN b : m + 1 \in DOMAIN q /\ q[m + 1] = b[m]
  BY <1>2
<1>6. ASSUME NEW i \in DOMAIN q, NEW j \in DOMAIN q, i < j, q[i].k = "chunk", q[j].k = "chunk",
             q[i].call # q[j].call
      PROVE  \E m \in DOMAIN q : i < m /\ m < j /\ q[m].k = "announce"
  <2>1. i - 1 < j - 1
    BY <1>2, <1>6
  <2>2. PICK m \in DOMAIN b : i - 1 < m /\ m < j - 1 /\ b[m].k = "announce"
    BY <1>4, <1>6, <2>1 DEF Apart
  <2>3. i < m + 1 /\ m + 1 < j
    BY <1>2, <2>2
  <2>4. QED
    BY <1>5, <2>2, <2>3
<1>7. ASSUME NEW i \in DOMAIN q, NEW j \in DOMAIN d, q[i].k = "chunk", d[j].cmd = "chunk",
             q[i].call # d[j].call
      PROVE  \/ \E m \in DOMAIN q : i < m /\ q[m].k = "announce"
             \/ \E m \in DOMAIN d : m < j /\ d[m].cmd = "wrapped"
  <2>1. \/ \E m \in DOMAIN b : i - 1 < m /\ b[m].k = "announce"
        \/ \E m \in DOMAIN d : m < j /\ d[m].cmd = "wrapped"
    BY <1>4, <1>7 DEF Apart
  <2>2. ASSUME NEW m \in DOMAIN b, i - 1 < m PROVE i < m + 1
    BY <1>2, <2>2
  <2>3. QED
    BY <1>5, <2>1, <2>2
<1>8. Apart(q, d)
  BY <1>6, <1>7 DEF Apart
<1>9. QED
  BY <1>8 DEF q

\* One more request: for an announcement, for a part of the fetch in progress,
\* or for something else.
LEMMA ApartSent ==
    ASSUME NEW q, NEW d \in Seq(Request), NEW req \in Request, NEW c, Apart(q, d),
           req.cmd = "chunk" => req.call = c /\ Renewed(q, d, c)
    PROVE  /\ Apart(q, Append(d, req))
           /\ req.cmd = "wrapped" \/ Renewed(q, d, c) => Renewed(q, Append(d, req), c)
<1> DEFINE e == Append(d, req)
           last == Len(d) + 1
<1>1. /\ Len(d) \in Nat /\ DOMAIN d = 1..Len(d) /\ DOMAIN e = 1..last /\ e[last] = req
      /\ \A i \in 1..Len(d) : e[i] = d[i]
  <2>1. e \in Seq(Request) /\ Len(e) = last
    BY AppendProperties
  <2>2. DOMAIN e = 1..Len(e) /\ Len(d) \in Nat /\ DOMAIN d = 1..Len(d)
    BY <2>1, LenProperties
  <2>3. \A i \in 1..Len(d) : e[i] = d[i]
    BY AppendProperties
  <2>4. e[last] = req
    BY AppendProperties
  <2>5. QED
    BY <2>1, <2>2, <2>3, <2>4
<1> HIDE DEF e
<1>2. /\ \A m \in DOMAIN d : m \in DOMAIN e /\ e[m] = d[m] /\ m < last
      /\ \A m \in DOMAIN e : m = last \/ m \in DOMAIN d
      /\ last \in DOMAIN e
  BY <1>1
<1>3. ASSUME NEW i \in DOMAIN e, NEW j \in DOMAIN e, i < j, e[i].cmd = "chunk", e[j].cmd = "chunk",
             e[i].call # e[j].call
      PROVE  \E m \in DOMAIN e : i < m /\ m < j /\ e[m].cmd = "wrapped"
  <2>1. i \in DOMAIN d /\ e[i] = d[i]
    BY <1>1, <1>3
  <2>2. CASE j \in DOMAIN d
    BY <1>2, <1>3, <2>1, <2>2 DEF Apart
  <2>3. CASE j = last
    <3>1. req.cmd = "chunk" /\ d[i].call # c /\ d[i].cmd = "chunk"
      BY <1>1, <1>3, <2>1, <2>3
    <3>2. PICK m \in DOMAIN d : i < m /\ d[m].cmd = "wrapped"
      BY <2>1, <3>1 DEF Renewed
    <3>3. QED
      BY <1>2, <2>3, <3>2
  <2>4. QED
    BY <1>2, <2>2, <2>3
<1>4. ASSUME NEW i \in DOMAIN q, NEW j \in DOMAIN e, q[i].k = "chunk", e[j].cmd = "chunk",
             q[i].call # e[j].call
      PROVE  \/ \E m \in DOMAIN q : i < m /\ q[m].k = "announce"
             \/ \E m \in DOMAIN e : m < j /\ e[m].cmd = "wrapped"
  <2>1. CASE j \in DOMAIN d
    BY <1>2, <1>4, <2>1 DEF Apart
  <2>2. CASE j = last
    <3>1. req.cmd = "chunk" /\ q[i].call # c
      BY <1>1, <1>4, <2>2
    <3>2. \/ \E m \in DOMAIN q : i < m /\ q[m].k = "announce"
          \/ \E m \in DOMAIN d : d[m].cmd = "wrapped"
      BY <1>4, <3>1 DEF Renewed
    <3>3. QED
      BY <1>2, <2>2, <3>2
  <2>3. QED
    BY <1>2, <2>1, <2>2
<1>5. Apart(q, e)
  BY <1>3, <1>4 DEF Apart
<1>6. ASSUME req.cmd = "wrapped" PROVE Renewed(q, e, c)
  <2>1. ASSUME NEW j \in DOMAIN e, e[j].cmd = "chunk" PROVE j < last
    BY <1>1, <1>2, <1>6, <2>1
  <2>2. QED
    BY <1>1, <1>2, <1>6, <2>1 DEF Renewed
<1>7. ASSUME Renewed(q, d, c) PROVE Renewed(q, e, c)
  <2>1. ASSUME NEW j \in DOMAIN e, e[j].cmd = "chunk", e[j].call # c
        PROVE  \E m \in DOMAIN e : j < m /\ e[m].cmd = "wrapped"
    <3>1. j \in DOMAIN d
      BY <1>1, <1>2, <2>1
    <3>2. PICK m \in DOMAIN d : j < m /\ d[m].cmd = "wrapped"
      BY <1>2, <1>7, <2>1, <3>1 DEF Renewed
    <3>3. QED
      BY <1>2, <3>2
  <2>2. ASSUME NEW i \in DOMAIN q, q[i].k = "chunk", q[i].call # c
        PROVE  \/ \E m \in DOMAIN q : i < m /\ q[m].k = "announce"
               \/ \E m \in DOMAIN e : e[m].cmd = "wrapped"
    BY <1>2, <1>7, <2>2 DEF Renewed
  <2>3. QED
    BY <2>1, <2>2 DEF Renewed
<1>8. QED
  BY <1>5, <1>6, <1>7 DEF e

\* A request for an announcement gives one, a request for a part that part or
\* none, and any other no part.
LEMMA AnswerParts ==
    ASSUME NEW req \in Request
    PROVE  /\ req.cmd = "wrapped" => Answer(req)[1].k = "announce" /\ Len(Answer(req)) = 1
           /\ \A i \in DOMAIN Answer(req) : Answer(req)[i].k = "chunk"
                => Len(Answer(req)) = 1 /\ req.cmd = "chunk" /\ Answer(req)[i].call = req.call
<1> DEFINE part == [k |-> "chunk", i |-> req.i, call |-> req.call]
           one(k) == [k |-> k, of |-> req.at]
<1>1. ASSUME NEW x, x.k # "chunk"
      PROVE  Len(<<x>>) = 1 /\ <<x>>[1] = x /\ \A i \in DOMAIN <<x>> : <<x>>[i].k # "chunk"
  BY <1>1
<1>2. P("err").k # "chunk" /\ P("ok").k # "chunk" /\ P("announce").k = "announce"
  BY DEF P
<1>3. CASE req.cmd = "wrapped"
  <2>1. Answer(req) = <<P("announce")>>
    <3>1. req.cmd # "probe" /\ "probe" # "wrapped"
      BY <1>3
    <3>2. QED
      BY <1>3, <3>1, Zenon DEF Answer
  <2>2. QED
    BY <1>1, <1>2, <1>3, <2>1
<1>4. CASE req.cmd = "chunk"
  <2>1. Answer(req) = <<part>> \/ Answer(req) = <<P("err")>>
    <3>1. req.cmd # "probe" /\ req.cmd # "wrapped" /\ "chunk" # "wrapped" /\ "chunk" # "probe"
      BY <1>4
    <3>2. QED
      BY <1>4, <3>1, Zenon DEF Answer
  <2>2. CASE Answer(req) = <<part>>
    <3>1. Len(<<part>>) = 1 /\ DOMAIN <<part>> = 1..1 /\ <<part>>[1] = part
      OBVIOUS
    <3>2. part.call = req.call
      OBVIOUS
    <3> HIDE DEF part
    <3>3. QED
      BY <1>4, <2>2, <3>1, <3>2
  <2>3. QED
    BY <1>1, <1>2, <1>4, <2>1, <2>2
<1>5. CASE req.cmd = "probe"
  <2>1. Answer(req) \in {<<P("err")>>, <<one("data")>>, <<one("prep"), one("body"), P("ok")>>}
    <3>1. req.cmd # "chunk" /\ req.cmd # "wrapped"
      BY <1>5
    <3>2. QED
      BY <1>5, <3>1, Zenon DEF Answer, Pushed
  <2>2. one("data").k # "chunk" /\ one("prep").k # "chunk" /\ one("body").k # "chunk"
    OBVIOUS
  <2> HIDE DEF one
  <2>3. \A x, y, z : x.k # "chunk" /\ y.k # "chunk" /\ z.k # "chunk"
          => \A i \in DOMAIN <<x, y, z>> : <<x, y, z>>[i].k # "chunk"
    OBVIOUS
  <2>4. \A i \in DOMAIN Answer(req) : Answer(req)[i].k # "chunk"
    BY <1>1, <1>2, <2>1, <2>2, <2>3
  <2>5. QED
    BY <1>5, <2>4
<1>6. CASE req.cmd = "free"
  <2>1. Answer(req) = <<P("ok")>>
    <3>1. /\ req.cmd # "chunk" /\ req.cmd # "wrapped" /\ req.cmd # "probe"
          /\ req.cmd # "users" /\ req.cmd # "setting"
      BY <1>6
    <3>2. QED
      BY <3>1, Zenon DEF Answer
  <2>2. QED
    BY <1>1, <1>2, <1>6, <2>1
<1>7. CASE req.cmd = "setting"
  <2>1. Answer(req) = <<P("setting")>>
    <3>1. /\ req.cmd # "chunk" /\ req.cmd # "wrapped" /\ req.cmd # "probe"
          /\ req.cmd # "users"
      BY <1>7
    <3>2. QED
      BY <1>7, <3>1, Zenon DEF Answer
  <2>2. P("setting").k # "chunk"
    BY DEF P
  <2>3. QED
    BY <1>1, <1>7, <2>1, <2>2
<1>8. CASE req.cmd = "users"
  <2> DEFINE bare(k) == [k |-> k, of |-> <<>>]
  <2>1. Answer(req) = <<bare("prep"), bare("body"), P("ok")>>
    <3>1. /\ req.cmd # "chunk" /\ req.cmd # "wrapped" /\ req.cmd # "probe"
          /\ req.cmd # "setting"
      BY <1>8
    <3>2. QED
      BY <1>8, <3>1, Zenon DEF Answer, Pushed
  <2>2. bare("prep").k # "chunk" /\ bare("body").k # "chunk"
    OBVIOUS
  <2> HIDE DEF bare
  <2>3. \A x, y, z : x.k # "chunk" /\ y.k # "chunk" /\ z.k # "chunk"
          => \A i \in DOMAIN <<x, y, z>> : <<x, y, z>>[i].k # "chunk"
    OBVIOUS
  <2>4. \A i \in DOMAIN Answer(req) : Answer(req)[i].k # "chunk"
    BY <1>2, <2>1, <2>2, <2>3
  <2>5. QED
    BY <1>8, <2>4
<1>9. QED
  BY <1>3, <1>4, <1>5, <1>6, <1>7, <1>8, RequestOf

\* One request is served: its answer follows everything that is under way.
LEMMA ApartServed ==
    ASSUME NEW q \in Seq(Piece), NEW d \in Seq(Request), d # <<>>, NEW ans \in Seq(Piece), Apart(q, d),
           Head(d).cmd = "wrapped" => ans[1].k = "announce" /\ Len(ans) = 1,
           \A i \in DOMAIN ans : ans[i].k = "chunk"
                => Len(ans) = 1 /\ Head(d).cmd = "chunk" /\ ans[i].call = Head(d).call
    PROVE  /\ Apart(q \o ans, Tail(d))
           /\ \A c : Renewed(q, d, c) => Renewed(q \o ans, Tail(d), c)
<1> DEFINE p == q \o ans
           t == Tail(d)
           end == Len(q) + 1
<1>1. /\ Len(q) \in Nat /\ Len(ans) \in Nat /\ DOMAIN q = 1..Len(q) /\ DOMAIN ans = 1..Len(ans)
      /\ DOMAIN p = 1..Len(q) + Len(ans)
      /\ \A i \in 1..Len(q) : p[i] = q[i]
      /\ \A i \in 1..Len(ans) : p[Len(q) + i] = ans[i]
  BY ConcatPlaces
<1>2. /\ Len(d) \in Nat \ {0} /\ DOMAIN d = 1..Len(d) /\ DOMAIN t = 1..Len(d) - 1 /\ Head(d) = d[1]
      /\ \A j \in 1..Len(d) - 1 : t[j] = d[j + 1]
  <2>1. /\ t \in Seq(Request) /\ Len(t) = Len(d) - 1 /\ Len(d) \in Nat /\ DOMAIN d = 1..Len(d)
        /\ Len(d) # 0 /\ DOMAIN t = 1..Len(t) /\ Head(d) = d[1]
    BY HeadTailProperties, LenProperties, EmptySeq
  <2>2. \A j \in 1..Len(t) : t[j] = d[j + 1]
    BY HeadTailProperties
  <2>3. QED
    BY <2>1, <2>2
<1> HIDE DEF p, t
<1>3. /\ \A i \in DOMAIN q : i \in DOMAIN p /\ p[i] = q[i] /\ i < end
      /\ \A j \in DOMAIN t : j + 1 \in DOMAIN d /\ t[j] = d[j + 1]
      /\ \A m \in DOMAIN d : m > 1 => m - 1 \in DOMAIN t /\ t[m - 1] = d[m]
  <2>1. ASSUME NEW m \in DOMAIN d, m > 1 PROVE m - 1 \in DOMAIN t /\ t[m - 1] = d[m]
    <3>1. m - 1 \in 1..Len(d) - 1 /\ (m - 1) + 1 = m
      BY <1>2, <2>1
    <3>2. QED
      BY <1>2, <3>1
  <2>2. QED
    BY <1>1, <1>2, <2>1
<1>4. ASSUME NEW i \in DOMAIN p, p[i].k = "chunk"
      PROVE  i \in DOMAIN q \/ (i = end /\ d[1].cmd = "chunk" /\ p[i].call = d[1].call)
  <2>1. CASE i <= Len(q)
    BY <1>1, <2>1
  <2>2. CASE i > Len(q)
    <3>1. i - Len(q) \in 1..Len(ans) /\ Len(q) + (i - Len(q)) = i
      BY <1>1, <2>2
    <3>2. p[i] = ans[i - Len(q)]
      BY <1>1, <3>1
    <3>3. Len(ans) = 1 /\ Head(d).cmd = "chunk" /\ p[i].call = Head(d).call
      BY <1>1, <1>4, <3>1, <3>2
    <3>4. QED
      BY <1>1, <1>2, <3>1, <3>3
  <2>3. QED
    BY <1>1, <2>1, <2>2
<1>5. d[1].cmd = "wrapped" => end \in DOMAIN p /\ p[end].k = "announce"
  <2>1. SUFFICES ASSUME d[1].cmd = "wrapped" PROVE end \in DOMAIN p /\ p[end].k = "announce"
    OBVIOUS
  <2>2. Len(ans) = 1 /\ ans[1].k = "announce"
    BY <1>2, <2>1
  <2>3. QED
    BY <1>1, <2>2
<1>6. 1 \in DOMAIN d /\ end \in Nat /\ \A j \in DOMAIN d : j \in Nat /\ 1 <= j
  BY <1>1, <1>2
<1>7. ASSUME NEW i \in DOMAIN p, NEW j \in DOMAIN p, i < j, p[i].k = "chunk", p[j].k = "chunk",
             p[i].call # p[j].call
      PROVE  \E m \in DOMAIN p : i < m /\ m < j /\ p[m].k = "announce"
  <2>1. CASE j \in DOMAIN q
    <3>1. i \in DOMAIN q
      BY <1>1, <1>7, <2>1
    <3>2. QED
      BY <1>3, <1>7, <2>1, <3>1 DEF Apart
  <2>2. CASE j = end /\ d[1].cmd = "chunk" /\ p[j].call = d[1].call
    <3>1. i \in DOMAIN q /\ q[i] = p[i]
      BY <1>1, <1>7, <2>2
    <3>2. \/ \E m \in DOMAIN q : i < m /\ q[m].k = "announce"
          \/ \E m \in DOMAIN d : m < 1 /\ d[m].cmd = "wrapped"
      BY <1>6, <1>7, <2>2, <3>1 DEF Apart
    <3>3. PICK m \in DOMAIN q : i < m /\ q[m].k = "announce"
      BY <1>2, <3>2
    <3>4. QED
      BY <1>3, <2>2, <3>3
  <2>3. QED
    BY <1>4, <1>7, <2>1, <2>2
<1>8. ASSUME NEW i \in DOMAIN t, NEW j \in DOMAIN t, i < j, t[i].cmd = "chunk", t[j].cmd = "chunk",
             t[i].call # t[j].call
      PROVE  \E m \in DOMAIN t : i < m /\ m < j /\ t[m].cmd = "wrapped"
  <2>1. i + 1 < j + 1 /\ 1 < i + 1
    BY <1>2, <1>8
  <2>2. PICK m \in DOMAIN d : i + 1 < m /\ m < j + 1 /\ d[m].cmd = "wrapped"
    BY <1>3, <1>8, <2>1 DEF Apart
  <2>3. m > 1 /\ i < m - 1 /\ m - 1 < j
    BY <1>2, <2>2
  <2>4. QED
    BY <1>3, <2>2, <2>3
<1>9. ASSUME NEW i \in DOMAIN p, NEW j \in DOMAIN t, p[i].k = "chunk", t[j].cmd = "chunk",
             p[i].call # t[j].call
      PROVE  \/ \E m \in DOMAIN p : i < m /\ p[m].k = "announce"
             \/ \E m \in DOMAIN t : m < j /\ t[m].cmd = "wrapped"
  <2>1. CASE i \in DOMAIN q
    <3>1. \/ \E m \in DOMAIN q : i < m /\ q[m].k = "announce"
          \/ \E m \in DOMAIN d : m < j + 1 /\ d[m].cmd = "wrapped"
      BY <1>3, <1>9, <2>1 DEF Apart
    <3>2. CASE \E m \in DOMAIN q : i < m /\ q[m].k = "announce"
      BY <1>3, <3>2
    <3>3. CASE \E m \in DOMAIN d : m < j + 1 /\ d[m].cmd = "wrapped"
      <4>1. PICK m \in DOMAIN d : m < j + 1 /\ d[m].cmd = "wrapped"
        BY <3>3
      <4>2. CASE m = 1
        BY <1>3, <1>5, <2>1, <4>1, <4>2
      <4>3. CASE m > 1
        <5>1. m - 1 < j
          BY <1>2, <4>1
        <5>2. QED
          BY <1>3, <4>1, <4>3, <5>1
      <4>4. QED
        BY <1>6, <4>2, <4>3
    <3>4. QED
      BY <3>1, <3>2, <3>3
  <2>2. CASE i = end /\ d[1].cmd = "chunk" /\ p[i].call = d[1].call
    <3>1. 1 < j + 1 /\ j + 1 \in DOMAIN d /\ t[j] = d[j + 1]
      BY <1>2, <1>3
    <3>2. PICK m \in DOMAIN d : 1 < m /\ m < j + 1 /\ d[m].cmd = "wrapped"
      BY <1>6, <1>9, <2>2, <3>1 DEF Apart
    <3>3. m - 1 < j
      BY <1>2, <3>2
    <3>4. QED
      BY <1>3, <3>2, <3>3
  <2>3. QED
    BY <1>4, <1>9, <2>1, <2>2
<1>10. Apart(p, t)
  BY <1>7, <1>8, <1>9 DEF Apart
<1>11. ASSUME NEW c, Renewed(q, d, c) PROVE Renewed(p, t, c)
  <2>1. ASSUME NEW j \in DOMAIN d, j > 0, d[j].cmd = "chunk", d[j].call # c
        PROVE  \E m \in DOMAIN t : j < m + 1 /\ t[m].cmd = "wrapped"
    <3>1. PICK m \in DOMAIN d : j < m /\ d[m].cmd = "wrapped"
      BY <1>11, <2>1 DEF Renewed
    <3>2. m > 1 /\ j < (m - 1) + 1
      BY <1>2, <2>1, <3>1
    <3>3. QED
      BY <1>3, <3>1, <3>2
  <2>2. ASSUME NEW j \in DOMAIN t, t[j].cmd = "chunk", t[j].call # c
        PROVE  \E m \in DOMAIN t : j < m /\ t[m].cmd = "wrapped"
    <3>1. j + 1 \in DOMAIN d /\ j + 1 > 0 /\ t[j] = d[j + 1]
      BY <1>2, <1>3
    <3>2. PICK m \in DOMAIN t : j + 1 < m + 1 /\ t[m].cmd = "wrapped"
      BY <2>1, <2>2, <3>1
    <3>3. j < m
      BY <1>2, <3>2
    <3>4. QED
      BY <3>2, <3>3
  <2>3. ASSUME NEW i \in DOMAIN p, p[i].k = "chunk", p[i].call # c
        PROVE  \/ \E m \in DOMAIN p : i < m /\ p[m].k = "announce"
               \/ \E m \in DOMAIN t : t[m].cmd = "wrapped"
    <3>1. CASE i \in DOMAIN q
      <4>1. \/ \E m \in DOMAIN q : i < m /\ q[m].k = "announce"
            \/ \E m \in DOMAIN d : d[m].cmd = "wrapped"
        BY <1>3, <1>11, <2>3, <3>1 DEF Renewed
      <4>2. CASE \E m \in DOMAIN q : i < m /\ q[m].k = "announce"
        BY <1>3, <4>2
      <4>3. CASE \E m \in DOMAIN d : d[m].cmd = "wrapped"
        <5>1. PICK m \in DOMAIN d : d[m].cmd = "wrapped"
          BY <4>3
        <5>2. CASE m = 1
          BY <1>3, <1>5, <3>1, <5>1, <5>2
        <5>3. CASE m > 1
          BY <1>3, <5>1, <5>3
        <5>4. QED
          BY <1>6, <5>2, <5>3
      <4>4. QED
        BY <4>1, <4>2, <4>3
    <3>2. CASE i = end /\ d[1].cmd = "chunk" /\ p[i].call = d[1].call
      <4>1. 1 > 0 /\ d[1].call # c
        BY <2>3, <3>2
      <4>2. QED
        BY <1>6, <2>1, <3>2, <4>1
    <3>3. QED
      BY <1>4, <2>3, <3>1, <3>2
  <2>4. QED
    BY <2>2, <2>3 DEF Renewed
<1>12. QED
  BY <1>10, <1>11 DEF p, t

\* Parts that no announcement interrupts are of one fetch.
LEMMA RunOfParts ==
    ASSUME NEW q \in Seq(Piece), NEW r \in Seq(Piece), NEW d, Apart(q \o r, d),
           \A i \in DOMAIN q : q[i].k # "announce"
    PROVE  \A i, j \in DOMAIN q : q[i].k = "chunk" /\ q[j].k = "chunk" => q[i].call = q[j].call
<1> DEFINE p == q \o r
<1>1. /\ Len(q) \in Nat /\ Len(r) \in Nat /\ DOMAIN q = 1..Len(q) /\ DOMAIN p = 1..Len(q) + Len(r)
      /\ \A i \in 1..Len(q) : p[i] = q[i]
  BY ConcatPlaces
<1> HIDE DEF p
<1>2. ASSUME NEW i \in DOMAIN q, NEW j \in DOMAIN q, i < j, q[i].k = "chunk", q[j].k = "chunk"
      PROVE  q[i].call = q[j].call
  <2>1. SUFFICES ASSUME q[i].call # q[j].call PROVE FALSE
    OBVIOUS
  <2>2. i \in DOMAIN p /\ j \in DOMAIN p /\ p[i] = q[i] /\ p[j] = q[j]
    BY <1>1
  <2>3. PICK m \in DOMAIN p : i < m /\ m < j /\ p[m].k = "announce"
    BY <1>2, <2>1, <2>2 DEF Apart, p
  <2>4. m \in DOMAIN q /\ p[m] = q[m]
    BY <1>1, <2>3
  <2>5. QED
    BY <2>3, <2>4
<1>3. ASSUME NEW i \in DOMAIN q, NEW j \in DOMAIN q, q[i].k = "chunk", q[j].k = "chunk"
      PROVE  q[i].call = q[j].call
  <2>1. i < j \/ j < i \/ i = j
    BY <1>1
  <2>2. QED
    BY <1>2, <1>3, <2>1
<1>4. QED
  BY <1>3

\* A table that came at once is made of such a run.
LEMMA TableFromRun ==
    ASSUME NEW q \in Seq(Piece), NEW r \in Seq(Piece), NEW d, Apart(q \o r, d), HoldsTable(q)
    PROVE  OneFetch(TableIn(q))
<1>1. \A i \in DOMAIN q : q[i].k # "announce"
  BY DEF HoldsTable, Payloads, Carries
<1>2. \A i, j \in DOMAIN q : q[i].k = "chunk" /\ q[j].k = "chunk" => q[i].call = q[j].call
  BY <1>1, RunOfParts
<1>3. \A n \in 1..Chunks : \E j \in DOMAIN q : q[j].k = "chunk" /\ TableIn(q)[n] = q[j]
  BY TableInType
<1>4. DOMAIN TableIn(q) = 1..Chunks
  BY DEF TableIn
<1>5. ASSUME NEW m \in 1..Chunks, NEW n \in 1..Chunks PROVE TableIn(q)[m].call = TableIn(q)[n].call
  BY <1>2, <1>3
<1>6. QED
  BY <1>4, <1>5 DEF OneFetch

\* What a receive leaves of what it found.
LEMMA ApartLeft ==
    ASSUME NEW q \in Seq(Piece), NEW r \in Seq(Piece), NEW d, Apart(q \o r, d), NEW i \in 2..(Len(q) + 1)
    PROVE  LET left == SubSeq(q, i, Len(q))
           IN  Apart(left \o r, d) /\ Apart((<<P("tail")>> \o left) \o r, d)
<1> DEFINE left == SubSeq(q, i, Len(q))
           gone == SubSeq(q, 1, i - 1)
<1>1. /\ Len(q) \in Nat /\ i \in Nat \ {0} /\ i - 1 \in Int /\ i - 1 <= Len(q) /\ 1 \in Nat \ {0}
      /\ 1 \in 1..Len(q) + 1 /\ i - 1 \in 1 - 1..Len(q) /\ Len(q) \in i - 1..Len(q) /\ (i - 1) + 1 = i
  <2>1. Len(q) \in Nat
    BY LenProperties
  <2>2. QED
    BY <2>1
<1>2. gone \o left = q
  <2>1. SubSeq(q, 1, i - 1) \o SubSeq(q, (i - 1) + 1, Len(q)) = SubSeq(q, 1, Len(q))
    BY <1>1, ConcatAdjacentSubSeq
  <2>2. SubSeq(q, 1, Len(q)) = q
    BY SubSeqFull
  <2>3. QED
    BY <1>1, <2>1, <2>2
<1>3. gone \in Seq(Piece) /\ left \in Seq(Piece)
  <2>1. gone \in Seq(Piece)
    BY <1>1, PartType
  <2>2. Len(q) <= Len(q) /\ Len(q) \in Int
    BY <1>1
  <2>3. left \in Seq(Piece)
    BY <1>1, <2>2, PartType
  <2>4. QED
    BY <2>1, <2>3
<1> HIDE DEF left, gone
<1>4. q \o r = gone \o (left \o r) /\ left \o r \in Seq(Piece)
  <2>1. (gone \o left) \o r = gone \o (left \o r)
    BY <1>3, PiecesFollow, Zenon
  <2>2. left \o r \in Seq(Piece)
    BY <1>3, ConcatProperties
  <2>3. QED
    BY <1>2, <2>1, <2>2
<1>5. Apart(left \o r, d)
  BY <1>3, <1>4, ApartSuffix
<1>6. Apart(<<P("tail")>> \o (left \o r), d)
  BY <1>4, <1>5, ApartTail
<1>7. <<P("tail")>> \in Seq(Piece)
  BY PieceTypes, OneType
<1>8. (<<P("tail")>> \o left) \o r = <<P("tail")>> \o (left \o r)
  BY <1>3, <1>7, PiecesFollow, Zenon
<1>9. Apart((<<P("tail")>> \o left) \o r, d)
  BY <1>6, <1>8
<1>10. QED
  BY <1>5, <1>9 DEF left

LEMMA IncomingType ==
    ASSUME TypeInv
    PROVE  /\ Front \in Seq(Piece) /\ toCli \in Seq(Piece) /\ devOut \in Seq(Piece)
           /\ toDev \in Seq(Request) /\ got \in Seq(Piece) /\ parts \in Seq(Chunk) /\ parts \in Seq(Piece)
           /\ toCli \o devOut \in Seq(Piece) /\ Front \o toCli \in Seq(Piece)
           /\ Incoming = Front \o (toCli \o devOut) /\ Incoming \in Seq(Piece)
<1>1. /\ toCli \in Seq(Piece) /\ devOut \in Seq(Piece) /\ toDev \in Seq(Request)
      /\ got \in Seq(Piece) /\ parts \in Seq(Chunk)
  BY DEF TypeInv, TTypeOK
<1>2. parts \in Seq(Piece)
  <2>1. Len(parts) \in Nat /\ DOMAIN parts = 1..Len(parts) /\ parts = [i \in 1..Len(parts) |-> parts[i]]
    BY <1>1, LenProperties
  <2>2. \A i \in 1..Len(parts) : parts[i] \in Chunk
    BY <1>1, ElementOfSeq
  <2>3. \A i \in 1..Len(parts) : parts[i] \in Piece
    BY <2>2, PieceTypes
  <2>4. parts \in [1..Len(parts) -> Piece]
    BY <2>1, <2>3
  <2>5. QED
    BY <2>1, <2>4, FunctionIsSeq
<1>3. <<>> \in Seq(Piece)
  BY EmptyStream
<1>4. Front \in Seq(Piece)
  BY <1>1, <1>2, <1>3 DEF Front
<1>5. /\ toCli \o devOut \in Seq(Piece) /\ Front \o toCli \in Seq(Piece)
      /\ Incoming = Front \o (toCli \o devOut) /\ Incoming \in Seq(Piece)
  <2>1. toCli \o devOut \in Seq(Piece) /\ Front \o toCli \in Seq(Piece)
    BY <1>1, <1>4, ConcatProperties
  <2>2. Incoming \in Seq(Piece)
    BY <1>1, <2>1, ConcatProperties DEF Incoming
  <2>3. Incoming = Front \o (toCli \o devOut)
    BY <1>1, <1>4, PiecesFollow, Zenon DEF Incoming
  <2>4. QED
    BY <2>1, <2>2, <2>3
<1>6. QED
  BY <1>1, <1>2, <1>4, <1>5

\* What holds of all that comes in holds of what is not yet taken.
LEMMA StillComing ==
    ASSUME TypeInv, NEW d
    PROVE  /\ Apart(Incoming, d) => Apart(toCli \o devOut, d) /\ Apart(devOut, d)
           /\ \A c : Renewed(Incoming, d, c) => Renewed(devOut, d, c)
<1>1. /\ Front \in Seq(Piece) /\ toCli \in Seq(Piece) /\ devOut \in Seq(Piece)
      /\ toCli \o devOut \in Seq(Piece) /\ Front \o toCli \in Seq(Piece)
      /\ Incoming = Front \o (toCli \o devOut)
  BY IncomingType
<1>2. Apart(Incoming, d) => Apart(toCli \o devOut, d)
  BY <1>1, ApartSuffix
<1>3. /\ Apart((Front \o toCli) \o devOut, d) => Apart(devOut, d)
      /\ \A c : Renewed((Front \o toCli) \o devOut, d, c) => Renewed(devOut, d, c)
  BY <1>1, ApartSuffix
<1>4. QED
  BY <1>2, <1>3 DEF Incoming

\* Where nothing is taken, what comes in is what is received and on its way.
LEMMA NothingTaken ==
    ASSUME TypeInv'
    PROVE  Front' = <<>> => Incoming' = toCli' \o devOut'
<1>1. toCli' \in Seq(Piece)
  BY DEF TypeInv, TTypeOK
<1>2. <<>> \o toCli' = toCli'
  BY <1>1, ConcatEmptySeq
<1>3. QED
  BY <1>2 DEF Incoming

LEMMA OutsideFetch ==
    ASSUME MaxFaults = 0, TypeInv, FetchInv, Outside
    PROVE  FetchInv'
<1>1. UNCHANGED cliVars
  BY DEF Outside, Serve, ServeMute, Refuse, Break, Deliver, TakeRequest
<1>2. UNCHANGED <<pc, op, callNo, got, parts, result>> /\ Front' = Front
  BY <1>1 DEF cliVars, tabVars, Front
<1>3. faults = 0 /\ conn = "up" /\ Apart(Incoming, toDev)
  BY DEF FetchInv
<1>4. ~ServeMute /\ ~Refuse /\ ~Break
  BY <1>3 DEF ServeMute, Refuse, Break, Fault
<1>5. /\ Front \in Seq(Piece) /\ toCli \in Seq(Piece) /\ devOut \in Seq(Piece) /\ toDev \in Seq(Request)
      /\ Front \o toCli \in Seq(Piece) /\ Incoming \in Seq(Piece)
  BY IncomingType
<1>6. CASE Serve
  <2> DEFINE ans == Answer(Head(toDev))
  <2>1. /\ toDev # <<>> /\ toDev' = Tail(toDev) /\ toCli' = toCli /\ UNCHANGED <<faults, conn>>
        /\ devOut' = devOut \o ans
    BY <1>3, <1>6 DEF Serve, TakeRequest
  <2>2. Head(toDev) \in Request
    BY <1>5, <2>1, HeadTailProperties
  <2>3. /\ ans \in Seq(Piece)
        /\ Head(toDev).cmd = "wrapped" => ans[1].k = "announce" /\ Len(ans) = 1
        /\ \A i \in DOMAIN ans : ans[i].k = "chunk"
              => Len(ans) = 1 /\ Head(toDev).cmd = "chunk" /\ ans[i].call = Head(toDev).call
    BY <2>2, AnswerIsPieces, AnswerParts
  <2> HIDE DEF ans
  <2>4. /\ Apart(Incoming \o ans, Tail(toDev))
        /\ \A c : Renewed(Incoming, toDev, c) => Renewed(Incoming \o ans, Tail(toDev), c)
    BY <1>3, <1>5, <2>1, <2>3, ApartServed
  <2>5. Incoming' = Incoming \o ans
    <3>1. Incoming' = (Front \o toCli) \o (devOut \o ans)
      BY <1>2, <2>1 DEF Incoming
    <3>2. (Front \o toCli) \o (devOut \o ans) = ((Front \o toCli) \o devOut) \o ans
      BY <1>5, <2>3, PiecesFollow, Zenon
    <3>3. QED
      BY <3>1, <3>2 DEF Incoming
  <2>6. QED
    BY <1>2, <1>3, <2>1, <2>4, <2>5 DEF FetchInv, OneFetch
<1>7. CASE \E n \in 1..Len(devOut) : Deliver(n)
  <2>1. PICK n \in 1..Len(devOut) : Deliver(n)
    BY <1>7
  <2> DEFINE before == SubSeq(devOut, 1, n)
             after  == SubSeq(devOut, n + 1, Len(devOut))
  <2>2. toCli' = toCli \o before /\ devOut' = after /\ UNCHANGED <<toDev, conn, faults>>
    BY <2>1 DEF Deliver
  <2>3. /\ Len(devOut) \in Nat /\ n \in Nat \ {0} /\ n \in Int /\ n <= Len(devOut) /\ n + 1 \in Nat \ {0}
        /\ 1 \in 1..Len(devOut) + 1 /\ n \in 1 - 1..Len(devOut) /\ Len(devOut) \in n..Len(devOut)
        /\ 1 \in Nat \ {0} /\ Len(devOut) \in Int /\ Len(devOut) <= Len(devOut)
    <3>1. Len(devOut) \in Nat
      BY <1>5, LenProperties
    <3>2. QED
      BY <3>1
  <2>4. before \in Seq(Piece) /\ after \in Seq(Piece) /\ before \o after = devOut
    <3>1. before \in Seq(Piece)
      BY <1>5, <2>3, PartType
    <3>2. after \in Seq(Piece)
      BY <1>5, <2>3, PartType
    <3>3. before \o after = SubSeq(devOut, 1, Len(devOut))
      BY <1>5, <2>3, ConcatAdjacentSubSeq
    <3>4. QED
      BY <1>5, <3>1, <3>2, <3>3, SubSeqFull
  <2> HIDE DEF before, after
  <2>5. Incoming' = Incoming
    <3>1. Incoming' = (Front \o (toCli \o before)) \o after
      BY <1>2, <2>2 DEF Incoming
    <3>2. Front \in Seq(Piece) /\ toCli \in Seq(Piece) /\ before \in Seq(Piece) /\ after \in Seq(Piece)
      BY <1>5, <2>4
    <3>3. (Front \o toCli) \o before = Front \o (toCli \o before)
      BY <3>2, PiecesFollow, Zenon
    <3>4. ((Front \o toCli) \o before) \o after = (Front \o toCli) \o (before \o after)
      BY <1>5, <3>2, PiecesFollow, Zenon
    <3>5. QED
      BY <2>4, <3>1, <3>3, <3>4 DEF Incoming
  <2>6. QED
    BY <1>2, <2>2, <2>5 DEF FetchInv, OneFetch
<1>8. QED
  BY <1>4, <1>6, <1>7 DEF Outside

\* Streams without a part are apart, and requests that ask for none keep them so.
LEMMA ApartWithout ==
    ASSUME NEW q, NEW d, \A i \in DOMAIN q : q[i].k # "chunk", \A j \in DOMAIN d : d[j].cmd # "chunk"
    PROVE  Apart(q, d)
BY DEF Apart

LEMMA ApartLate ==
    ASSUME NEW q, NEW d \in Seq(Request), NEW late \in Seq(Request), Apart(q, d),
           \A j \in DOMAIN late : late[j].cmd # "chunk"
    PROVE  Apart(q, d \o late)
<1> DEFINE e == d \o late
<1>1. /\ Len(d) \in Nat /\ Len(late) \in Nat /\ DOMAIN d = 1..Len(d) /\ DOMAIN late = 1..Len(late)
      /\ DOMAIN e = 1..Len(d) + Len(late)
      /\ \A i \in 1..Len(d) : e[i] = d[i]
      /\ \A i \in 1..Len(late) : e[Len(d) + i] = late[i]
  BY ConcatPlaces
<1> HIDE DEF e
<1>2. \A m \in DOMAIN d : m \in DOMAIN e /\ e[m] = d[m]
  BY <1>1
<1>3. ASSUME NEW j \in DOMAIN e, e[j].cmd = "chunk" PROVE j \in DOMAIN d /\ e[j] = d[j]
  <2>1. CASE j <= Len(d)
    BY <1>1, <2>1
  <2>2. CASE j > Len(d)
    <3>1. j - Len(d) \in 1..Len(late) /\ Len(d) + (j - Len(d)) = j
      BY <1>1, <2>2
    <3>2. e[j] = late[j - Len(d)] /\ j - Len(d) \in DOMAIN late
      BY <1>1, <3>1
    <3>3. QED
      BY <1>3, <3>2
  <2>3. QED
    BY <1>1, <2>1, <2>2
<1>4. Apart(q, e)
  BY <1>2, <1>3 DEF Apart
<1>5. QED
  BY <1>4 DEF e

\* What a users read leaves under way, it or its repeats: no part of a table.
LEMMA UsersReadApart ==
    ASSUME MaxFaults = 0, faults = 0, TypeInv, conn = "up", Apart(devOut, toDev),
           TableComes \/ TableFails
    PROVE  faults' = 0 /\ conn' = "up" /\ toCli' = <<>> /\ Apart(devOut', toDev')
<1>1. ~Fault
  BY DEF Fault
<1>2. /\ MaxLate \in Nat
      /\ \A cmd \in {"users", "free", "setting"} : cmd # "chunk"
  BY TimelyAssumption
<1>3. ASSUME NEW cmds \in SUBSET {"users", "free", "setting"}, NEW late \in Late(cmds, MaxLate)
      PROVE  late \in Seq(Request) /\ \A j \in DOMAIN late : late[j].cmd # "chunk"
  <2>1. late \in Seq(Request)
    BY <1>2, LateType
  <2>2. CASE late = <<>>
    BY <2>2
  <2>3. CASE \E m \in 0..MaxLate : late \in [1..m -> [cmd : cmds]]
    <3>1. ASSUME NEW j \in DOMAIN late PROVE late[j].cmd # "chunk"
      <4>1. late[j] \in [cmd : cmds]
        BY <2>3
      <4>2. late[j].cmd \in {"users", "free", "setting"}
        BY <4>1
      <4>3. QED
        BY <4>2
    <3>2. QED
      BY <2>1, <3>1
  <2>4. QED
    BY <2>1, <2>2, <2>3 DEF Late
<1>4. CASE TableComes
  <2>1. /\ conn' = "up" /\ toCli' = <<>> /\ faults' = 0
        /\ devOut' \in {<<>>, <<P("ok")>>} /\ toDev' \in Late({"users", "free"}, MaxLate)
    BY <1>4 DEF TableComes
  <2>2. \A i \in DOMAIN devOut' : devOut'[i].k # "chunk"
    BY <2>1 DEF P
  <2>3. \A j \in DOMAIN toDev' : toDev'[j].cmd # "chunk"
    BY <1>3, <2>1
  <2>4. QED
    BY <2>1, <2>2, <2>3, ApartWithout
<1>5. CASE TableFails
  <2>1. CASE /\ Adversity \/ (conn = "dead" /\ UNCHANGED faults)
             /\ toCli' \in IF conn = "up" THEN {<<>>} ELSE {<<>>, toCli}
             /\ \E late \in Late({"users", "free"}, MaxLate) :
                   toDev' = IF conn = "up" THEN toDev \o late ELSE toDev
             /\ UNCHANGED <<devOut, conn, isConnect>>
    <3>1. faults' = 0 /\ toCli' = <<>> /\ conn' = "up" /\ devOut' = devOut
      BY <1>1, <2>1 DEF Adversity
    <3>2. PICK late \in Late({"users", "free"}, MaxLate) : toDev' = toDev \o late
      BY <2>1
    <3>3. late \in Seq(Request) /\ (\A j \in DOMAIN late : late[j].cmd # "chunk") /\ toDev \in Seq(Request)
      BY <1>3 DEF TypeInv, TTypeOK
    <3>4. Apart(devOut, toDev \o late)
      BY <3>3, ApartLate
    <3>5. QED
      BY <3>1, <3>2, <3>4
  <2>2. CASE /\ Adversity /\ conn' = "up" /\ toCli' = <<>> /\ devOut' = <<>>
             /\ toDev' \in Late({"setting", "users", "free"}, MaxLate)
    <3>1. faults' = 0
      BY <1>1, <2>2 DEF Adversity
    <3>2. \A j \in DOMAIN toDev' : toDev'[j].cmd # "chunk"
      BY <1>3, <2>2
    <3>3. QED
      BY <2>2, <3>1, <3>2, ApartWithout
  <2>3. QED
    BY <1>1, <1>5, <2>1, <2>2 DEF TableFails
<1>6. QED
  BY <1>4, <1>5

LEMMA CallFetch ==
    ASSUME MaxFaults = 0, TypeInv, TypeInv', FetchInv, Calls
    PROVE  FetchInv'
<1>1. pc = "idle" /\ faults = 0 /\ conn = "up" /\ Apart(Incoming, toDev)
  BY DEF Calls, StartScan, StartTemplates, GetUsers, Reconnect, NewCall, FetchInv
<1>2. Apart(devOut, toDev)
  BY <1>1, StillComing
<1>3. ASSUME pc' \in {"idle", "probe"}, op' # "templates", faults' = 0, conn' = "up", toCli' = <<>>,
             Apart(devOut', toDev')
      PROVE  FetchInv'
  <2>1. Front' = <<>> /\ devOut' \in Seq(Piece)
    BY <1>3 DEF Front, TypeInv, TTypeOK
  <2>2. Incoming' = devOut'
    <3>1. Incoming' = <<>> \o devOut'
      BY <1>3, <2>1, NothingTaken
    <3>2. QED
      BY <2>1, <3>1, ConcatEmptySeq
  <2>3. QED
    BY <1>3, <2>2 DEF FetchInv
<1>4. ASSUME pc' \in {"probe", "wrap"}, UNCHANGED <<toDev, devOut, toCli, conn, faults>>
      PROVE  FetchInv'
  <2>1. Front = <<>> /\ Front' = <<>>
    BY <1>1, <1>4 DEF Front
  <2>2. Incoming' = Incoming
    BY <1>4, <2>1 DEF Incoming
  <2>3. QED
    BY <1>1, <1>4, <2>2 DEF FetchInv
<1>5. CASE (\E o \in Scans : StartScan(o)) \/ GetUsers
  <2>1. op' # "templates" /\ pc' \in {"idle", "probe"}
    BY <1>5 DEF StartScan, GetUsers, NewCall, Return, Scans
  <2>2. CASE TableComes \/ TableFails
    BY <1>1, <1>2, <1>3, <2>1, <2>2, UsersReadApart
  <2>3. CASE pc' = "probe" /\ UNCHANGED netVars
    BY <1>4, <2>3 DEF netVars
  <2>4. QED
    BY <1>5, <2>2, <2>3 DEF StartScan, GetUsers
<1>6. CASE StartTemplates
  BY <1>4, <1>6 DEF StartTemplates, netVars
<1>7. CASE Reconnect(TRUE) /\ UNCHANGED faults
  <2>1. /\ pc' = "idle" /\ op' = "connect" /\ devOut' = <<>> /\ toCli' = <<>>
        /\ conn' = "up" /\ faults' = 0 /\ toDev' \in Late({"setting"}, 2)
    BY <1>1, <1>7 DEF Reconnect, NewCall, Return
  <2>2. ASSUME NEW j \in DOMAIN toDev' PROVE toDev'[j].cmd # "chunk"
    BY <2>1, <2>2 DEF Late
  <2>3. Apart(devOut', toDev')
    BY <2>1, <2>2, ApartWithout
  <2>4. QED
    BY <1>3, <2>1, <2>3
<1>8. ~(Reconnect(FALSE) /\ Fault)
  BY <1>1 DEF Fault
<1>9. QED
  BY <1>5, <1>6, <1>7, <1>8 DEF Calls

\* A step after which the call takes no more of the table.
LEMMA TakesNoMore ==
    ASSUME TypeInv', UNCHANGED <<faults, conn, devOut>>, FetchInv,
           pc' \notin {"drain", "fetch", "awaitChunk"}, Apart(toCli' \o devOut, toDev'),
           op' = "templates" /\ result' = "ok" /\ pc' \in {"idle", "free", "freeAck"} => OneFetch(parts')
    PROVE  FetchInv'
<1>1. Front' = <<>>
  BY DEF Front
<1>2. Incoming' = toCli' \o devOut
  BY <1>1, NothingTaken
<1>3. QED
  BY <1>2 DEF FetchInv, OneFetch

\* What is left where a receive drops everything, some of it, or cuts a frame.
LEMMA LeftApart ==
    ASSUME TypeInv, FetchInv
    PROVE  /\ Apart(toCli \o devOut, toDev) /\ Apart(<<>> \o devOut, toDev)
           /\ Apart(<<P("tail")>> \o devOut, toDev)
           /\ \A r \in Leftovers(toCli) : Apart(r \o devOut, toDev)
           /\ toCli # <<>> => /\ Apart((<<>> \o Tail(toCli)) \o devOut, toDev)
                              /\ Apart((<<P("tail")>> \o Tail(toCli)) \o devOut, toDev)
<1> DEFINE from(i) == SubSeq(toCli, i, Len(toCli))
<1>1. /\ toCli \in Seq(Piece) /\ devOut \in Seq(Piece) /\ Len(toCli) \in Nat
  BY IncomingType, LenProperties
<1>2. Apart(toCli \o devOut, toDev) /\ Apart(devOut, toDev)
  BY StillComing DEF FetchInv
<1>3. Apart(<<>> \o devOut, toDev)
  <2>1. <<>> \o devOut = devOut
    BY <1>1, ConcatEmptySeq
  <2>2. QED
    BY <1>2, <2>1
<1>4. Apart(<<P("tail")>> \o devOut, toDev)
  BY <1>1, <1>2, ApartTail
<1>5. ASSUME NEW i \in 2..(Len(toCli) + 1)
      PROVE  Apart(from(i) \o devOut, toDev) /\ Apart((<<P("tail")>> \o from(i)) \o devOut, toDev)
  BY <1>1, <1>2, ApartLeft
<1>6. ASSUME NEW r \in Leftovers(toCli) PROVE Apart(r \o devOut, toDev)
  <2>1. r \in {from(i) : i \in 2..(Len(toCli) + 1)}
                \cup {<<P("tail")>> \o from(i) : i \in 3..(Len(toCli) + 1)}
    BY Zenon DEF Leftovers
  <2> HIDE DEF from
  <2>2. \A i \in 3..(Len(toCli) + 1) : i \in 2..(Len(toCli) + 1)
    BY <1>1
  <2>3. QED
    BY <1>5, <2>1, <2>2
<1>7. ASSUME toCli # <<>>
      PROVE  /\ Apart((<<>> \o Tail(toCli)) \o devOut, toDev)
             /\ Apart((<<P("tail")>> \o Tail(toCli)) \o devOut, toDev)
  <2>1. 2 \in 2..(Len(toCli) + 1)
    <3>1. Len(toCli) # 0
      BY <1>1, <1>7, EmptySeq
    <3>2. QED
      BY <1>1, <3>1
  <2>2. Tail(toCli) = from(2) /\ Tail(toCli) \in Seq(Piece)
    BY <1>1, <1>7, TailIsSubSeq, HeadTailProperties
  <2>3. <<>> \o Tail(toCli) = Tail(toCli)
    BY <2>2, ConcatEmptySeq
  <2> HIDE DEF from
  <2>4. QED
    BY <1>5, <2>1, <2>2, <2>3
<1>8. QED
  BY <1>2, <1>3, <1>4, <1>6, <1>7

LEMMA ScanFetch ==
    ASSUME MaxFaults = 0, TypeInv, TypeInv', FetchInv, op # "templates", ScanSteps
    PROVE  FetchInv'
<1>1. /\ pc \in ScanPcs /\ op' = op /\ UNCHANGED <<conn, faults, devOut>>
      /\ pc' \in {"idle", "probe", "await", "push"}
  BY DEF ScanSteps, ProbeRefused, Probe, ProbeSendError, Await, AwaitCut, AwaitQuiet, PushRecv,
         PushQuiet, netVars, ScanPcs, ProbeFails, Present, Absent, Advance, Return
<1>2. conn = "up"
  BY DEF FetchInv
<1>3. CASE Probe
  <2>1. toCli' = toCli /\ toDev' = Append(toDev, ToProbe)
    BY <1>2, <1>3 DEF Probe, SendTo, ToProbe
  <2>2. ToProbe \in Request /\ ToProbe.cmd = "probe"
    <3>1. at \in Places
      BY <1>1, UsersType DEF TypeInv
    <3>2. QED
      BY <3>1, RequestTypes DEF ToProbe
  <2>3. toDev \in Seq(Request) /\ Apart(toCli \o devOut, toDev)
    BY IncomingType, LeftApart
  <2> HIDE DEF ToProbe
  <2>4. Apart(toCli \o devOut, Append(toDev, ToProbe))
    BY <2>2, <2>3, ApartSent
  <2>5. QED
    BY <1>1, <2>1, <2>4, TakesNoMore
<1>4. CASE ~Probe
  <2>1. toDev' = toDev /\ toCli' \in {toCli, <<>>, <<P("tail")>>}
    BY <1>4 DEF ScanSteps, ProbeRefused, ProbeSendError, Await, AwaitCut, AwaitQuiet, PushRecv,
         PushQuiet, netVars
  <2>2. Apart(toCli' \o devOut, toDev')
    BY <2>1, LeftApart
  <2>3. QED
    BY <1>1, <2>2, TakesNoMore
<1>5. QED
  BY <1>3, <1>4

LEMMA TableFetch ==
    ASSUME MaxFaults = 0, TypeInv, TypeInv', FetchInv, op = "templates", TableSteps
    PROVE  FetchInv'
<1>1. UNCHANGED <<conn, faults, devOut, op, callNo>>
  BY DEF TableSteps, WrapSend, WrapSendError, WrapRecv, WrapQuiet, ChunkSend, ChunkSendError,
         ChunkRecv, ChunkCut, ChunkQuiet, FreeSend, FreeSendError, FreeRecv, FreeQuiet, netVars
<1>2. /\ conn = "up" /\ faults = 0 /\ Apart(Incoming, toDev)
      /\ pc \in {"drain", "fetch", "awaitChunk"} => Renewed(Incoming, toDev, callNo)
      /\ pc \in {"idle", "free", "freeAck"} /\ result = "ok" => OneFetch(parts)
  BY DEF FetchInv
<1>3. /\ Front \in Seq(Piece) /\ toCli \in Seq(Piece) /\ devOut \in Seq(Piece) /\ toDev \in Seq(Request)
      /\ got \in Seq(Piece) /\ parts \in Seq(Piece)
      /\ toCli \o devOut \in Seq(Piece) /\ Front \o toCli \in Seq(Piece)
      /\ Incoming = Front \o (toCli \o devOut) /\ Incoming \in Seq(Piece)
  BY IncomingType
<1>4. /\ Apart(devOut, toDev) /\ \A c : Renewed(Incoming, toDev, c) => Renewed(devOut, toDev, c)
  BY <1>2, StillComing
<1>5. CASE WrapSend
  <2>1. /\ pc = "wrap" /\ pc' = "drain" /\ got' = <<>> /\ toCli' = toCli
        /\ toDev' = Append(toDev, ToTable)
    BY <1>2, <1>5 DEF WrapSend, SendTo, ToTable
  <2>2. Front = <<>> /\ Front' = <<>>
    BY <2>1 DEF Front
  <2>3. Incoming' = Incoming
    BY <1>1, <2>1, <2>2 DEF Incoming
  <2>4. ToTable \in Request /\ ToTable.cmd = "wrapped"
    BY RequestTypes DEF ToTable
  <2> HIDE DEF ToTable
  <2>5. Apart(Incoming, Append(toDev, ToTable)) /\ Renewed(Incoming, Append(toDev, ToTable), callNo)
    BY <1>2, <1>3, <2>4, ApartSent
  <2>6. QED
    BY <1>1, <1>2, <2>1, <2>3, <2>5 DEF FetchInv
<1>6. CASE WrapSendError \/ FreeSendError \/ FreeQuiet
  <2>1. /\ pc' = "idle" /\ UNCHANGED <<toDev, toCli, parts>>
        /\ result' = "ok" => pc \in {"free", "freeAck"} /\ result = "ok"
    BY <1>6 DEF WrapSendError, FreeSendError, FreeQuiet, Return, netVars, tabVars
  <2>2. Apart(toCli' \o devOut, toDev')
    BY <2>1, LeftApart
  <2>3. QED
    BY <1>1, <1>2, <2>1, <2>2, TakesNoMore
<1>7. CASE WrapRecv
  <2> DEFINE all == got \o toCli
  <2>1. /\ pc = "drain" /\ toCli' = <<>> /\ got' = all /\ toDev' = toDev
        /\ Announced(all) \/ UNCHANGED <<pc, parts, result>>
    BY <1>7 DEF WrapRecv
  <2>2. Front = got /\ parts = <<>>
    BY <2>1 DEF Front, TypeInv
  <2>3. all \in Seq(Piece) /\ all \o <<>> = all /\ all \o devOut = Incoming
    BY <1>3, <2>2, ConcatEmptySeq DEF Incoming
  <2> HIDE DEF all
  <2>4. CASE UNCHANGED <<pc, parts, result>>
    <3>1. Front' = all
      BY <2>1, <2>4 DEF Front
    <3>2. Incoming' = Incoming
      BY <1>1, <2>1, <2>3, <3>1 DEF Incoming
    <3>3. QED
      BY <1>1, <1>2, <2>1, <2>4, <3>2 DEF FetchInv
  <2>5. CASE pc' = "fetch" /\ UNCHANGED <<parts, result>>
    <3>1. Front' = <<>>
      BY <2>2, <2>5 DEF Front
    <3>2. Incoming' = devOut
      <4>1. Incoming' = <<>> \o devOut
        BY <1>1, <2>1, <3>1, NothingTaken
      <4>2. QED
        BY <1>3, <4>1, ConcatEmptySeq
    <3>3. QED
      BY <1>1, <1>2, <1>4, <2>1, <2>5, <3>2 DEF FetchInv
  <2>6. CASE pc' = "idle" /\ (result' = "ok" => HoldsTable(all) /\ parts' = TableIn(all))
    <3>1. HoldsTable(all) => OneFetch(TableIn(all))
      BY <1>2, <1>3, <2>3, TableFromRun
    <3>2. Apart(toCli' \o devOut, toDev')
      BY <2>1, LeftApart
    <3>3. QED
      BY <1>1, <2>6, <3>1, <3>2, TakesNoMore
  <2>7. QED
    BY <2>1, <2>4, <2>5, <2>6 DEF Announced, Return
<1>8. CASE WrapQuiet
  <2>1. /\ pc = "drain" /\ toCli = <<>> /\ toCli' = <<>> /\ got' = got /\ toDev' = toDev
    BY <1>8 DEF WrapQuiet, MayTimeOut, netVars
  <2>2. Front = got /\ parts = <<>>
    BY <2>1 DEF Front, TypeInv
  <2>3. got \o devOut = Incoming
    <3>1. <<>> \o devOut = devOut
      BY <1>3, ConcatEmptySeq
    <3>2. QED
      BY <1>3, <2>1, <2>2, <3>1
  <2>4. CASE pc' = "fetch" /\ UNCHANGED <<parts, result>>
    <3>1. Front' = <<>>
      BY <2>2, <2>4 DEF Front
    <3>2. Incoming' = devOut
      <4>1. Incoming' = <<>> \o devOut
        BY <1>1, <2>1, <3>1, NothingTaken
      <4>2. QED
        BY <1>3, <4>1, ConcatEmptySeq
    <3>3. QED
      BY <1>1, <1>2, <1>4, <2>1, <2>4, <3>2 DEF FetchInv
  <2>5. CASE pc' \in {"idle", "wrap"}
             /\ (pc' = "idle" /\ result' = "ok" => HoldsTable(got) /\ parts' = TableIn(got))
    <3>1. HoldsTable(got) => OneFetch(TableIn(got))
      BY <1>2, <1>3, <2>3, TableFromRun
    <3>2. Apart(toCli' \o devOut, toDev')
      BY <2>1, LeftApart
    <3>3. QED
      BY <1>1, <2>5, <3>1, <3>2, TakesNoMore
  <2>6. QED
    BY <1>8, <2>4, <2>5 DEF WrapQuiet, Announced, Return
<1>9. CASE ChunkSend
  <2>1. /\ pc = "fetch" /\ pc' = "awaitChunk" /\ UNCHANGED <<toCli, parts>>
        /\ toDev' = Append(toDev, ToPart)
    BY <1>2, <1>9 DEF ChunkSend, SendTo, ToPart, tabVars
  <2>2. Front' = Front
    BY <2>1 DEF Front
  <2>3. Incoming' = Incoming
    BY <1>1, <2>1, <2>2 DEF Incoming
  <2>4. ToPart \in Request /\ ToPart.cmd = "chunk" /\ ToPart.call = callNo
    <3>1. Len(parts) + 1 \in 1..Chunks /\ callNo \in Nat
      <4>1. Len(parts) < Chunks /\ Len(parts) \in Nat /\ callNo \in Nat
        BY <1>3, <2>1, LenProperties DEF TypeInv, TTypeOK
      <4>2. QED
        BY <4>1, CountsAssumption
    <3>2. QED
      BY <3>1, RequestTypes DEF ToPart
  <2> HIDE DEF ToPart
  <2>5. Renewed(Incoming, toDev, callNo)
    BY <1>2, <2>1
  <2>6. Apart(Incoming, Append(toDev, ToPart)) /\ Renewed(Incoming, Append(toDev, ToPart), callNo)
    BY <1>2, <1>3, <2>4, <2>5, ApartSent
  <2>7. QED
    BY <1>1, <1>2, <2>1, <2>3, <2>6 DEF FetchInv
<1>10. CASE ChunkSendError \/ ChunkQuiet \/ ChunkCut
  <2>1. /\ pc' = "free" /\ toDev' = toDev /\ result' = "error"
        /\ toCli' \in {toCli, <<P("tail")>>}
    BY <1>10 DEF ChunkSendError, ChunkQuiet, ChunkCut, ChunkFails, Release, netVars
  <2>2. Apart(toCli' \o devOut, toDev')
    BY <2>1, LeftApart
  <2>3. QED
    BY <1>1, <2>1, <2>2, TakesNoMore
<1>11. CASE ChunkRecv
  <2>0. pc = "awaitChunk" /\ toCli # <<>> /\ toDev' = toDev /\ Front = parts
    BY <1>11 DEF ChunkRecv, Front
  <2>1. CASE Len(toCli) = 1 /\ ChunkFits(toCli[1])
    <3> DEFINE more == parts \o toCli
    <3>1. /\ parts' = Append(parts, toCli[1]) /\ toCli' = <<>>
          /\ \/ pc' = "fetch" /\ result' = result
             \/ pc' = "free"
      BY <1>11, <2>1 DEF ChunkRecv, Release
    <3>2. Append(parts, toCli[1]) = more /\ more \in Seq(Piece) /\ more \o devOut = Incoming
      <4>1. toCli = <<toCli[1]>>
        BY <1>3, <2>1
      <4>2. toCli[1] \in Piece
        <5>1. 1 \in 1..Len(toCli)
          BY <2>1
        <5>2. QED
          BY <1>3, <5>1, ElementOfSeq
      <4>3. Append(parts, toCli[1]) = parts \o <<toCli[1]>>
        BY <1>3, <4>2, AppendIsConcat
      <4>4. more \in Seq(Piece) /\ more \o devOut = Incoming
        BY <1>3, <2>0 DEF Incoming
      <4>5. QED
        BY <4>1, <4>3, <4>4
    <3> HIDE DEF more
    <3>3. parts' = more
      BY <3>1, <3>2
    <3>4. CASE pc' = "fetch" /\ result' = result
      <4>1. Front' = more
        BY <3>3, <3>4 DEF Front
      <4>2. more \o <<>> = more
        BY <3>2, ConcatEmptySeq
      <4>3. Incoming' = Incoming
        BY <1>1, <3>1, <3>2, <4>1, <4>2 DEF Incoming
      <4>4. QED
        BY <1>1, <1>2, <2>0, <3>4, <4>3 DEF FetchInv
    <3>5. CASE pc' = "free"
      <4>1. \A i \in DOMAIN more : more[i].k = "chunk"
        <5>1. more \in Seq(Chunk)
          BY <3>3 DEF TypeInv, TTypeOK
        <5>2. \A i \in DOMAIN more : more[i] \in Chunk
          BY <5>1, LenProperties, ElementOfSeq
        <5>3. QED
          BY <5>2 DEF Chunk
      <4>2. OneFetch(more)
        <5>1. \A i \in DOMAIN more : more[i].k # "announce"
          BY <4>1
        <5>2. Apart(more \o devOut, toDev)
          BY <1>2, <3>2
        <5>3. \A i, j \in DOMAIN more : more[i].k = "chunk" /\ more[j].k = "chunk"
                 => more[i].call = more[j].call
          BY <1>3, <3>2, <5>1, <5>2, RunOfParts
        <5>4. QED
          BY <4>1, <5>3 DEF OneFetch
      <4>3. Apart(toCli' \o devOut, toDev')
        BY <2>0, <3>1, LeftApart
      <4>4. QED
        BY <1>1, <3>3, <3>5, <4>2, <4>3, TakesNoMore
    <3>6. QED
      BY <3>1, <3>4, <3>5
  <2>2. CASE ~(Len(toCli) = 1 /\ ChunkFits(toCli[1]))
    <3>1. toCli' \in Leftovers(toCli) /\ pc' = "free" /\ result' = "error"
      BY <1>11, <2>2 DEF ChunkRecv, ChunkFails, Release
    <3>2. Apart(toCli' \o devOut, toDev')
      BY <2>0, <3>1, LeftApart
    <3>3. QED
      BY <1>1, <3>1, <3>2, TakesNoMore
  <2>3. QED
    BY <2>1, <2>2
<1>12. CASE FreeSend
  <2>1. /\ pc = "free" /\ pc' = "freeAck" /\ UNCHANGED <<toCli, parts, result>>
        /\ toDev' = Append(toDev, ToFree)
    BY <1>2, <1>12 DEF FreeSend, SendTo, ToFree, tabVars
  <2>2. ToFree \in Request /\ ToFree.cmd = "free"
    BY RequestTypes DEF ToFree
  <2> HIDE DEF ToFree
  <2>3. Apart(toCli \o devOut, Append(toDev, ToFree))
    BY <1>3, <2>2, LeftApart, ApartSent
  <2>4. QED
    BY <1>1, <1>2, <2>1, <2>3, TakesNoMore
<1>13. CASE FreeRecv
  <2>1. /\ pc = "freeAck" /\ pc' = "idle" /\ UNCHANGED <<toDev, parts, result>> /\ toCli # <<>>
        /\ toCli' = <<>> \o Tail(toCli) \/ toCli' = <<P("tail")>> \o Tail(toCli)
    BY <1>13 DEF FreeRecv, Return, tabVars
  <2>2. Apart(toCli' \o devOut, toDev')
    BY <2>1, LeftApart
  <2>3. QED
    BY <1>1, <1>2, <2>1, <2>2, TakesNoMore
<1>14. QED
  BY <1>5, <1>6, <1>7, <1>8, <1>9, <1>10, <1>11, <1>12, <1>13 DEF TableSteps

LEMMA FetchStep ==
    ASSUME MaxFaults = 0, TypeInv, TypeInv', FetchInv, [Next]_tvars,
           pc \in ScanPcs => op # "templates", pc \in TablePcs => op = "templates"
    PROVE  FetchInv'
<1>1. CASE UNCHANGED tvars
  <2>1. UNCHANGED <<faults, conn, toDev, devOut, toCli, pc, op, callNo, result, parts, got>>
    BY <1>1 DEF tvars, netVars, cliVars, tabVars
  <2>2. Incoming' = Incoming
    BY <2>1 DEF Incoming, Front
  <2>3. QED
    BY <2>1, <2>2 DEF FetchInv, OneFetch
<1>2. ScanSteps => op # "templates"
  BY DEF ScanSteps, ProbeRefused, Probe, ProbeSendError, Await, AwaitCut, AwaitQuiet, PushRecv,
         PushQuiet, ScanPcs
<1>3. TableSteps => op = "templates"
  BY DEF TableSteps, WrapSend, WrapSendError, WrapRecv, WrapQuiet, ChunkSend, ChunkSendError,
         ChunkRecv, ChunkCut, ChunkQuiet, FreeSend, FreeSendError, FreeRecv, FreeQuiet, TablePcs
<1>4. QED
  BY <1>1, <1>2, <1>3, CallFetch, ScanFetch, TableFetch, OutsideFetch DEF Next

\* A call goes through the steps of its own kind.
CallInv ==
    /\ pc \in ScanPcs => op # "templates"
    /\ pc \in TablePcs => op = "templates"

LEMMA CallStep ==
    ASSUME CallInv, [Next]_tvars
    PROVE  CallInv'
<1>1. CASE UNCHANGED tvars
  BY <1>1 DEF tvars, cliVars, CallInv
<1>2. CASE Calls
  BY <1>2 DEF Calls, StartScan, StartTemplates, GetUsers, Reconnect, NewCall, Return, CallInv, ScanPcs, TablePcs,
              Scans
<1>3. CASE ScanSteps
  <2>1. pc \in ScanPcs /\ op' = op
    BY <1>3 DEF ScanSteps, ProbeRefused, Probe, ProbeSendError, Await, AwaitCut, AwaitQuiet, PushRecv,
         PushQuiet, ScanPcs
  <2>2. pc' \in ScanPcs \cup {"idle"}
    BY <1>3, <2>1 DEF ScanSteps, ProbeRefused, Probe, ProbeSendError, Await, AwaitCut, AwaitQuiet,
         PushRecv, PushQuiet, ScanPcs, ProbeFails, Present, Absent, Advance, Return
  <2>3. QED
    BY <2>1, <2>2 DEF CallInv, ScanPcs, TablePcs
<1>4. CASE TableSteps
  <2>1. pc \in TablePcs /\ op' = op
    BY <1>4 DEF TableSteps, WrapSend, WrapSendError, WrapRecv, WrapQuiet, ChunkSend, ChunkSendError,
         ChunkRecv, ChunkCut, ChunkQuiet, FreeSend, FreeSendError, FreeRecv, FreeQuiet, TablePcs
  <2>2. pc' \in TablePcs \cup {"idle"}
    BY <1>4, <2>1 DEF TableSteps, WrapSend, WrapSendError, WrapRecv, WrapQuiet, ChunkSend,
         ChunkSendError, ChunkRecv, ChunkCut, ChunkQuiet, FreeSend, FreeSendError, FreeRecv, FreeQuiet,
         TablePcs, Announced, ChunkFails, Release, Return
  <2>3. QED
    BY <2>1, <2>2 DEF CallInv, ScanPcs, TablePcs
<1>5. CASE Outside
  BY <1>5 DEF Outside, Serve, ServeMute, Refuse, Break, Deliver, TakeRequest, cliVars, CallInv
<1>6. QED
  BY <1>1, <1>2, <1>3, <1>4, <1>5 DEF Next

\* The parts of a table that is returned come from one and the same fetch: when no
\* answer is slower than its timeout, whatever is lost or broken, and when nothing
\* is lost, refused or broken, however late the answers are.
THEOREM TablesAreOfOneFetch ==
    ASSUME Timely = TRUE \/ MaxFaults = 0
    PROVE  Spec => []TableIsOfOneFetch
<1>1. CASE Timely = TRUE
  <2>1. TurnInv => TableIsOfOneFetch
    BY DEF TurnInv, InOrder, TableIsOfOneFetch, Done, Part
  <2>2. QED
    BY <1>1, <2>1, InitTurn, TurnStep, PTL DEF Spec
<1>2. CASE MaxFaults = 0
  <2>1. Init => FetchInv /\ CallInv
    <3>1. SUFFICES ASSUME Init PROVE FetchInv /\ CallInv
      OBVIOUS
    <3>2. Front = <<>>
      BY <3>1 DEF Init, Front
    <3>3. Incoming = <<>>
      <4>1. <<>> \o <<>> = <<>>
        OBVIOUS
      <4>2. QED
        BY <3>1, <3>2, <4>1 DEF Init, Incoming
    <3>4. Apart(<<>>, <<>>)
      BY DEF Apart
    <3>5. QED
      BY <3>1, <3>3, <3>4 DEF Init, FetchInv, CallInv, ScanPcs, TablePcs
  <2>2. FetchInv => TableIsOfOneFetch
    BY DEF FetchInv, OneFetch, TableIsOfOneFetch, Done
  <2>3. ASSUME TypeInv, TypeInv', FetchInv, CallInv, [Next]_tvars PROVE FetchInv'
    BY <1>2, <2>3, FetchStep DEF CallInv
  <2>4. QED
    BY <2>1, <2>2, <2>3, CallStep, InitTypes, TypeStep, PTL DEF Spec
<1>3. QED
  BY <1>1, <1>2
=============================================================================

