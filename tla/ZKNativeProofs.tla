---------------------------- MODULE ZKNativeProofs ----------------------------
(***************************************************************************)
(* Proofs about ZKNative: for tables, chunks and attempts of any number,   *)
(* its types, that a list is one state of the terminal's table, and that   *)
(* calls without a fault leave nothing behind.                             *)
(*                                                                         *)
(* One request is under way at a time, so the invariant says for each      *)
(* program counter which request that is and what its answer looks like.   *)
(***************************************************************************)
EXTENDS ZKNative, SequenceTheorems, TLAPS

Data(recs, more) == [k |-> "data", part |-> recs, more |-> more]
Rest(recs)       == [k |-> "rest", part |-> recs, more |-> FALSE]
Sizes(c)         == [k |-> "sizes", part |-> c, more |-> FALSE]
Announce(n)      == [k |-> "announce", part |-> n, more |-> FALSE]

TablePcs == {"table", "rest", "chunk", "chunkRest", "free"}
ChunkEnd == start + ChunkSize(start, total)

\* The call and its table.
Call ==
    /\ op = "none" => pc = "idle"
    /\ op \in {"users", "templates"} => tab = op
    /\ op = "log" => tab \in {"users", "log"}
    /\ pc \in TablePcs \cup {"raw"} => op \in Kinds
    /\ pc = "probe" => op = "log"
    /\ pc \in SizePcs \cup {"raw"} /\ op = "log" => tab = "users"
    /\ pc = "quiet" => op = "sizes"
    /\ op \in Kinds => lo <= mem[op]

\* A table of n records, if it is the one the call is about, is one that the
\* terminal held during the call.
Held(n) == n \in 0..mem[tab] /\ (tab = op => lo <= n)
Counted(c) == c \in [Kinds -> 0..MaxRecs] /\ (op \in Kinds => c[op] \in lo..mem[op])

\* The request under way is the one whose answer is awaited.
Asking ==
    asked # NoReq =>
        /\ link = "up" /\ wire = <<>>
        /\ \/ pc \in SizePcs /\ asked = Request("sizes", "none", 0, 0)
           \/ pc = "table" /\ asked = Request("table", tab, 0, 0)
           \/ pc = "chunk" /\ asked = Request("chunk", tab, start, ChunkSize(start, total))
           \/ pc = "free" /\ asked = Request("free", tab, 0, 0)

\* The records a+1 .. b in one piece, in two, or cut.
BulkLine(a, b) ==
    \/ wire = <<Data(Upto(a, b), FALSE)>>
    \/ \E m \in a..(b - 1) :
         \/ wire = <<Data(Upto(a, m), TRUE), Rest(Upto(m, b))>>
         \/ trouble # "none" /\ wire = <<Data(Upto(a, m), TRUE)>>
BadLine ==
    \/ wire = Short("refused") /\ trouble # "none"
    \/ wire \in {Short("ok"), Short("bare")} /\ trouble = "curt"

\* What has arrived is that answer.
Arriving ==
    wire # <<>> =>
        \/ /\ pc \in SizePcs \cup {"table", "chunk", "free"} /\ BadLine
        \/ /\ pc \in SizePcs
           /\ \E c \in [Kinds -> 0..MaxRecs] : Counted(c) /\ wire = <<Sizes(c)>>
        \/ /\ pc = "table"
           /\ \E n \in 0..MaxRecs : Held(n) /\ (BulkLine(0, n) \/ wire = <<Announce(n)>>)
        \/ pc = "rest"
        \/ pc = "chunk" /\ BulkLine(start, ChunkEnd)
        \/ pc = "chunkRest"
        \/ pc = "free" /\ wire = Short("ok")

\* Without trouble an answer is due.
Due ==
    /\ trouble = "none" => link = "up"
    /\ trouble = "none" /\ Awaiting => asked # NoReq \/ wire # <<>>

\* What has been read: the head of a piece, the chunks up to this one, or all.
Reading ==
    /\ pc \in TablePcs /\ trouble # "curt" => Counted(counts)
    /\ pc = "rest" =>
         \E n \in 0..MaxRecs : \E m \in 0..(n - 1) :
            /\ Held(n) /\ data = Upto(0, m)
            /\ wire \in {<<>>, <<Rest(Upto(m, n))>>}
    /\ pc \in {"chunk", "chunkRest"} => Held(total) /\ start < total
    /\ pc = "chunk" /\ trouble # "curt" => data = Upto(0, start)
    /\ pc = "chunkRest" =>
         \E m \in start..(ChunkEnd - 1) :
            /\ trouble # "curt" => data = Upto(0, m)
            /\ wire \in {<<>>, <<Rest(Upto(m, ChunkEnd))>>}
    /\ pc = "free" => Held(total)
    /\ pc = "free" /\ trouble # "curt" => data = Upto(0, total)

\* As long as nothing failed.
Faultless ==
    faults = 0 =>
        /\ trouble = "none" /\ result.k # "error"
        /\ \/ buffer = NoBuffer
           \/ pc = "table" /\ wire # <<>> /\ wire[1].k = "announce"
           \/ pc \in {"chunk", "chunkRest"}
           \/ pc = "free" /\ wire = <<>>
        /\ saved = configured
        /\ pc \in {"idle", "raw"} \/ op # "log" => wl10 = configured

\* A list that was returned.
Returned ==
    pc = "idle" /\ result.k = "list" => op \in Kinds /\ WholeTable

\* The types, with those that NTypeOK leaves open.
NType ==
    /\ NTypeOK
    /\ asked.tab \in Kinds \cup {"none"} /\ asked.from + asked.size \in 0..MaxRecs
    /\ faults \in Nat

NInv == NType /\ Call /\ Asking /\ Arriving /\ Due /\ Reading /\ Faultless /\ Returned

-----------------------------------------------------------------------------
(* Runs of records.                                                        *)

LEMMA FunctionIsSeq ==
    ASSUME NEW S, NEW n \in Nat, NEW s \in [1..n -> S]
    PROVE  s \in Seq(S)
OBVIOUS

LEMMA UptoType ==
    ASSUME NEW a \in Nat, NEW b \in Nat, a <= b
    PROVE  /\ Upto(a, b) \in Seq(0..b) /\ Upto(a, b) \in Seq(Nat)
           /\ Len(Upto(a, b)) = b - a
           /\ \A i \in 1..(b - a) : Upto(a, b)[i] = a + i
<1>1. \A i \in 1..(b - a) : a + i \in 0..b
  OBVIOUS
<1>2. b - a \in Nat
  OBVIOUS
<1>3. Upto(a, b) \in [1..(b - a) -> 0..b]
  BY <1>1 DEF Upto
<1>4. Upto(a, b) \in Seq(0..b)
  BY <1>2, <1>3
<1>5. Upto(a, b) \in [1..(b - a) -> Nat]
  BY <1>3
<1>6. Upto(a, b) \in Seq(Nat)
  BY <1>2, <1>5
<1>7. QED
  BY <1>2, <1>3, <1>4, <1>6 DEF Upto

LEMMA UptoRecords ==
    ASSUME NEW a \in Nat, NEW b \in 0..MaxRecs, a <= b
    PROVE  Upto(a, b) \in Records
<1>1. b \in Nat /\ MaxRecs \in Nat /\ b <= MaxRecs
  BY NativeAssumption
<1>2. b - a \in Nat /\ \A i \in 1..(b - a) : a + i \in 0..MaxRecs
  BY <1>1
<1>3. Upto(a, b) \in [1..(b - a) -> 0..MaxRecs]
  BY <1>2 DEF Upto
<1>4. Upto(a, b) \in Seq(0..MaxRecs)
  BY <1>2, <1>3, FunctionIsSeq
<1>5. QED
  BY <1>4 DEF Records

LEMMA UptoJoin ==
    ASSUME NEW a \in Nat, NEW m \in Nat, NEW b \in Nat, a <= m, m <= b
    PROVE  Upto(a, m) \o Upto(m, b) = Upto(a, b)
<1> DEFINE s == Upto(a, m)
           t == Upto(m, b)
           r == Upto(a, b)
<1>0. a <= b
  OBVIOUS
<1>1. /\ s \in Seq(Nat) /\ Len(s) = m - a
      /\ t \in Seq(Nat) /\ Len(t) = b - m
      /\ r \in Seq(Nat) /\ Len(r) = b - a
  BY <1>0, UptoType
<1>2. /\ \A i \in 1..(m - a) : s[i] = a + i
      /\ \A i \in 1..(b - m) : t[i] = m + i
      /\ \A i \in 1..(b - a) : r[i] = a + i
  BY <1>0, UptoType
<1> HIDE DEF s, t, r
<1>3. Len(s \o t) = Len(r) /\ s \o t \in Seq(Nat)
  <2>1. s \o t \in Seq(Nat) /\ Len(s \o t) = Len(s) + Len(t)
    BY <1>1, ConcatProperties
  <2>2. (m - a) + (b - m) = b - a
    OBVIOUS
  <2>3. QED
    BY <1>1, <2>1, <2>2
<1>4. ASSUME NEW i \in 1..Len(r) PROVE (s \o t)[i] = r[i]
  <2>1. /\ i \in 1..(Len(s) + Len(t))
        /\ Len(s) = m - a /\ i \in 1..(b - a)
    BY <1>1
  <2>2. (s \o t)[i] = IF i <= Len(s) THEN s[i] ELSE t[i - Len(s)]
    BY <1>1, <2>1, ConcatProperties
  <2>3. r[i] = a + i
    BY <1>2, <2>1
  <2>4. CASE i <= m - a
    <3>1. s[i] = a + i
      BY <1>2, <2>1, <2>4
    <3>2. QED
      BY <2>1, <2>2, <2>3, <2>4, <3>1
  <2>5. CASE ~(i <= m - a)
    <3>1. i - (m - a) \in 1..(b - m) /\ m + (i - (m - a)) = a + i
      BY <2>1, <2>5
    <3>2. t[i - (m - a)] = a + i
      BY <1>2, <3>1
    <3>3. QED
      BY <2>1, <2>2, <2>3, <2>5, <3>2
  <2>6. QED
    BY <2>4, <2>5
<1>5. s \o t = r
  BY <1>1, <1>3, <1>4, SeqEqual
<1>6. QED
  BY <1>5 DEF s, t, r

LEMMA UptoNone ==
    ASSUME NEW a \in Nat, NEW b \in Nat
    PROVE  /\ Upto(a, a) = <<>>
           /\ a < b => Upto(a, b) # <<>>
<1>1. Upto(a, a) = <<>>
  BY UptoType, EmptySeq
<1>2. ASSUME a < b PROVE Upto(a, b) # <<>>
  <2>1. Len(Upto(a, b)) = b - a
    BY <1>2, UptoType
  <2>2. QED
    BY <1>2, <2>1
<1>3. QED
  BY <1>1, <1>2

LEMMA UptoCut ==
    ASSUME NEW a \in Nat, NEW b \in Nat, NEW i \in 0..(b - a), a <= b
    PROVE  /\ SubSeq(Upto(a, b), 1, i) = Upto(a, a + i)
           /\ SubSeq(Upto(a, b), i + 1, b - a) = Upto(a + i, b)
<1> DEFINE s == Upto(a, a + i)
           t == Upto(a + i, b)
           r == Upto(a, b)
<1>0. /\ a + i \in Nat /\ a <= a + i /\ a + i <= b
      /\ (a + i) - a = i
  OBVIOUS
<1>1. /\ s \in Seq(Nat) /\ Len(s) = i
      /\ t \in Seq(Nat) /\ Len(t) = b - (a + i)
      /\ r \in Seq(Nat) /\ Len(r) = b - a
  BY <1>0, UptoType
<1>2. /\ \A j \in 1..i : s[j] = a + j
      /\ \A j \in 1..(b - (a + i)) : t[j] = (a + i) + j
      /\ \A j \in 1..(b - a) : r[j] = a + j
  BY <1>0, UptoType
<1> HIDE DEF s, t, r
<1>3. SubSeq(r, 1, i) = s
  <2> DEFINE c == SubSeq(r, 1, i)
  <2>1. \A k \in 1..i : r[k] \in Nat
    BY <1>2
  <2>2. /\ c \in Seq(Nat)
        /\ Len(c) = IF 1 <= i THEN i - 1 + 1 ELSE 0
        /\ \A j \in 1..(i - 1 + 1) : c[j] = r[1 + j - 1]
    BY <2>1, SubSeqProperties
  <2> HIDE DEF c
  <2>3. Len(c) = i /\ \A j \in 1..i : c[j] = s[j]
    BY <1>2, <2>2
  <2>4. c = s
    BY <1>1, <2>2, <2>3, SeqEqual
  <2>5. QED
    BY <2>4 DEF c
<1>4. SubSeq(r, i + 1, b - a) = t
  <2> DEFINE c == SubSeq(r, i + 1, b - a)
  <2>1. \A k \in (i + 1)..(b - a) : r[k] \in Nat
    BY <1>2
  <2>2. /\ c \in Seq(Nat)
        /\ Len(c) = IF i + 1 <= b - a THEN (b - a) - (i + 1) + 1 ELSE 0
        /\ \A j \in 1..((b - a) - (i + 1) + 1) : c[j] = r[(i + 1) + j - 1]
    BY <2>1, SubSeqProperties
  <2> HIDE DEF c
  <2>3. Len(c) = b - (a + i)
    BY <1>0, <2>2
  <2>4. ASSUME NEW j \in 1..(b - (a + i)) PROVE c[j] = t[j]
    <3>1. (i + 1) + j - 1 = i + j /\ i + j \in 1..(b - a)
      BY <1>0
    <3>2. c[j] = r[i + j]
      BY <2>2, <3>1
    <3>3. r[i + j] = a + (i + j) /\ t[j] = (a + i) + j
      BY <1>2, <3>1
    <3>4. QED
      BY <3>2, <3>3
  <2>5. c = t
    BY <1>1, <2>2, <2>3, <2>4, SeqEqual
  <2>6. QED
    BY <2>5 DEF c
<1>5. QED
  BY <1>3, <1>4 DEF s, t, r

\* A bulk answer is the records in one piece or in two.
LEMMA BulkPieces ==
    ASSUME NEW a \in Nat, NEW b \in Nat, a <= b, NEW w \in Bulk(Upto(a, b))
    PROVE  \/ w = <<Data(Upto(a, b), FALSE)>>
           \/ \E m \in a..(b - 1) : w = <<Data(Upto(a, m), TRUE), Rest(Upto(m, b))>>
<1>1. Len(Upto(a, b)) = b - a
  BY UptoType
<1>2. CASE w = <<Data(Upto(a, b), FALSE)>>
  BY <1>2
<1>3. CASE \E i \in 0..(Len(Upto(a, b)) - 1) :
             w = <<Data(SubSeq(Upto(a, b), 1, i), TRUE),
                   Rest(SubSeq(Upto(a, b), i + 1, Len(Upto(a, b))))>>
  <2>1. PICK i \in 0..(b - a - 1) :
             w = <<Data(SubSeq(Upto(a, b), 1, i), TRUE),
                   Rest(SubSeq(Upto(a, b), i + 1, b - a))>>
    BY <1>1, <1>3
  <2>2. a + i \in a..(b - 1)
    OBVIOUS
  <2>3. w = <<Data(Upto(a, a + i), TRUE), Rest(Upto(a + i, b))>>
    <3>1. i \in 0..(b - a)
      OBVIOUS
    <3>2. /\ SubSeq(Upto(a, b), 1, i) = Upto(a, a + i)
          /\ SubSeq(Upto(a, b), i + 1, b - a) = Upto(a + i, b)
      BY <3>1, UptoCut
    <3>3. QED
      BY <2>1, <3>2
  <2>4. QED
    BY <2>2, <2>3
<1>4. QED
  BY <1>2, <1>3 DEF Bulk, Data, Rest
-----------------------------------------------------------------------------
(* How calls go on and end.                                                *)

\* What no step of the client's after an answer changes.
Frame == UNCHANGED <<terminal, link, saved, configured, wide, op, lo, trouble, bounds>>

\* What WholeTable says of a list.
ListOf(recs) ==
    trouble # "curt" =>
        \/ recs = <<>> /\ (lo = 0 \/ trouble # "none")
        \/ \E n \in lo..mem[op] : recs = Upto(0, n)
        \/ ~wide /\ mem[op] # lo

\* The types, for a step of the client's.
Places == SizePcs \cup {"idle", "raw", "table", "rest", "chunk", "chunkRest", "free"}

LEMMA TypesKeep ==
    ASSUME NType, Frame, wl10' \in BOOLEAN, counts' \in [Kinds -> 0..MaxRecs],
           Len(wire') <= 2, pc' \in Places, tab' \in Kinds \cup {"sizes", "none"},
           total' \in 0..MaxRecs, start' \in 0..MaxRecs, tries' \in 1..Tries,
           data' \in Records,
           result'.k \in {"none", "ok", "list", "error"}, result'.data \in Records,
           asked'.cmd \in {"none", "sizes", "table", "chunk", "free"},
           asked'.tab \in Kinds \cup {"none"},
           asked'.from \in 0..MaxRecs, asked'.size \in 0..MaxChunk,
           asked'.from + asked'.size \in 0..MaxRecs
    PROVE  NType'
<1> USE DEF NType, NTypeOK, Frame, terminal, bounds
<1>1. /\ mem' \in [Kinds -> 0..MaxRecs]
      /\ buffer'.tab \in Kinds \cup {"none"} /\ buffer'.n \in 0..MaxRecs
      /\ link' \in {"up", "reset", "closed"}
  OBVIOUS
<1>2. saved' \in BOOLEAN /\ configured' \in BOOLEAN /\ wide' \in BOOLEAN
  OBVIOUS
<1>3. /\ op' \in NativeOps \cup {"none"}
      /\ lo' \in 0..MaxRecs /\ trouble' \in {"none", "lost", "curt"}
      /\ faults' \in Nat
  OBVIOUS
<1>4. data' \in Records' /\ result'.data \in Records'
  BY DEF Records
<1>5. QED
  BY <1>1, <1>2, <1>3, <1>4 DEF Places

\* A call returns.
LEMMA ReturnKeeps ==
    ASSUME NInv, Frame, op # "none", NEW k \in {"ok", "list", "error"},
           NEW recs \in Records, Return(k, recs), wire' = <<>>,
           UNCHANGED <<tab, start, tries, data, total>>,
           counts' \in [Kinds -> 0..MaxRecs], wl10' \in BOOLEAN,
           k = "list" => op \in Kinds /\ ListOf(recs),
           faults = 0 => k # "error" /\ buffer = NoBuffer /\ wl10' = configured
    PROVE  NInv'
<1> USE DEF NInv, Frame, terminal, bounds, Return
<1>1. NType'
  <2>1. /\ asked'.cmd = "none" /\ asked'.tab = "none"
        /\ asked'.from = 0 /\ asked'.size = 0
    BY DEF NoReq
  <2>2. 0 \in 0..MaxRecs /\ 0 \in 0..MaxChunk /\ 0 + 0 \in 0..MaxRecs
    BY NativeAssumption
  <2>3. /\ tab' \in Kinds \cup {"sizes", "none"} /\ data' \in Records
        /\ total' \in 0..MaxRecs /\ start' \in 0..MaxRecs /\ tries' \in 1..Tries
    BY DEF NType, NTypeOK
  <2>4. Len(wire') <= 2 /\ pc' \in Places
    BY DEF Places
  <2>5. result'.k \in {"none", "ok", "list", "error"} /\ result'.data \in Records
    OBVIOUS
  <2>6. QED
    BY <2>1, <2>2, <2>3, <2>4, <2>5, TypesKeep
<1>2. Call'
  BY DEF Call, TablePcs, SizePcs, Kinds
<1>3. Asking' /\ Arriving' /\ Reading'
  BY DEF Asking, Arriving, Reading, TablePcs
<1>4. Due'
  BY DEF Due, Awaiting
<1>5. Faultless'
  BY DEF Faultless
<1>6. Returned'
  BY DEF Returned, WholeTable, ListOf
<1>7. QED
  BY <1>1, <1>2, <1>3, <1>4, <1>5, <1>6

\* A table is asked for.
LEMMA OpenKeeps ==
    ASSUME NInv, Frame, op \in Kinds, NEW t \in Kinds, t = op \/ (op = "log" /\ t = "users"),
           OpenTable(t), wire' = <<>>, UNCHANGED <<wl10, result>>,
           counts' \in [Kinds -> 0..MaxRecs],
           trouble # "curt" => Counted(counts'),
           faults = 0 => buffer = NoBuffer, pc # "idle"
    PROVE  NInv'
<1> USE DEF NInv, Frame, terminal, bounds, OpenTable, Ask
<1>1. asked' \in {NoReq, Request("table", t, 0, 0)}
  OBVIOUS
<1>2. NType'
  <2>1. /\ asked'.cmd \in {"none", "table"} /\ asked'.from = 0 /\ asked'.size = 0
        /\ asked'.tab \in Kinds \cup {"none"}
    BY <1>1 DEF NoReq, Request
  <2>2. 0 \in 0..MaxRecs /\ 0 \in 0..MaxChunk /\ 0 + 0 \in 0..MaxRecs
    BY NativeAssumption
  <2>3. /\ tab' \in Kinds \cup {"sizes", "none"} /\ data' \in Records
        /\ total' \in 0..MaxRecs /\ start' \in 0..MaxRecs /\ tries' \in 1..Tries
    BY DEF NType, NTypeOK, Records
  <2>4. Len(wire') <= 2 /\ pc' \in Places
    BY DEF Places
  <2>5. /\ result'.k \in {"none", "ok", "list", "error"} /\ result'.data \in Records
        /\ wl10' \in BOOLEAN
    BY DEF NType, NTypeOK
  <2>6. QED
    BY <2>1, <2>2, <2>3, <2>4, <2>5, TypesKeep
<1>3. Call'
  BY DEF Call, TablePcs, SizePcs, Kinds
<1>4. Asking' /\ Arriving'
  BY <1>1 DEF Asking, Arriving
<1>5. Reading'
  BY DEF Reading, Counted, TablePcs
<1>6. Due'
  BY DEF Due, NoReq, Request
<1>7. Faultless'
  BY DEF Faultless
<1>8. Returned'
  BY DEF Returned
<1>9. QED
  BY <1>2, <1>3, <1>4, <1>5, <1>6, <1>7, <1>8

\* The sizes are asked for again.
LEMMA SizesAgainKeeps ==
    ASSUME NInv, Frame, pc \in {"quiet", "probe"}, Ask("sizes", Request("sizes", "none", 0, 0)),
           wire' = <<>>, UNCHANGED <<wl10, tab, start, tries, data, total, result>>,
           counts' \in [Kinds -> 0..MaxRecs],
           faults = 0 => buffer = NoBuffer
    PROVE  NInv'
<1> USE DEF NInv, Frame, terminal, bounds, Ask
<1>1. asked' \in {NoReq, Request("sizes", "none", 0, 0)}
  OBVIOUS
<1>2. NType'
  <2>1. /\ asked'.cmd \in {"none", "sizes"} /\ asked'.from = 0 /\ asked'.size = 0
        /\ asked'.tab = "none"
    BY <1>1 DEF NoReq, Request
  <2>2. 0 \in 0..MaxRecs /\ 0 \in 0..MaxChunk /\ 0 + 0 \in 0..MaxRecs
    BY NativeAssumption
  <2>3. /\ tab' \in Kinds \cup {"sizes", "none"} /\ data' \in Records
        /\ total' \in 0..MaxRecs /\ start' \in 0..MaxRecs /\ tries' \in 1..Tries
    BY DEF NType, NTypeOK
  <2>4. Len(wire') <= 2 /\ pc' \in Places
    BY DEF Places, SizePcs
  <2>5. /\ result'.k \in {"none", "ok", "list", "error"} /\ result'.data \in Records
        /\ wl10' \in BOOLEAN
    BY DEF NType, NTypeOK
  <2>6. QED
    BY <2>1, <2>2, <2>3, <2>4, <2>5, TypesKeep
<1>3. Call'
  BY DEF Call, TablePcs, SizePcs, Kinds
<1>4. Asking' /\ Arriving'
  BY <1>1 DEF Asking, Arriving, SizePcs
<1>5. Reading'
  BY DEF Reading, TablePcs
<1>6. Due'
  BY DEF Due, NoReq, Request
<1>7. Faultless'
  BY DEF Faultless
<1>8. Returned'
  BY DEF Returned
<1>9. QED
  BY <1>2, <1>3, <1>4, <1>5, <1>6, <1>7, <1>8

\* The next chunk is asked for, or this one again.
LEMMA ChunkKeeps ==
    ASSUME NInv, Frame, op \in Kinds, tab \in Kinds, pc # "idle",
           NEW size \in Nat, NEW at \in 0..(size - 1), Held(size), AskChunk(at, size),
           start' = at, total' = size, tries' \in 1..Tries, data' \in Records,
           trouble # "curt" => data' = Upto(0, at) /\ Counted(counts),
           wire' = <<>>, UNCHANGED <<wl10, tab, counts, result>>
    PROVE  NInv'
<1> USE DEF NInv, Frame, terminal, bounds, AskChunk, Ask
<1> DEFINE n == ChunkSize(at, size)
<1>1. n \in 1..MaxChunk /\ at + n <= size
  BY NativeAssumption DEF ChunkSize
<1> HIDE DEF n
<1>2. asked' \in {NoReq, Request("chunk", tab, at, n)}
  BY DEF n
<1>3. size \in 0..MaxRecs
  BY NativeAssumption DEF Held, NType, NTypeOK
<1>4. NType'
  <2>1. /\ asked'.cmd \in {"none", "chunk"}
        /\ asked'.from \in {0, at} /\ asked'.size \in 0..MaxChunk
        /\ asked'.tab \in Kinds \cup {"none"}
        /\ asked'.from + asked'.size \in 0..MaxRecs
    BY <1>1, <1>2, <1>3, NativeAssumption DEF NoReq, Request
  <2>2. /\ asked'.from \in 0..MaxRecs
        /\ tab' \in Kinds \cup {"sizes", "none"}
        /\ total' \in 0..MaxRecs /\ start' \in 0..MaxRecs
    BY <1>3, <2>1, NativeAssumption
  <2>3. Len(wire') <= 2 /\ pc' \in Places
    BY DEF Places
  <2>4. /\ result'.k \in {"none", "ok", "list", "error"} /\ result'.data \in Records
        /\ wl10' \in BOOLEAN /\ counts' \in [Kinds -> 0..MaxRecs]
    BY DEF NType, NTypeOK
  <2>5. QED
    BY <2>1, <2>2, <2>3, <2>4, TypesKeep
<1>5. Call'
  BY DEF Call, TablePcs, SizePcs, Kinds
<1>6. Asking' /\ Arriving'
  <2>1. ChunkSize(start', total') = n
    BY DEF n
  <2>2. QED
    BY <1>2, <2>1 DEF Asking, Arriving, ChunkSize
<1>7. Reading'
  <2>1. Held(total)' /\ start' < total'
    BY DEF Held
  <2>2. pc' = "chunk"
    OBVIOUS
  <2>3. trouble' # "curt" => Counted(counts)' /\ data' = Upto(0, start)'
    BY DEF Counted, Upto
  <2>4. QED
    BY <2>1, <2>2, <2>3 DEF Reading, TablePcs
<1>8. Due'
  BY DEF Due, NoReq, Request
<1>9. Faultless'
  BY DEF Faultless
<1>10. Returned'
  BY DEF Returned
<1>11. QED
  BY <1>4, <1>5, <1>6, <1>7, <1>8, <1>9, <1>10

\* The buffer is to be released.
LEMMA ReleaseKeeps ==
    ASSUME NInv, Frame, op \in Kinds, tab \in Kinds, pc # "idle",
           NEW size \in Nat, Held(size), Ask("free", Request("free", tab, 0, 0)),
           start' = size, total' = size, tries' \in 1..Tries, data' \in Records,
           trouble # "curt" => data' = Upto(0, size) /\ Counted(counts),
           wire' = <<>>, UNCHANGED <<wl10, tab, counts, result>>
    PROVE  NInv'
<1> USE DEF NInv, Frame, terminal, bounds, Ask
<1>1. asked' \in {NoReq, Request("free", tab, 0, 0)}
  OBVIOUS
<1>2. size \in 0..MaxRecs
  BY NativeAssumption DEF Held, NType, NTypeOK
<1>3. NType'
  <2>1. /\ asked'.cmd \in {"none", "free"} /\ asked'.from = 0 /\ asked'.size = 0
        /\ asked'.tab \in Kinds \cup {"none"}
    BY <1>1 DEF NoReq, Request
  <2>2. 0 \in 0..MaxRecs /\ 0 \in 0..MaxChunk /\ 0 + 0 \in 0..MaxRecs
    BY NativeAssumption
  <2>3. /\ tab' \in Kinds \cup {"sizes", "none"}
        /\ total' \in 0..MaxRecs /\ start' \in 0..MaxRecs
    BY <1>2
  <2>4. Len(wire') <= 2 /\ pc' \in Places
    BY DEF Places
  <2>5. /\ result'.k \in {"none", "ok", "list", "error"} /\ result'.data \in Records
        /\ wl10' \in BOOLEAN /\ counts' \in [Kinds -> 0..MaxRecs]
    BY DEF NType, NTypeOK
  <2>6. QED
    BY <2>1, <2>2, <2>3, <2>4, <2>5, TypesKeep
<1>4. Call'
  BY DEF Call, TablePcs, SizePcs, Kinds
<1>5. Asking' /\ Arriving'
  BY <1>1 DEF Asking, Arriving
<1>6. Reading'
  <2>1. Held(total)' /\ pc' = "free"
    BY DEF Held
  <2>2. trouble' # "curt" => Counted(counts)' /\ data' = Upto(0, total)'
    BY DEF Counted, Upto
  <2>3. QED
    BY <2>1, <2>2 DEF Reading, TablePcs
<1>7. Due'
  BY DEF Due, NoReq, Request
<1>8. Faultless'
  BY DEF Faultless
<1>9. Returned'
  BY DEF Returned
<1>10. QED
  BY <1>3, <1>4, <1>5, <1>6, <1>7, <1>8, <1>9
\* A read of a table ends; records that came short are not the caller's list.
LEMMA TableReadKeeps ==
    ASSUME NInv, Frame, NEW recs \in Records, NEW bare \in BOOLEAN, TableRead(recs, bare),
           pc \in TablePcs, wire' = <<>>, counts' = counts,
           trouble # "curt" => \E n \in 0..MaxRecs : Held(n) /\ recs = Upto(0, n),
           bare = TRUE => trouble = "curt",
           faults = 0 => buffer = NoBuffer
    PROVE  NInv'
<1>1. op \in Kinds /\ op # "none" /\ pc # "idle"
  BY DEF NInv, Call, TablePcs, Kinds
<1>2. counts' \in [Kinds -> 0..MaxRecs]
  BY DEF NInv, NType, NTypeOK
<1>3. trouble # "curt" => Counted(counts')
  BY DEF NInv, Reading
<1>4. CASE op = "log" /\ tab = "users" /\ OpenTable("log") /\ UNCHANGED <<wl10, result>>
  <2>1. "log" \in Kinds
    BY DEF Kinds
  <2>2. QED
    BY <1>1, <1>2, <1>3, <1>4, <2>1, OpenKeeps
<1>5. CASE /\ tab = op /\ Return("list", Parsed(recs))
           /\ IF op = "log" /\ ~bare THEN Restore ELSE UNCHANGED wl10
           /\ UNCHANGED <<tab, start, tries, data, total>>
  <2>1. Parsed(recs) = recs \/ (Parsed(recs) = Misread /\ wide = FALSE /\ Len(recs) # counts[tab])
    <3>1. wide \in BOOLEAN
      BY DEF NInv, NType, NTypeOK
    <3>2. QED
      BY <3>1 DEF Parsed
  <2>2. Parsed(recs) \in Records
    <3>1. 0 \in 0..MaxRecs
      BY NativeAssumption
    <3>2. Misread \in Records
      BY <3>1 DEF Misread, Records
    <3>3. QED
      BY <2>1, <3>2
  <2>3. ListOf(Parsed(recs))
    <3>1. SUFFICES ASSUME trouble # "curt"
                   PROVE  \/ \E n \in lo..mem[op] : Parsed(recs) = Upto(0, n)
                          \/ wide = FALSE /\ mem[op] # lo
      BY DEF ListOf
    <3>2. PICK n \in 0..MaxRecs : Held(n) /\ recs = Upto(0, n)
      BY <3>1
    <3>3. /\ mem[op] \in 0..MaxRecs /\ lo \in 0..MaxRecs
          /\ counts[op] \in lo..mem[op] /\ n \in lo..mem[op]
      BY <1>1, <1>3, <1>5, <3>1, <3>2 DEF NInv, NType, NTypeOK, Held, Counted
    <3>4. Len(recs) = n
      BY <3>2, UptoType
    <3>5. CASE Parsed(recs) = recs
      BY <3>2, <3>3, <3>5
    <3>6. CASE wide = FALSE /\ Len(recs) # counts[tab]
      BY <1>5, <3>3, <3>4, <3>6
    <3>7. QED
      BY <2>1, <3>5, <3>6
  <2>4. wl10' \in BOOLEAN
    BY <1>5 DEF NInv, NType, NTypeOK, Restore
  <2>5. faults = 0 => buffer = NoBuffer /\ wl10' = configured
    <3>1. SUFFICES ASSUME faults = 0 PROVE wl10' = configured
      OBVIOUS
    <3>2. bare = FALSE
      BY <3>1 DEF NInv, Faultless
    <3>3. CASE op = "log"
      BY <1>5, <3>1, <3>2, <3>3 DEF Restore, NInv, Faultless
    <3>4. CASE op # "log"
      BY <1>5, <3>1, <3>4 DEF NInv, Faultless
    <3>5. QED
      BY <3>3, <3>4
  <2>6. QED
    BY <1>1, <1>2, <1>5, <2>2, <2>3, <2>4, <2>5, ReturnKeeps
<1>6. QED
  BY <1>4, <1>5 DEF TableRead

\* An exception needs trouble first.
LEMMA RaiseKeeps ==
    ASSUME NInv, Frame, Raise, wire' = <<>>, pc # "idle", trouble # "none",
           counts' \in [Kinds -> 0..MaxRecs]
    PROVE  NInv'
<1>1. op # "none" /\ faults # 0
  BY DEF NInv, Call, Faultless
<1>2. <<>> \in Records
  BY EmptySeq DEF Records
<1>3. wl10' \in BOOLEAN
  BY DEF Raise, NInv, NType, NTypeOK
<1>4. QED
  BY <1>1, <1>2, <1>3, ReturnKeeps DEF Raise

\* The first chunk, the next one, or the release.
LEMMA NextChunkKeeps ==
    ASSUME NInv, Frame, pc \in TablePcs, tab \in Kinds,
           NEW size \in Nat, NEW at \in 0..size, Held(size), NextChunk(at, size),
           total' = size, data' \in Records,
           trouble # "curt" => data' = Upto(0, at) /\ Counted(counts),
           wire' = <<>>, UNCHANGED <<wl10, tab, counts, result>>
    PROVE  NInv'
<1>1. op \in Kinds /\ pc # "idle" /\ tries' \in 1..Tries
  BY NativeAssumption DEF NInv, Call, TablePcs, NextChunk
<1>2. CASE at < size
  <2>1. at \in 0..(size - 1)
    BY <1>2
  <2>2. AskChunk(at, size) /\ start' = at
    BY <1>2 DEF NextChunk
  <2>3. QED
    BY <1>1, <2>1, <2>2, ChunkKeeps
<1>3. CASE ~(at < size)
  <2>1. at = size
    BY <1>3
  <2>2. Ask("free", Request("free", tab, 0, 0)) /\ start' = size
    BY <1>3, <2>1 DEF NextChunk
  <2>3. QED
    BY <1>1, <2>1, <2>2, ReleaseKeeps
<1>4. QED
  BY <1>2, <1>3

\* A chunk is there, or what came for it.
LEMMA ChunkReadKeeps ==
    ASSUME NInv, Frame, pc \in {"chunk", "chunkRest"}, NEW recs \in Records, ChunkRead(recs),
           counts' = counts, wire' = <<>>,
           trouble # "curt" => data \o recs = Upto(0, ChunkEnd)
    PROVE  NInv'
<1>1. /\ total \in Nat /\ start \in Nat /\ start < total /\ Held(total)
      /\ op \in Kinds /\ tab \in Kinds /\ pc \in TablePcs
  BY NativeAssumption DEF NInv, NType, NTypeOK, Reading, Call, Kinds, TablePcs
<1>2. ChunkEnd \in 0..total
  BY <1>1, NativeAssumption DEF ChunkEnd, ChunkSize
<1>3. data' \in Records
  <2>1. data \in Seq(0..MaxRecs) /\ recs \in Seq(0..MaxRecs)
    BY DEF NInv, NType, NTypeOK, Records
  <2>2. data \o recs \in Seq(0..MaxRecs)
    BY <2>1, ConcatProperties
  <2>3. QED
    BY <2>2 DEF ChunkRead, Records
<1>4. trouble # "curt" => data' = Upto(0, ChunkEnd) /\ Counted(counts)
  BY <1>1 DEF NInv, Reading, ChunkRead
<1>5. NextChunk(ChunkEnd, total) /\ total' = total /\ UNCHANGED <<wl10, tab, counts, result>>
  BY DEF ChunkRead, ChunkEnd
<1>6. QED
  BY <1>1, <1>2, <1>3, <1>4, <1>5, NextChunkKeeps

-----------------------------------------------------------------------------
(* The answers.                                                            *)

\* What follows the sizes, be they new or those of an earlier call.
LEMMA SizesReadKeeps ==
    ASSUME NInv, Frame, pc \in SizePcs, SizesRead, wire' = <<>>,
           counts' \in [Kinds -> 0..MaxRecs],
           trouble # "curt" => Counted(counts'),
           faults = 0 => buffer = NoBuffer
    PROVE  NInv'
<1>0. pc # "idle" /\ op # "none"
  BY DEF NInv, Call, SizePcs
<1>1. ASSUME NEW c \in Kinds, op = c, counts'[c] = 0 PROVE ListOf(<<>>)
  <2>1. lo \in 0..MaxRecs
    BY DEF NInv, NType, NTypeOK
  <2>2. trouble # "curt" => lo = 0
    BY <1>1, <2>1 DEF Counted
  <2>3. QED
    BY <2>2 DEF ListOf
<1>2. <<>> \in Records /\ wl10 \in BOOLEAN /\ saved \in BOOLEAN /\ configured \in BOOLEAN
  BY EmptySeq DEF Records, NInv, NType, NTypeOK
<1>3. CASE pc = "probe" /\ counts'["log"] = 0
  <2>1. op = "log" /\ op \in Kinds
    BY <1>3 DEF NInv, Call, Kinds
  <2>2. /\ Return("list", <<>>) /\ Restore
        /\ UNCHANGED <<tab, start, tries, data, total>>
    BY <1>3 DEF SizesRead
  <2>3. ListOf(<<>>)
    BY <1>1, <1>3, <2>1
  <2>4. (faults = 0 => wl10' = configured) /\ wl10' \in BOOLEAN
    BY <1>2, <2>2 DEF Restore, NInv, Faultless
  <2>5. QED
    BY <1>0, <1>2, <2>1, <2>2, <2>3, <2>4, ReturnKeeps
<1>4. CASE pc = "probe" /\ counts'["log"] # 0
  <2>1. /\ Ask("sizes", Request("sizes", "none", 0, 0))
        /\ UNCHANGED <<wl10, tab, start, tries, data, total, result>>
    BY <1>4 DEF SizesRead
  <2>2. QED
    BY <1>4, <2>1, SizesAgainKeeps
<1>5. CASE pc # "probe" /\ op = "sizes"
  <2>1. /\ Return("ok", <<>>)
        /\ UNCHANGED <<wl10, tab, start, tries, data, total>>
    BY <1>5 DEF SizesRead
  <2>2. faults = 0 => wl10 = configured
    BY <1>5 DEF NInv, Faultless
  <2>3. QED
    BY <1>0, <1>2, <2>1, <2>2, ReturnKeeps
<1>6. CASE pc # "probe" /\ op # "sizes" /\ counts'[tab] > 0
  <2>1. OpenTable(tab) /\ UNCHANGED <<wl10, result>>
    BY <1>6 DEF SizesRead
  <2>2. op \in Kinds /\ tab \in Kinds /\ (tab = op \/ (op = "log" /\ tab = "users"))
    BY <1>0, <1>6, NativeAssumption DEF NInv, NType, NTypeOK, Call, Kinds
  <2>3. QED
    BY <1>0, <2>1, <2>2, OpenKeeps
<1>7. CASE pc # "probe" /\ op # "sizes" /\ ~(counts'[tab] > 0) /\ op = "log"
  <2>1. OpenTable("log") /\ UNCHANGED <<wl10, result>>
    BY <1>7 DEF SizesRead
  <2>2. op \in Kinds /\ "log" \in Kinds
    BY <1>7 DEF Kinds
  <2>3. QED
    BY <1>0, <1>7, <2>1, <2>2, OpenKeeps
<1>8. CASE pc # "probe" /\ op # "sizes" /\ ~(counts'[tab] > 0) /\ op # "log"
  <2>1. /\ Return("list", <<>>)
        /\ UNCHANGED <<wl10, tab, start, tries, data, total>>
    BY <1>8 DEF SizesRead
  <2>2. op \in Kinds /\ tab = op
    BY <1>0, <1>8, NativeAssumption DEF NInv, NType, NTypeOK, Call, Kinds
  <2>3. counts'[op] = 0
    BY <1>8, <2>2
  <2>4. ListOf(<<>>)
    BY <1>1, <2>2, <2>3
  <2>5. faults = 0 => wl10 = configured
    BY <1>8 DEF NInv, Faultless
  <2>6. QED
    BY <1>0, <1>2, <2>1, <2>2, <2>4, <2>5, ReturnKeeps
<1>9. QED
  BY <1>3, <1>4, <1>5, <1>6, <1>7, <1>8

\* The sizes do not come.
LEMMA SizesFailedKeeps ==
    ASSUME NInv, Frame, pc \in SizePcs, SizesFailed, wire' = <<>>, counts' = counts,
           trouble # "none"
    PROVE  NInv'
<1>1. /\ pc # "idle" /\ op # "none" /\ faults # 0
      /\ counts' \in [Kinds -> 0..MaxRecs] /\ saved \in BOOLEAN /\ configured \in BOOLEAN
  BY DEF NInv, Call, SizePcs, Faultless, NType, NTypeOK
<1>2. CASE /\ pc = "quiet" /\ Ask("sizes", Request("sizes", "none", 0, 0))
           /\ UNCHANGED <<wl10, tab, start, tries, data, total, result>>
  BY <1>1, <1>2, SizesAgainKeeps
<1>3. CASE /\ pc = "probe" /\ Return("list", <<>>) /\ Restore
           /\ UNCHANGED <<tab, start, tries, data, total>>
  <2>1. op \in Kinds
    BY <1>3 DEF NInv, Call, Kinds
  <2>2. <<>> \in Records /\ wl10' \in BOOLEAN
    BY <1>1, <1>3, EmptySeq DEF Records, Restore
  <2>3. ListOf(<<>>)
    BY DEF ListOf
  <2>4. QED
    BY <1>1, <1>3, <2>1, <2>2, <2>3, ReturnKeeps
<1>4. CASE pc = "sizes" /\ Raise
  BY <1>1, <1>4, RaiseKeeps
<1>5. QED
  BY <1>2, <1>3, <1>4 DEF SizesFailed
\* A line of one piece.
LEMMA OnePiece ==
    ASSUME NEW x, wire = <<x>>, wire' = Tail(wire)
    PROVE  Head(wire) = x /\ wire' = <<>>
OBVIOUS

LEMMA BadPiece ==
    ASSUME BadLine, wire' = Tail(wire)
    PROVE  /\ wire' = <<>> /\ Head(wire).k \in {"refused", "ok", "bare"}
           /\ trouble # "none"
           /\ Head(wire).k \in {"ok", "bare"} => trouble = "curt"
<1>1. CASE wire = Short("refused") /\ trouble # "none"
  BY <1>1 DEF Short
<1>2. CASE wire = Short("ok") /\ trouble = "curt"
  BY <1>2 DEF Short
<1>3. CASE wire = Short("bare") /\ trouble = "curt"
  BY <1>3 DEF Short
<1>4. QED
  BY <1>1, <1>2, <1>3 DEF BadLine

LEMMA RecvSizes ==
    ASSUME NInv, Recv, pc \in SizePcs
    PROVE  NInv'
<1>1. /\ Frame /\ wire # <<>> /\ wire' = Tail(wire) /\ Answered(Head(wire))
      /\ counts \in [Kinds -> 0..MaxRecs]
      /\ pc \notin TablePcs
      /\ BadLine \/ \E c \in [Kinds -> 0..MaxRecs] : Counted(c) /\ wire = <<Sizes(c)>>
  BY DEF Recv, Frame, NInv, NType, NTypeOK, Arriving, SizePcs, TablePcs
<1>2. faults = 0 => buffer = NoBuffer
  BY DEF NInv, Faultless, SizePcs
<1>3. CASE BadLine
  <2>1. /\ wire' = <<>> /\ Head(wire).k \in {"refused", "ok", "bare"}
        /\ trouble # "none"
        /\ Head(wire).k \in {"ok", "bare"} => trouble = "curt"
    BY <1>1, <1>3, BadPiece
  <2>2. counts' = counts
    BY <1>1, <2>1 DEF Answered, TablePcs
  <2>3. \/ SizesFailed
        \/ SizesRead /\ trouble = "curt"
    BY <1>1, <2>1 DEF Answered, TablePcs
  <2>4. CASE SizesFailed
    BY <1>1, <2>1, <2>2, <2>4, SizesFailedKeeps
  <2>5. CASE SizesRead /\ trouble = "curt"
    BY <1>1, <1>2, <2>1, <2>2, <2>5, SizesReadKeeps
  <2>6. QED
    BY <2>3, <2>4, <2>5
<1>4. CASE \E c \in [Kinds -> 0..MaxRecs] : Counted(c) /\ wire = <<Sizes(c)>>
  <2>1. PICK c \in [Kinds -> 0..MaxRecs] : Counted(c) /\ wire = <<Sizes(c)>>
    BY <1>4
  <2>2. Head(wire) = Sizes(c) /\ wire' = <<>>
    BY <1>1, <2>1, OnePiece
  <2>3. counts' = c /\ SizesRead
    <3>1. Head(wire).k = "sizes" /\ Head(wire).part = c
      BY <2>2 DEF Sizes
    <3>2. QED
      BY <1>1, <3>1 DEF Answered, TablePcs
  <2>4. QED
    BY <1>1, <1>2, <2>1, <2>2, <2>3, SizesReadKeeps
<1>5. QED
  BY <1>1, <1>3, <1>4

LEMMA RecvTable ==
    ASSUME NInv, Recv, pc = "table"
    PROVE  NInv'
<1>1. /\ Frame /\ wire # <<>> /\ wire' = Tail(wire) /\ Answered(Head(wire))
      /\ counts \in [Kinds -> 0..MaxRecs] /\ pc \in TablePcs /\ pc # "idle"
      /\ op \in Kinds /\ tab \in Kinds
      /\ trouble # "curt" => Counted(counts)
  BY DEF Recv, Frame, NInv, NType, NTypeOK, TablePcs, Call, Kinds, Reading
<1>2. /\ counts' = counts
      /\ LET p == Head(wire) IN
         \/ p.k = "data" /\ ~p.more /\ TableRead(p.part, FALSE)
         \/ p.k = "bare" /\ TableRead(<<>>, TRUE)
         \/ /\ p.k = "data" /\ p.more
            /\ pc' = "rest" /\ data' = p.part
            /\ UNCHANGED <<asked, wl10, tab, total, start, tries, result>>
         \/ /\ p.k = "announce"
            /\ total' = p.part /\ data' = <<>>
            /\ NextChunk(0, p.part)
            /\ UNCHANGED <<wl10, tab, result>>
         \/ p.k \in {"refused", "ok"} /\ Raise
  BY <1>1 DEF Answered, SizePcs
<1>3. asked = NoReq
  BY <1>1 DEF NInv, Asking
<1>4. \/ BadLine
      \/ \E n \in 0..MaxRecs : Held(n) /\ (BulkLine(0, n) \/ wire = <<Announce(n)>>)
  BY <1>1 DEF NInv, Arriving, SizePcs
<1>5. CASE BadLine
  <2>1. /\ wire' = <<>> /\ Head(wire).k \in {"refused", "ok", "bare"}
        /\ trouble # "none"
        /\ Head(wire).k \in {"ok", "bare"} => trouble = "curt"
    BY <1>1, <1>5, BadPiece
  <2>2. faults # 0
    BY <2>1 DEF NInv, Faultless
  <2>3. <<>> \in Records
    BY EmptySeq DEF Records
  <2>4. CASE Head(wire).k = "bare" /\ TableRead(<<>>, TRUE)
    BY <1>1, <1>2, <2>1, <2>2, <2>3, <2>4, TableReadKeeps
  <2>5. CASE Raise
    BY <1>1, <1>2, <2>1, <2>5, RaiseKeeps
  <2>6. QED
    BY <1>2, <2>1, <2>4, <2>5
<1>6. ASSUME NEW n \in 0..MaxRecs, Held(n), wire = <<Announce(n)>>
      PROVE  NInv'
  <2>1. Head(wire) = Announce(n) /\ wire' = <<>>
    BY <1>1, <1>6, OnePiece
  <2>2. total' = n /\ data' = <<>> /\ NextChunk(0, n) /\ UNCHANGED <<wl10, tab, result>>
    <3>1. Head(wire).k = "announce" /\ Head(wire).part = n
      BY <2>1 DEF Announce
    <3>2. QED
      BY <1>2, <3>1
  <2>3. data' = Upto(0, 0) /\ data' \in Records /\ n \in Nat /\ 0 \in 0..n
    BY <2>2, UptoNone, EmptySeq DEF Records
  <2>4. QED
    BY <1>1, <1>2, <1>6, <2>1, <2>2, <2>3, NextChunkKeeps
<1>7. ASSUME NEW n \in 0..MaxRecs, Held(n), wire = <<Data(Upto(0, n), FALSE)>>
      PROVE  NInv'
  <2>1. Head(wire) = Data(Upto(0, n), FALSE) /\ wire' = <<>>
    BY <1>1, <1>7, OnePiece
  <2>2. TableRead(Upto(0, n), FALSE)
    <3>1. /\ Head(wire).k = "data" /\ Head(wire).part = Upto(0, n)
          /\ Head(wire).more = FALSE
      BY <2>1 DEF Data
    <3>2. QED
      BY <1>2, <3>1
  <2>3. Upto(0, n) \in Records
    BY UptoRecords
  <2>4. faults = 0 => buffer = NoBuffer
    BY <1>7 DEF NInv, Faultless, Data
  <2>5. QED
    BY <1>1, <1>2, <1>7, <2>1, <2>2, <2>3, <2>4, TableReadKeeps
<1>8. ASSUME NEW n \in 0..MaxRecs, Held(n), NEW m \in 0..(n - 1),
             Head(wire) = Data(Upto(0, m), TRUE),
             \/ wire' = <<Rest(Upto(m, n))>>
             \/ trouble # "none" /\ wire' = <<>>
      PROVE  NInv'
  <2>1. /\ pc' = "rest" /\ data' = Upto(0, m)
        /\ UNCHANGED <<asked, wl10, tab, total, start, tries, result>>
    <3>1. /\ Head(wire).k = "data" /\ Head(wire).part = Upto(0, m)
          /\ Head(wire).more = TRUE
      BY <1>8 DEF Data
    <3>2. QED
      BY <1>2, <3>1
  <2>2. Upto(0, m) \in Records /\ m \in 0..MaxRecs
    <3>1. m \in 0..MaxRecs /\ 0 <= m
      BY NativeAssumption
    <3>2. QED
      BY <3>1, UptoRecords
  <2>3. NType'
    <3>1. /\ pc' \in Places /\ Len(wire') <= 2 /\ data' \in Records
          /\ counts' \in [Kinds -> 0..MaxRecs]
      <4>1. Len(wire') <= 2
        BY <1>8
      <4>2. QED
        BY <1>1, <1>2, <2>1, <2>2, <4>1 DEF Places
    <3>2. NType
      BY DEF NInv
    <3>3. QED
      BY <1>1, <2>1, <3>1, <3>2, TypesKeep DEF NType, NTypeOK
  <2>4. Call' /\ Returned'
    BY <1>1, <2>1 DEF NInv, Call, Returned, TablePcs, SizePcs, Kinds, Frame, terminal, bounds
  <2>5. Asking' /\ Arriving'
    BY <1>3, <2>1 DEF Asking, Arriving
  <2>6. Due'
    <3>1. trouble = "none" => wire' # <<>>
      BY <1>8
    <3>2. QED
      BY <1>1, <3>1 DEF NInv, Due, Frame
  <2>7. Reading'
    <3>1. trouble' # "curt" => Counted(counts)'
      BY <1>1, <1>2 DEF Counted, Frame, terminal
    <3>2. Held(n)'
      BY <1>1, <1>8, <2>1 DEF Held, Frame, terminal
    <3>3. wire' \in {<<>>, <<Rest(Upto(m, n))>>}
      BY <1>8
    <3>4. QED
      BY <2>1, <3>1, <3>2, <3>3 DEF Reading, Upto, Rest
  <2>8. Faultless'
    <3>1. faults = 0 => buffer = NoBuffer
      BY <1>8 DEF NInv, Faultless, Data
    <3>2. QED
      BY <1>1, <2>1, <3>1 DEF NInv, Faultless, Frame, terminal, bounds
  <2>9. QED
    BY <2>3, <2>4, <2>5, <2>6, <2>7, <2>8 DEF NInv
<1>9. ASSUME NEW n \in 0..MaxRecs, Held(n), BulkLine(0, n)
      PROVE  NInv'
  <2>1. CASE wire = <<Data(Upto(0, n), FALSE)>>
    BY <1>7, <1>9, <2>1
  <2>2. ASSUME NEW m \in 0..(n - 1), wire = <<Data(Upto(0, m), TRUE), Rest(Upto(m, n))>>
        PROVE  NInv'
    <3>1. Head(wire) = Data(Upto(0, m), TRUE) /\ wire' = <<Rest(Upto(m, n))>>
      BY <1>1, <2>2
    <3>2. QED
      BY <1>8, <1>9, <3>1
  <2>3. ASSUME NEW m \in 0..(n - 1), trouble # "none", wire = <<Data(Upto(0, m), TRUE)>>
        PROVE  NInv'
    <3>1. Head(wire) = Data(Upto(0, m), TRUE) /\ wire' = <<>>
      BY <1>1, <2>3, OnePiece
    <3>2. QED
      BY <1>8, <1>9, <2>3, <3>1
  <2>4. QED
    BY <1>9, <2>1, <2>2, <2>3 DEF BulkLine
<1>10. QED
  BY <1>4, <1>5, <1>6, <1>9
LEMMA RecvRest ==
    ASSUME NInv, Recv, pc = "rest"
    PROVE  NInv'
<1>1. /\ Frame /\ wire # <<>> /\ wire' = Tail(wire) /\ Answered(Head(wire))
      /\ pc \in TablePcs
  BY DEF Recv, Frame, TablePcs
<1>2. /\ counts' = counts
      /\ Head(wire).k = "rest"
      /\ TableRead(data \o Head(wire).part, FALSE)
  BY <1>1 DEF Answered, SizePcs
<1>3. PICK n \in 0..MaxRecs : \E m \in 0..(n - 1) :
          /\ Held(n) /\ data = Upto(0, m)
          /\ wire \in {<<>>, <<Rest(Upto(m, n))>>}
  BY DEF NInv, Reading
<1>4. PICK m \in 0..(n - 1) :
          /\ Held(n) /\ data = Upto(0, m)
          /\ wire = <<Rest(Upto(m, n))>>
  BY <1>1, <1>3
<1>5. Head(wire) = Rest(Upto(m, n)) /\ wire' = <<>>
  BY <1>1, <1>4, OnePiece
<1>6. Head(wire).part = Upto(m, n)
  BY <1>5 DEF Rest
<1>7. data \o Head(wire).part = Upto(0, n)
  <2>1. m \in Nat /\ n \in Nat /\ 0 <= m /\ m <= n
    OBVIOUS
  <2>2. QED
    BY <1>4, <1>6, <2>1, UptoJoin
<1>8. TableRead(Upto(0, n), FALSE) /\ Upto(0, n) \in Records
  <2>1. 0 <= n
    OBVIOUS
  <2>2. Upto(0, n) \in Records
    BY <2>1, UptoRecords
  <2>3. QED
    BY <1>2, <1>7, <2>2
<1>9. faults = 0 => buffer = NoBuffer
  BY DEF NInv, Faultless
<1>10. QED
  BY <1>1, <1>2, <1>4, <1>5, <1>8, <1>9, TableReadKeeps

\* What is known while a chunk is read.
LEMMA ChunkFacts ==
    ASSUME NInv, pc \in {"chunk", "chunkRest"}
    PROVE  /\ op \in Kinds /\ tab \in Kinds /\ Held(total)
           /\ total \in 0..MaxRecs /\ start \in Nat /\ start < total
           /\ ChunkEnd \in 0..MaxRecs /\ start < ChunkEnd /\ ChunkEnd <= total
           /\ start + ChunkSize(start, total) = ChunkEnd
           /\ data \in Records /\ counts \in [Kinds -> 0..MaxRecs]
<1>1. /\ total \in 0..MaxRecs /\ start \in Nat /\ start < total /\ Held(total)
      /\ op \in Kinds /\ tab \in Kinds
      /\ data \in Records /\ counts \in [Kinds -> 0..MaxRecs]
  BY NativeAssumption DEF NInv, NType, NTypeOK, Reading, Call, Kinds, TablePcs
<1>2. ChunkEnd \in 0..MaxRecs /\ start < ChunkEnd /\ ChunkEnd <= total
  BY <1>1, NativeAssumption DEF ChunkEnd, ChunkSize
<1>3. QED
  BY <1>1, <1>2 DEF ChunkEnd

LEMMA RecvChunk ==
    ASSUME NInv, Recv, pc = "chunk"
    PROVE  NInv'
<1>1. /\ Frame /\ wire # <<>> /\ wire' = Tail(wire) /\ Answered(Head(wire))
      /\ pc \in TablePcs /\ pc # "idle"
      /\ trouble # "curt" => Counted(counts) /\ data = Upto(0, start)
  BY DEF Recv, Frame, NInv, Reading, TablePcs
<1> DEFINE e == ChunkEnd
<1>2. /\ op \in Kinds /\ tab \in Kinds /\ Held(total)
      /\ total \in 0..MaxRecs /\ start \in Nat /\ start < total
      /\ e \in 0..MaxRecs /\ start < e /\ e <= total
      /\ data \in Records /\ counts \in [Kinds -> 0..MaxRecs]
  BY ChunkFacts
<1>3. /\ counts' = counts
      /\ LET p == Head(wire) IN
         \/ p.k = "data" /\ ~p.more /\ ChunkRead(p.part)
         \/ /\ p.k = "data" /\ p.more
            /\ pc' = "chunkRest" /\ data' = data \o p.part
            /\ UNCHANGED <<asked, wl10, tab, total, start, tries, result>>
         \/ p.k = "bare" /\ ChunkRead(<<>>)
         \/ p.k \in {"refused", "ok"} /\ ChunkMissed
  BY <1>1 DEF Answered, SizePcs
<1>4. asked = NoReq
  BY <1>1 DEF NInv, Asking
<1>5. BadLine \/ BulkLine(start, e)
  BY <1>1 DEF NInv, Arriving, SizePcs
<1> HIDE DEF e
<1>6. CASE BadLine
  <2>1. /\ wire' = <<>> /\ Head(wire).k \in {"refused", "ok", "bare"}
        /\ trouble # "none"
        /\ Head(wire).k \in {"ok", "bare"} => trouble = "curt"
    BY <1>1, <1>6, BadPiece
  <2>2. <<>> \in Records
    BY EmptySeq DEF Records
  <2>3. CASE Head(wire).k = "bare" /\ ChunkRead(<<>>)
    BY <1>1, <1>3, <2>1, <2>2, <2>3, ChunkReadKeeps
  <2>4. CASE ChunkAgain
    <3>1. /\ tries' \in 1..Tries /\ AskChunk(start, total)
          /\ UNCHANGED <<wl10, tab, start, data, total, result>>
      BY <2>4, NativeAssumption DEF ChunkAgain, NInv, NType, NTypeOK
    <3>2. /\ start' = start /\ total' = total /\ data' = data
          /\ UNCHANGED <<wl10, tab, counts, result>>
      BY <1>3, <3>1
    <3>3. total \in Nat /\ start \in 0..(total - 1)
      BY <1>2
    <3>4. data' \in Records /\ (trouble # "curt" => data' = Upto(0, start) /\ Counted(counts))
      BY <1>1, <1>2, <3>2
    <3>5. QED
      BY <1>1, <1>2, <2>1, <3>1, <3>2, <3>3, <3>4, ChunkKeeps
  <2>5. CASE Raise
    BY <1>1, <1>2, <1>3, <2>1, <2>5, RaiseKeeps
  <2>6. QED
    BY <1>3, <2>1, <2>3, <2>4, <2>5 DEF ChunkMissed
<1>7. CASE wire = <<Data(Upto(start, e), FALSE)>>
  <2>1. Head(wire) = Data(Upto(start, e), FALSE) /\ wire' = <<>>
    BY <1>1, <1>7, OnePiece
  <2>2. ChunkRead(Upto(start, e))
    <3>1. /\ Head(wire).k = "data" /\ Head(wire).part = Upto(start, e)
          /\ Head(wire).more = FALSE
      BY <2>1 DEF Data
    <3>2. QED
      BY <1>3, <3>1
  <2>3. Upto(start, e) \in Records
    BY <1>2, UptoRecords
  <2>4. Upto(0, start) \o Upto(start, e) = Upto(0, e)
    <3>1. e \in Nat /\ 0 <= start /\ start <= e
      BY <1>2
    <3>2. QED
      BY <1>2, <3>1, UptoJoin
  <2>5. trouble # "curt" => data \o Upto(start, e) = Upto(0, ChunkEnd)
    BY <1>1, <2>4 DEF e
  <2>6. QED
    BY <1>1, <1>3, <2>1, <2>2, <2>3, <2>5, ChunkReadKeeps
<1>8. ASSUME NEW m \in start..(e - 1), Head(wire) = Data(Upto(start, m), TRUE),
             \/ wire' = <<Rest(Upto(m, e))>>
             \/ trouble # "none" /\ wire' = <<>>
      PROVE  NInv'
  <2>1. /\ pc' = "chunkRest" /\ data' = data \o Upto(start, m)
        /\ UNCHANGED <<asked, wl10, tab, total, start, tries, result>>
    <3>1. /\ Head(wire).k = "data" /\ Head(wire).part = Upto(start, m)
          /\ Head(wire).more = TRUE
      BY <1>8 DEF Data
    <3>2. QED
      BY <1>3, <3>1
  <2>2. m \in Nat /\ m \in 0..MaxRecs /\ 0 <= start /\ start <= m
    BY <1>2, NativeAssumption
  <2>3. data' \in Records
    <3>1. Upto(start, m) \in Seq(0..MaxRecs) /\ data \in Seq(0..MaxRecs)
      BY <1>2, <2>2, UptoRecords DEF Records
    <3>2. data \o Upto(start, m) \in Seq(0..MaxRecs)
      BY <3>1, ConcatProperties
    <3>3. QED
      BY <2>1, <3>2 DEF Records
  <2>4. trouble # "curt" => data' = Upto(0, m)
    <3>1. Upto(0, start) \o Upto(start, m) = Upto(0, m)
      BY <1>2, <2>2, UptoJoin
    <3>2. QED
      BY <1>1, <2>1, <3>1
  <2>5. NType'
    <3>1. /\ pc' \in Places /\ Len(wire') <= 2 /\ counts' \in [Kinds -> 0..MaxRecs]
      <4>1. Len(wire') <= 2
        BY <1>8
      <4>2. QED
        BY <1>2, <1>3, <2>1, <4>1 DEF Places
    <3>2. NType
      BY DEF NInv
    <3>3. QED
      BY <1>1, <2>1, <2>3, <3>1, <3>2, TypesKeep DEF NType, NTypeOK
  <2>6. Call' /\ Returned'
    BY <1>1, <2>1 DEF NInv, Call, Returned, TablePcs, SizePcs, Kinds, Frame, terminal, bounds
  <2>7. Asking' /\ Arriving'
    BY <1>4, <2>1 DEF Asking, Arriving
  <2>8. Due'
    <3>1. trouble = "none" => wire' # <<>>
      BY <1>8
    <3>2. QED
      BY <1>1, <3>1 DEF NInv, Due, Frame
  <2>9. Reading'
    <3>1. trouble' # "curt" => Counted(counts)'
      BY <1>1, <1>3 DEF Counted, Frame, terminal
    <3>2. Held(total)' /\ start' < total'
      BY <1>1, <1>2, <2>1 DEF Held, Frame, terminal
    <3>3. ChunkEnd' = e /\ start' = start
      BY <2>1 DEF e, ChunkEnd, ChunkSize
    <3>4. wire' \in {<<>>, <<Rest(Upto(m, e))>>}
      BY <1>8
    <3>5. trouble' # "curt" => data' = Upto(0, m)
      BY <1>1, <2>4 DEF Frame
    <3>6. QED
      BY <2>1, <3>1, <3>2, <3>3, <3>4, <3>5 DEF Reading, Upto, Rest
  <2>10. Faultless'
    BY <1>1, <2>1 DEF NInv, Faultless, Frame, terminal, bounds
  <2>11. QED
    BY <2>5, <2>6, <2>7, <2>8, <2>9, <2>10 DEF NInv
<1>9. ASSUME NEW m \in start..(e - 1), wire = <<Data(Upto(start, m), TRUE), Rest(Upto(m, e))>>
      PROVE  NInv'
  <2>1. Head(wire) = Data(Upto(start, m), TRUE) /\ wire' = <<Rest(Upto(m, e))>>
    BY <1>1, <1>9
  <2>2. QED
    BY <1>8, <2>1
<1>10. ASSUME NEW m \in start..(e - 1), trouble # "none", wire = <<Data(Upto(start, m), TRUE)>>
       PROVE  NInv'
  <2>1. Head(wire) = Data(Upto(start, m), TRUE) /\ wire' = <<>>
    BY <1>1, <1>10, OnePiece
  <2>2. QED
    BY <1>8, <1>10, <2>1
<1>11. CASE BulkLine(start, e)
  BY <1>7, <1>9, <1>10, <1>11 DEF BulkLine
<1>12. QED
  BY <1>5, <1>6, <1>11

LEMMA RecvChunkRest ==
    ASSUME NInv, Recv, pc = "chunkRest"
    PROVE  NInv'
<1>1. /\ Frame /\ wire # <<>> /\ wire' = Tail(wire) /\ Answered(Head(wire))
  BY DEF Recv, Frame
<1> DEFINE e == ChunkEnd
<1>2. /\ start \in Nat /\ e \in 0..MaxRecs /\ start < e
  BY ChunkFacts
<1>3. /\ counts' = counts /\ ChunkRead(Head(wire).part)
  BY <1>1 DEF Answered, SizePcs
<1>4. PICK m \in start..(e - 1) :
          /\ trouble # "curt" => data = Upto(0, m)
          /\ wire = <<Rest(Upto(m, e))>>
  BY <1>1 DEF NInv, Reading
<1> HIDE DEF e
<1>5. Head(wire) = Rest(Upto(m, e)) /\ wire' = <<>>
  BY <1>1, <1>4, OnePiece
<1>6. ChunkRead(Upto(m, e))
  <2>1. Head(wire).part = Upto(m, e)
    BY <1>5 DEF Rest
  <2>2. QED
    BY <1>3, <2>1
<1>7. m \in Nat /\ 0 <= m /\ m <= e /\ e \in Nat
  BY <1>2
<1>8. Upto(m, e) \in Records
  <2>1. m \in Nat /\ e \in 0..MaxRecs /\ m <= e
    BY <1>2, <1>7
  <2>2. QED
    BY <2>1, UptoRecords
<1>9. trouble # "curt" => data \o Upto(m, e) = Upto(0, ChunkEnd)
  <2>1. Upto(0, m) \o Upto(m, e) = Upto(0, e)
    BY <1>7, UptoJoin
  <2>2. QED
    BY <1>4, <2>1 DEF e
<1>10. QED
  BY <1>1, <1>3, <1>5, <1>6, <1>8, <1>9, ChunkReadKeeps

LEMMA RecvFree ==
    ASSUME NInv, Recv, pc = "free"
    PROVE  NInv'
<1>1. /\ Frame /\ wire # <<>> /\ wire' = Tail(wire) /\ Answered(Head(wire))
      /\ pc \in TablePcs /\ pc # "idle" /\ data \in Records
      /\ total \in 0..MaxRecs /\ Held(total)
      /\ trouble # "curt" => data = Upto(0, total)
      /\ counts \in [Kinds -> 0..MaxRecs]
  BY DEF Recv, Frame, NInv, Reading, TablePcs, NType, NTypeOK
<1>2. /\ counts' = counts
      /\ \/ Head(wire).k \in {"ok", "bare"} /\ TableRead(data, FALSE)
         \/ Head(wire).k = "refused" /\ Raise
  BY <1>1 DEF Answered, SizePcs
<1>3. BadLine \/ wire = Short("ok")
  BY <1>1 DEF NInv, Arriving, SizePcs
<1>4. /\ wire' = <<>>
      /\ Head(wire).k = "refused" => trouble # "none"
  <2>1. CASE BadLine
    BY <1>1, <2>1, BadPiece
  <2>2. CASE wire = Short("ok")
    BY <1>1, <2>2 DEF Short
  <2>3. QED
    BY <1>3, <2>1, <2>2
<1>5. CASE TableRead(data, FALSE)
  <2>1. faults = 0 => buffer = NoBuffer
    BY <1>1 DEF NInv, Faultless
  <2>2. QED
    BY <1>1, <1>2, <1>4, <1>5, <2>1, TableReadKeeps
<1>6. CASE Head(wire).k = "refused" /\ Raise
  BY <1>1, <1>2, <1>4, <1>6, RaiseKeeps
<1>7. QED
  BY <1>2, <1>5, <1>6

\* Every answer.
LEMMA RecvKeeps == ASSUME NInv, Recv PROVE NInv'
<1>1. pc \in SizePcs \cup {"table", "rest", "chunk", "chunkRest", "free"}
  BY DEF NInv, NType, NTypeOK, Recv, Awaiting
<1>2. QED
  BY <1>1, RecvSizes, RecvTable, RecvRest, RecvChunk, RecvChunkRest, RecvFree

\* A timeout, or the end of the connection: an answer that is due does not fail.
LEMMA RecvFailsKeeps == ASSUME NInv, RecvFails PROVE NInv'
<1>1. /\ Frame /\ wire' = <<>> /\ counts' = counts /\ pc # "idle" /\ trouble # "none"
      /\ counts' \in [Kinds -> 0..MaxRecs]
  BY DEF RecvFails, Frame, Awaiting, NInv, Due, NType, NTypeOK
<1>2. CASE pc \in SizePcs
  BY <1>1, <1>2, SizesFailedKeeps DEF RecvFails
<1>3. CASE pc \notin SizePcs
  BY <1>1, <1>3, RaiseKeeps DEF RecvFails
<1>4. QED
  BY <1>2, <1>3
-----------------------------------------------------------------------------
(* The other steps.                                                        *)

\* Between calls nothing is asked for or on its way.
LEMMA AtRest ==
    ASSUME NInv, pc \in {"idle", "raw"}
    PROVE  asked = NoReq /\ wire = <<>>
BY DEF NInv, Asking, Arriving, SizePcs

LEMMA StartKeeps ==
    ASSUME NInv, NEW c \in NativeOps, Start(c)
    PROVE  NInv'
<1>1. /\ pc = "idle" /\ asked = NoReq /\ wire = <<>> /\ wire' = <<>>
      /\ op' = c /\ c \in {"sizes", "users", "templates", "log"} /\ c # "none"
      /\ tab' = (IF c = "log" THEN "users" ELSE c)
      /\ result' = Nothing
      /\ trouble' = (IF link = "up" THEN "none" ELSE "lost")
      /\ saved' = wl10
      /\ UNCHANGED <<mem, buffer, link, wl10, configured, wide, counts, total, start,
                     tries, data, growth, faults>>
      /\ c \in Kinds => lo' = mem[c]
      /\ lo' \in 0..MaxRecs
  BY AtRest, NativeAssumption DEF Start, NInv, NType, NTypeOK, Kinds, terminal
<1>2. \/ pc' = "raw" /\ asked' = NoReq /\ c # "sizes" /\ wl10
      \/ /\ asked' = (IF link = "up" THEN Request("sizes", "none", 0, 0) ELSE NoReq)
         /\ \/ pc' = "quiet" /\ c = "sizes"
            \/ pc' = "probe" /\ c = "log"
            \/ pc' = "sizes"
  BY DEF Start, Ask
<1>3. NType'
  <2>1. asked' \in {NoReq, Request("sizes", "none", 0, 0)}
    BY <1>2
  <2>2. /\ asked'.cmd \in {"none", "sizes"} /\ asked'.from = 0 /\ asked'.size = 0
        /\ asked'.tab = "none"
    BY <2>1 DEF NoReq, Request
  <2>3. 0 \in 0..MaxRecs /\ 0 \in 0..MaxChunk /\ 0 + 0 \in 0..MaxRecs
    BY NativeAssumption
  <2>4. result'.k = "none" /\ result'.data \in Records
    BY <1>1, EmptySeq DEF Nothing, Records
  <2>5. /\ op' \in NativeOps \cup {"none"} /\ tab' \in Kinds \cup {"sizes", "none"}
        /\ pc' \in Places /\ trouble' \in {"none", "lost", "curt"} /\ Len(wire') <= 2
    BY <1>1, <1>2 DEF Kinds, Places, SizePcs
  <2>6. NType
    BY DEF NInv
  <2>7. /\ mem' \in [Kinds -> 0..MaxRecs]
        /\ buffer'.tab \in Kinds \cup {"none"} /\ buffer'.n \in 0..MaxRecs
        /\ link' \in {"up", "reset", "closed"}
        /\ counts' \in [Kinds -> 0..MaxRecs]
        /\ total' \in 0..MaxRecs /\ start' \in 0..MaxRecs /\ tries' \in 1..Tries
        /\ data' \in Records /\ faults' \in Nat
    BY <1>1, <2>6 DEF NType, NTypeOK
  <2>8. wl10' \in BOOLEAN /\ saved' \in BOOLEAN /\ configured' \in BOOLEAN /\ wide' \in BOOLEAN
    BY <1>1, <2>6 DEF NType, NTypeOK
  <2>9. QED
    BY <1>1, <2>2, <2>3, <2>4, <2>5, <2>7, <2>8 DEF NType, NTypeOK, Places, Records
<1>4. Call'
  <2>1. op' \in Kinds => lo' <= mem'[op']
    BY <1>1, <1>3 DEF NType, NTypeOK
  <2>2. QED
    BY <1>1, <1>2, <2>1 DEF Call, TablePcs, SizePcs, Kinds
<1>5. Asking'
  BY <1>1, <1>2 DEF Asking, SizePcs
<1>6. Arriving'
  BY <1>1 DEF Arriving
<1>7. Reading' /\ Returned'
  BY <1>2 DEF Reading, TablePcs, Returned
<1>8. Due'
  BY <1>1, <1>2 DEF Due, Awaiting, NoReq, Request
<1>9. Faultless'
  <2>1. faults' = 0 => buffer' = NoBuffer /\ wl10' = configured' /\ saved' = configured' /\ trouble' = "none"
    BY <1>1 DEF NInv, Faultless, Due
  <2>2. result'.k # "error"
    BY <1>1 DEF Nothing
  <2>3. QED
    BY <2>1, <2>2 DEF Faultless
<1>10. QED
  BY <1>3, <1>4, <1>5, <1>6, <1>7, <1>8, <1>9 DEF NInv

\* The raw read of a WL10 terminal.
LEMMA RawReadKeeps == ASSUME NInv, RawRead PROVE NInv'
<1>1. /\ pc = "raw" /\ asked = NoReq /\ wire = <<>> /\ wire' = <<>>
      /\ op \in Kinds /\ op # "none" /\ lo <= mem[op]
      /\ UNCHANGED <<mem, buffer, link, saved, configured, wide, op, tab, total, start, tries,
                     data, lo, calls, growth>>
      /\ mem[op] \in 0..MaxRecs /\ mem["log"] \in 0..MaxRecs /\ lo \in 0..MaxRecs
      /\ counts \in [Kinds -> 0..MaxRecs] /\ wl10 \in BOOLEAN
      /\ faults \in Nat
      /\ faults = 0 => buffer = NoBuffer /\ (op # "log" => wl10 = configured) /\ link = "up"
  BY AtRest DEF RawRead, NInv, Call, Kinds, NType, NTypeOK, Faultless, Due, terminal
<1>2. CASE /\ link = "up"
           /\ op # "log" \/ mem["log"] > 0
           /\ Return("list", Upto(0, mem[op]))
           /\ counts' = [counts EXCEPT ![op] = mem[op]]
           /\ UNCHANGED <<wl10, faults, trouble>>
  <2>1. Frame
    BY <1>1, <1>2 DEF Frame, terminal, bounds
  <2>2. Upto(0, mem[op]) \in Records
    <3>1. 0 <= mem[op]
      BY <1>1
    <3>2. QED
      BY <1>1, <3>1, UptoRecords
  <2>3. counts' \in [Kinds -> 0..MaxRecs]
    BY <1>1, <1>2
  <2>4. ListOf(Upto(0, mem[op]))
    BY <1>1 DEF ListOf
  <2>5. wl10' \in BOOLEAN
    BY <1>1, <1>2
  <2>6. faults = 0 => wl10' = configured
    BY <1>1, <1>2 DEF NInv, Faultless
  <2>7. QED
    BY <1>1, <1>2, <2>1, <2>2, <2>3, <2>4, <2>5, <2>6, ReturnKeeps
<1>3. CASE /\ link = "up"
           /\ op = "log" /\ wl10' = FALSE
           /\ Ask("probe", Request("sizes", "none", 0, 0))
           /\ UNCHANGED <<counts, result, faults, trouble>>
  <2>1. Frame /\ tab = "users"
    BY <1>1, <1>3 DEF Frame, terminal, bounds, NInv, Call
  <2>2. asked' \in {NoReq, Request("sizes", "none", 0, 0)}
    BY <1>3 DEF Ask
  <2>3. NType'
    <3>1. /\ asked'.cmd \in {"none", "sizes"} /\ asked'.from = 0 /\ asked'.size = 0
          /\ asked'.tab = "none"
      BY <2>2 DEF NoReq, Request
    <3>2. 0 \in 0..MaxRecs /\ 0 \in 0..MaxChunk /\ 0 + 0 \in 0..MaxRecs
      BY NativeAssumption
    <3>3. pc' \in Places /\ Len(wire') <= 2 /\ wl10' \in BOOLEAN
      <4>1. pc' = "probe" /\ Len(wire') <= 2
        BY <1>1, <1>3 DEF Ask
      <4>2. wl10' \in BOOLEAN
        BY <1>3
      <4>3. QED
        BY <4>1, <4>2 DEF Places, SizePcs
    <3>4. NType
      BY DEF NInv
    <3>5. /\ tab' \in Kinds \cup {"sizes", "none"} /\ data' \in Records
          /\ total' \in 0..MaxRecs /\ start' \in 0..MaxRecs /\ tries' \in 1..Tries
          /\ result'.k \in {"none", "ok", "list", "error"} /\ result'.data \in Records
          /\ counts' \in [Kinds -> 0..MaxRecs]
      BY <1>1, <1>3, <3>4 DEF NType, NTypeOK
    <3>6. QED
      BY <2>1, <3>1, <3>2, <3>3, <3>4, <3>5, TypesKeep
  <2>4. Call' /\ Returned'
    BY <1>1, <1>3, <2>1 DEF Call, Returned, TablePcs, SizePcs, Kinds, Ask
  <2>5. Asking' /\ Arriving'
    BY <1>1, <1>3 DEF Asking, Arriving, Ask, SizePcs
  <2>6. Reading'
    BY <1>3 DEF Reading, TablePcs, Ask
  <2>7. Due'
    BY <1>1, <1>3 DEF NInv, Due, Ask, NoReq, Request
  <2>8. Faultless'
    BY <1>1, <1>3 DEF NInv, Faultless, Ask
  <2>9. QED
    BY <2>3, <2>4, <2>5, <2>6, <2>7, <2>8 DEF NInv
<1>4. CASE /\ link # "up" \/ faults < MaxFaults
           /\ Return("error", <<>>)
           /\ faults' = IF link = "up" THEN faults + 1 ELSE faults
           /\ trouble' = "lost"
           /\ UNCHANGED <<counts, wl10>>
  <2>1. faults' \in Nat /\ faults' # 0
    BY <1>1, <1>4 DEF NInv, Due
  <2>2. NType'
    <3>1. /\ asked'.cmd = "none" /\ asked'.tab = "none"
          /\ asked'.from = 0 /\ asked'.size = 0
      BY <1>4 DEF NoReq, Return
    <3>2. 0 \in 0..MaxRecs /\ 0 \in 0..MaxChunk /\ 0 + 0 \in 0..MaxRecs
      BY NativeAssumption
    <3>3. result'.k = "error" /\ result'.data \in Records
      BY <1>4, EmptySeq DEF Return, Records
    <3>4. NType
      BY DEF NInv
    <3>5. /\ op' \in NativeOps \cup {"none"} /\ tab' \in Kinds \cup {"sizes", "none"}
          /\ pc' \in Places /\ trouble' \in {"none", "lost", "curt"} /\ Len(wire') <= 2
          /\ mem' \in [Kinds -> 0..MaxRecs]
          /\ buffer'.tab \in Kinds \cup {"none"} /\ buffer'.n \in 0..MaxRecs
          /\ link' \in {"up", "reset", "closed"}
          /\ counts' \in [Kinds -> 0..MaxRecs] /\ lo' \in 0..MaxRecs
          /\ total' \in 0..MaxRecs /\ start' \in 0..MaxRecs /\ tries' \in 1..Tries
          /\ data' \in Records
      BY <1>1, <1>4, <3>4 DEF NType, NTypeOK, Return, Places
    <3>6. wl10' \in BOOLEAN /\ saved' \in BOOLEAN /\ configured' \in BOOLEAN /\ wide' \in BOOLEAN
      BY <1>1, <1>4, <3>4 DEF NType, NTypeOK
    <3>7. QED
      BY <2>1, <3>1, <3>2, <3>3, <3>5, <3>6 DEF NType, NTypeOK, Places, Records
  <2>3. Call' /\ Asking' /\ Arriving'
    <3>1. pc' = "idle" /\ asked' = NoReq /\ wire' = <<>>
      BY <1>1, <1>4 DEF Return
    <3>2. Call'
      BY <1>1, <3>1 DEF NInv, Call, TablePcs, SizePcs, Kinds
    <3>3. QED
      BY <3>1, <3>2 DEF Asking, Arriving
  <2>4. Reading' /\ Returned'
    BY <1>4 DEF Reading, Returned, TablePcs, Return
  <2>5. Due'
    BY <1>4 DEF Due
  <2>6. Faultless'
    BY <2>1 DEF Faultless
  <2>7. QED
    BY <2>2, <2>3, <2>4, <2>5, <2>6 DEF NInv
<1>5. QED
  BY <1>2, <1>3, <1>4 DEF RawRead

\* What the terminal's and the network's steps leave to the client.
ClientFrame ==
    UNCHANGED <<wl10, saved, configured, wide, op, pc, tab, counts, total, start, tries, data,
                result, lo, calls>>

\* An answer is sent.
LEMMA Served ==
    ASSUME NInv, ClientFrame, UNCHANGED <<mem, link, trouble, growth, faults>>,
           link = "up", pc # "idle", asked' = NoReq,
           buffer'.tab \in Kinds \cup {"none"}, buffer'.n \in 0..MaxRecs,
           Len(wire') <= 2, wire' # <<>>, Arriving', Reading', Faultless'
    PROVE  NInv'
<1>1. NType'
  <2>1. /\ asked'.cmd = "none" /\ asked'.tab = "none"
        /\ asked'.from = 0 /\ asked'.size = 0
    BY DEF NoReq
  <2>2. 0 \in 0..MaxRecs /\ 0 \in 0..MaxChunk /\ 0 + 0 \in 0..MaxRecs
    BY NativeAssumption
  <2>3. NType
    BY DEF NInv
  <2>4. /\ mem' \in [Kinds -> 0..MaxRecs] /\ link' \in {"up", "reset", "closed"}
        /\ counts' \in [Kinds -> 0..MaxRecs] /\ lo' \in 0..MaxRecs
        /\ op' \in NativeOps \cup {"none"} /\ tab' \in Kinds \cup {"sizes", "none"}
        /\ pc' \in Places /\ trouble' \in {"none", "lost", "curt"}
        /\ total' \in 0..MaxRecs /\ start' \in 0..MaxRecs /\ tries' \in 1..Tries
        /\ data' \in Records /\ faults' \in Nat
        /\ result'.k \in {"none", "ok", "list", "error"} /\ result'.data \in Records
    BY <2>3 DEF NType, NTypeOK, ClientFrame, Places
  <2>5. wl10' \in BOOLEAN /\ saved' \in BOOLEAN /\ configured' \in BOOLEAN /\ wide' \in BOOLEAN
    BY <2>3 DEF NType, NTypeOK, ClientFrame
  <2>6. QED
    BY <2>1, <2>2, <2>4, <2>5 DEF NType, NTypeOK, Places, Records
<1>2. Call'
  BY DEF NInv, Call, ClientFrame
<1>3. Asking' /\ Due'
  BY DEF NInv, Asking, Due
<1>4. Returned'
  BY DEF Returned, ClientFrame
<1>5. QED
  BY <1>1, <1>2, <1>3, <1>4 DEF NInv

LEMMA ServeKeeps == ASSUME NInv, Serve PROVE NInv'
<1>1. /\ ClientFrame /\ UNCHANGED <<mem, link, trouble, growth, faults>>
      /\ asked' = NoReq /\ link = "up" /\ wire = <<>>
      /\ \/ pc \in SizePcs /\ asked = Request("sizes", "none", 0, 0)
         \/ pc = "table" /\ asked = Request("table", tab, 0, 0)
         \/ pc = "chunk" /\ asked = Request("chunk", tab, start, ChunkSize(start, total))
         \/ pc = "free" /\ asked = Request("free", tab, 0, 0)
  BY DEF Serve, ClientFrame, NInv, Asking, reader, bounds
<1>2. /\ NType /\ Call
      /\ buffer.tab \in Kinds \cup {"none"} /\ buffer.n \in 0..MaxRecs
  BY DEF NInv, NType, NTypeOK
<1>3. CASE pc \in SizePcs
  <2>1. asked.cmd = "sizes" /\ pc # "idle" /\ pc \notin TablePcs
    BY <1>1, <1>3 DEF Request, SizePcs, TablePcs
  <2>2. wire' = <<Sizes(mem)>> /\ UNCHANGED buffer
    BY <2>1 DEF Serve, Sizes
  <2>3. PICK c \in [Kinds -> 0..MaxRecs] : c = mem /\ Counted(c)
    <3>1. mem \in [Kinds -> 0..MaxRecs] /\ lo \in 0..MaxRecs
      BY <1>2 DEF NType, NTypeOK
    <3>2. ASSUME op \in Kinds PROVE mem[op] \in lo..mem[op]
      BY <3>1, <3>2, <1>2 DEF Call
    <3>3. QED
      BY <3>1, <3>2 DEF Counted
  <2>4. Counted(c)' /\ wire' = <<Sizes(c)>>
    BY <1>1, <2>2, <2>3 DEF Counted, ClientFrame
  <2>5. Arriving'
    BY <1>1, <1>3, <2>4 DEF Arriving, ClientFrame, Sizes
  <2>6. Len(wire') <= 2 /\ wire' # <<>>
    BY <2>2
  <2>7. Reading' /\ Faultless'
    BY <1>1, <1>3, <2>1, <2>2 DEF NInv, Reading, Faultless, SizePcs, TablePcs, ClientFrame
  <2>8. QED
    BY <1>1, <1>2, <2>1, <2>2, <2>5, <2>6, <2>7, Served
<1>4. CASE pc = "table"
  <2>1. asked.cmd = "table" /\ asked.tab = tab
    BY <1>1, <1>4 DEF Request, SizePcs
  <2>2. op \in Kinds /\ tab \in Kinds
    BY <1>2, <1>4 DEF Call, Kinds, TablePcs
  <2>3. PICK n \in 0..MaxRecs : n = mem[tab]
    BY <1>2, <2>2 DEF NType, NTypeOK
  <2>4. Held(n)'
    BY <1>1, <1>2, <2>2, <2>3 DEF Held, ClientFrame, NType, NTypeOK, Call
  <2>5. \/ wire' \in Bulk(Upto(0, n)) /\ UNCHANGED buffer
        \/ buffer' = [tab |-> tab, n |-> n] /\ wire' = <<Announce(n)>>
    BY <2>1, <2>3 DEF Serve, Announce
  <2>6. Reading'
    BY <1>1, <1>4 DEF NInv, Reading, TablePcs, ClientFrame, Counted
  <2>7. CASE wire' = <<Announce(n)>> /\ buffer' = [tab |-> tab, n |-> n]
    <3>1. Arriving'
      BY <1>1, <1>4, <2>4, <2>7 DEF Arriving, ClientFrame, Announce
    <3>2. Len(wire') <= 2 /\ wire' # <<>> /\ wire'[1].k = "announce"
      BY <2>7 DEF Announce
    <3>3. Faultless'
      BY <1>1, <1>4, <3>2 DEF NInv, Faultless, ClientFrame
    <3>4. buffer'.tab \in Kinds \cup {"none"} /\ buffer'.n \in 0..MaxRecs
      BY <2>2, <2>7
    <3>5. QED
      BY <1>1, <1>4, <2>6, <3>1, <3>2, <3>3, <3>4, Served
  <2>8. CASE wire' \in Bulk(Upto(0, n)) /\ UNCHANGED buffer
    <3>1. \/ wire' = <<Data(Upto(0, n), FALSE)>>
          \/ \E m \in 0..(n - 1) : wire' = <<Data(Upto(0, m), TRUE), Rest(Upto(m, n))>>
      <4>1. n \in Nat /\ 0 <= n
        OBVIOUS
      <4>2. QED
        BY <2>8, <4>1, BulkPieces
    <3>2. BulkLine(0, n)'
      BY <3>1 DEF BulkLine, Data, Rest, Upto
    <3>3. Arriving'
      BY <1>1, <1>4, <2>4, <3>2 DEF Arriving, ClientFrame
    <3>4. Len(wire') <= 2 /\ wire' # <<>>
      <4>1. ASSUME NEW m, wire' = <<Data(Upto(0, m), TRUE), Rest(Upto(m, n))>>
            PROVE  Len(wire') <= 2 /\ wire' # <<>>
        BY <4>1
      <4>2. CASE wire' = <<Data(Upto(0, n), FALSE)>>
        BY <4>2
      <4>3. QED
        BY <3>1, <4>1, <4>2
    <3>5. Faultless'
      BY <1>1, <1>4, <2>8 DEF NInv, Faultless, ClientFrame
    <3>6. QED
      BY <1>1, <1>2, <1>4, <2>6, <2>8, <3>3, <3>4, <3>5, Served
  <2>9. QED
    BY <2>5, <2>7, <2>8
<1>5. CASE pc = "chunk"
  <2>1. /\ asked.cmd = "chunk" /\ asked.from = start
        /\ asked.from + asked.size = ChunkEnd
    BY <1>1, <1>5 DEF Request, SizePcs, ChunkEnd
  <2>2. PICK a \in Nat, b \in Nat : a = start /\ b = ChunkEnd /\ a <= b
    <3>1. start \in Nat /\ ChunkEnd \in 0..MaxRecs /\ start < ChunkEnd
      BY <1>5, ChunkFacts
    <3>2. QED
      BY <3>1, NativeAssumption
  <2>3. wire' \in Bulk(Upto(a, b)) /\ UNCHANGED buffer
    BY <2>1, <2>2 DEF Serve
  <2>4. a = start' /\ b = ChunkEnd'
    BY <1>1, <2>2 DEF ClientFrame, ChunkEnd, ChunkSize
  <2>5. \/ wire' = <<Data(Upto(a, b), FALSE)>>
        \/ \E m \in a..(b - 1) : wire' = <<Data(Upto(a, m), TRUE), Rest(Upto(m, b))>>
    <3>1. a <= b /\ wire' \in Bulk(Upto(a, b))
      BY <2>2, <2>3
    <3>2. QED
      BY <3>1, BulkPieces
  <2>6. BulkLine(start, ChunkEnd)'
    BY <2>4, <2>5 DEF BulkLine, Data, Rest, Upto
  <2>7. Arriving'
    BY <1>1, <1>5, <2>6 DEF Arriving, ClientFrame
  <2>8. Len(wire') <= 2 /\ wire' # <<>>
    <3>1. ASSUME NEW m, wire' = <<Data(Upto(a, m), TRUE), Rest(Upto(m, b))>>
          PROVE  Len(wire') <= 2 /\ wire' # <<>>
      BY <3>1
    <3>2. CASE wire' = <<Data(Upto(a, b), FALSE)>>
      BY <3>2
    <3>3. QED
      BY <2>5, <3>1, <3>2
  <2>9. Reading' /\ Faultless'
    BY <1>1, <1>5, <2>3 DEF NInv, Reading, Faultless, TablePcs, ClientFrame, Counted, Held, Upto
  <2>10. QED
    BY <1>1, <1>2, <1>5, <2>3, <2>7, <2>8, <2>9, Served
<1>6. CASE pc = "free"
  <2>1. asked.cmd = "free"
    BY <1>1, <1>6 DEF Request, SizePcs
  <2>2. buffer' = NoBuffer /\ wire' = Short("ok")
    BY <2>1 DEF Serve
  <2>3. Len(wire') <= 2 /\ wire' # <<>>
    BY <2>2 DEF Short
  <2>4. Arriving'
    BY <1>1, <1>6, <2>2 DEF Arriving, ClientFrame, Short
  <2>5. Reading' /\ Faultless'
    BY <1>1, <1>6, <2>2 DEF NInv, Reading, Faultless, TablePcs, ClientFrame, Counted, Held, Upto
  <2>6. buffer'.tab \in Kinds \cup {"none"} /\ buffer'.n \in 0..MaxRecs
    BY <2>2, NativeAssumption DEF NoBuffer
  <2>7. QED
    BY <1>1, <1>6, <2>3, <2>4, <2>5, <2>6, Served
<1>7. QED
  BY <1>1, <1>3, <1>4, <1>5, <1>6

LEMMA GrowKeeps == ASSUME NInv, Grow PROVE NInv'
<1>1. UNCHANGED <<buffer, link, asked, wire, wl10, saved, configured, wide, op, pc, tab,
                     counts, total, start, tries, data, result, lo, trouble, calls, faults>>
  BY DEF Grow, conn, reader
<1>2. /\ mem' \in [Kinds -> 0..MaxRecs]
      /\ \A t \in Kinds : mem[t] <= mem'[t]
  <2>1. mem \in [Kinds -> 0..MaxRecs]
    BY DEF NInv, NType, NTypeOK
  <2>2. PICK t \in Kinds : mem[t] < MaxRecs /\ mem' = [mem EXCEPT ![t] = @ + 1]
    BY DEF Grow
  <2>3. mem[t] + 1 \in 0..MaxRecs
    BY <2>1, <2>2, NativeAssumption
  <2>4. mem' \in [Kinds -> 0..MaxRecs]
    BY <2>1, <2>2, <2>3
  <2>5. ASSUME NEW u \in Kinds PROVE mem[u] <= mem'[u]
    <3>1. mem[u] \in 0..MaxRecs
      BY <2>1
    <3>2. mem'[u] = IF u = t THEN mem[u] + 1 ELSE mem[u]
      BY <2>1, <2>2
    <3>3. QED
      BY <3>1, <3>2
  <2>6. QED
    BY <2>4, <2>5
<1>3. NType /\ Call /\ mem \in [Kinds -> 0..MaxRecs] /\ lo \in 0..MaxRecs
  BY DEF NInv, NType, NTypeOK
<1>4. NType'
  <2>1. wl10' \in BOOLEAN /\ saved' \in BOOLEAN /\ configured' \in BOOLEAN /\ wide' \in BOOLEAN
    BY <1>1, <1>3 DEF NType, NTypeOK
  <2>2. /\ buffer'.tab \in Kinds \cup {"none"} /\ buffer'.n \in 0..MaxRecs
        /\ link' \in {"up", "reset", "closed"}
        /\ asked'.cmd \in {"none", "sizes", "table", "chunk", "free"}
        /\ asked'.from \in 0..MaxRecs /\ asked'.size \in 0..MaxChunk
        /\ asked'.tab \in Kinds \cup {"none"} /\ asked'.from + asked'.size \in 0..MaxRecs
        /\ Len(wire') <= 2 /\ faults' \in Nat
    BY <1>1, <1>3 DEF NType, NTypeOK
  <2>3. /\ op' \in NativeOps \cup {"none"} /\ tab' \in Kinds \cup {"sizes", "none"}
        /\ pc' \in Places
        /\ counts' \in [Kinds -> 0..MaxRecs]
        /\ total' \in 0..MaxRecs /\ start' \in 0..MaxRecs /\ tries' \in 1..Tries
        /\ data' \in Records
        /\ result'.k \in {"none", "ok", "list", "error"} /\ result'.data \in Records
        /\ lo' \in 0..MaxRecs /\ trouble' \in {"none", "lost", "curt"}
    BY <1>1, <1>3 DEF NType, NTypeOK, Places
  <2>4. QED
    BY <1>2, <2>1, <2>2, <2>3 DEF NType, NTypeOK, Places, Records
<1>5. Call'
  BY <1>1, <1>2, <1>3 DEF Call
<1>6. ASSUME NEW n, Held(n), tab \in Kinds PROVE Held(n)'
  BY <1>1, <1>2, <1>3, <1>6 DEF Held
<1>7. ASSUME NEW c, Counted(c) PROVE Counted(c)'
  BY <1>1, <1>2, <1>3, <1>7 DEF Counted
<1>8. pc \in TablePcs => tab \in Kinds
  BY <1>3 DEF Call, Kinds
<1>9. Asking'
  BY <1>1 DEF NInv, Asking, ChunkSize
<1>10. Arriving'
  <2>1. SUFFICES ASSUME wire # <<>>
                 PROVE  Arriving'
    BY <1>1 DEF Arriving
  <2>2. ASSUME NEW a, NEW b, BulkLine(a, b) PROVE BulkLine(a, b)'
    BY <1>1, <2>2 DEF BulkLine, Data, Rest, Upto
  <2>3. CASE pc \in SizePcs \cup {"table", "chunk", "free"} /\ BadLine
    BY <1>1, <2>3 DEF Arriving, BadLine, Short
  <2>4. CASE pc \in SizePcs /\ \E c \in [Kinds -> 0..MaxRecs] : Counted(c) /\ wire = <<Sizes(c)>>
    <3>1. PICK c \in [Kinds -> 0..MaxRecs] : Counted(c) /\ wire = <<Sizes(c)>>
      BY <2>4
    <3>2. Counted(c)'
      BY <1>7, <3>1
    <3>3. QED
      BY <1>1, <2>4, <3>1, <3>2 DEF Arriving, Sizes
  <2>5. CASE /\ pc = "table"
             /\ \E n \in 0..MaxRecs : Held(n) /\ (BulkLine(0, n) \/ wire = <<Announce(n)>>)
    <3>1. PICK n \in 0..MaxRecs : Held(n) /\ (BulkLine(0, n) \/ wire = <<Announce(n)>>)
      BY <2>5
    <3>2. tab \in Kinds
      BY <1>8, <2>5 DEF TablePcs
    <3>3. Held(n)'
      BY <1>6, <3>1, <3>2
    <3>4. BulkLine(0, n)' \/ wire' = <<Announce(n)>>
      BY <1>1, <2>2, <3>1
    <3>5. QED
      BY <1>1, <2>5, <3>3, <3>4 DEF Arriving, Announce
  <2>6. CASE pc = "chunk" /\ BulkLine(start, ChunkEnd)
    <3>1. BulkLine(start, ChunkEnd)'
      BY <1>1, <2>6 DEF BulkLine, Data, Rest, Upto, ChunkEnd, ChunkSize
    <3>2. QED
      BY <1>1, <2>6, <3>1 DEF Arriving
  <2>7. CASE pc \in {"rest", "chunkRest"} \/ (pc = "free" /\ wire = Short("ok"))
    BY <1>1, <2>7 DEF Arriving, Short
  <2>8. QED
    BY <2>1, <2>3, <2>4, <2>5, <2>6, <2>7 DEF NInv, Arriving
<1>11. Due'
  BY <1>1 DEF NInv, Due, Awaiting
<1>12. Reading'
  <2>1. Reading
    BY DEF NInv
  <2>2. pc' \in TablePcs /\ trouble' # "curt" => Counted(counts)'
    <3>1. ASSUME Counted(counts) PROVE Counted(counts)'
      BY <1>1, <1>2, <1>3, <3>1 DEF Counted
    <3>2. QED
      BY <1>1, <2>1, <3>1 DEF Reading
  <2>3. pc \in {"chunk", "chunkRest", "free"} => Held(total)'
    <3>1. ASSUME Held(total), tab \in Kinds PROVE Held(total)'
      BY <1>1, <1>2, <1>3, <3>1 DEF Held
    <3>2. QED
      BY <1>8, <2>1, <3>1 DEF Reading, TablePcs
  <2>4. CASE pc = "rest"
    <3>1. PICK n \in 0..MaxRecs : \E m \in 0..(n - 1) :
            /\ Held(n) /\ data = Upto(0, m)
            /\ wire \in {<<>>, <<Rest(Upto(m, n))>>}
      BY <2>1, <2>4 DEF Reading
    <3>2. Held(n)'
      BY <1>6, <1>8, <2>4, <3>1 DEF TablePcs
    <3>3. QED
      BY <1>1, <2>2, <2>4, <3>1, <3>2 DEF Reading, Upto, Rest
  <2>5. CASE pc # "rest"
    BY <1>1, <2>1, <2>2, <2>3, <2>5 DEF Reading, Upto, Rest, ChunkEnd, ChunkSize
  <2>6. QED
    BY <2>4, <2>5
<1>13. Faultless'
  BY <1>1 DEF NInv, Faultless
<1>14. Returned'
  <2>1. SUFFICES ASSUME pc = "idle", result.k = "list"
                 PROVE  op \in Kinds /\ WholeTable'
    BY <1>1 DEF Returned
  <2>2. op \in Kinds /\ WholeTable
    BY <2>1 DEF NInv, Returned
  <2>3. mem[op] \in 0..MaxRecs /\ mem'[op] \in 0..MaxRecs /\ mem[op] <= mem'[op] /\ lo <= mem[op]
    BY <1>2, <1>3, <2>2 DEF Call
  <2>4. QED
    <3>1. CASE trouble = "curt"
      BY <1>1, <2>2, <3>1 DEF WholeTable
    <3>2. CASE result.data = <<>> /\ (lo = 0 \/ trouble # "none")
      BY <1>1, <2>2, <3>2 DEF WholeTable
    <3>3. CASE \E n \in lo..mem[op] : result.data = Upto(0, n)
      <4>1. PICK n \in lo..mem[op] : result.data = Upto(0, n)
        BY <3>3
      <4>2. n \in lo..mem'[op]
        BY <1>3, <2>3
      <4>3. QED
        BY <1>1, <2>2, <4>1, <4>2 DEF WholeTable, Upto
    <3>4. CASE wide = FALSE /\ mem[op] # lo
      <4>1. mem'[op] # lo /\ wide' = FALSE
        BY <1>1, <1>3, <2>3, <3>4
      <4>2. QED
        BY <1>1, <2>2, <4>1 DEF WholeTable
    <3>5. wide \in BOOLEAN
      BY <1>3 DEF NType, NTypeOK
    <3>6. QED
      BY <2>1, <2>2, <3>1, <3>2, <3>3, <3>4, <3>5 DEF WholeTable
<1>15. QED
  BY <1>4, <1>5, <1>9, <1>10, <1>11, <1>12, <1>13, <1>14 DEF NInv
LEMMA CutOfTwo ==
    ASSUME NEW x, NEW y
    PROVE  /\ SubSeq(<<x>>, 1, 0) = <<>> /\ SubSeq(<<x>>, 1, 1) = <<x>>
           /\ SubSeq(<<x, y>>, 1, 0) = <<>> /\ SubSeq(<<x, y>>, 1, 1) = <<x>>
           /\ SubSeq(<<x, y>>, 1, 2) = <<x, y>>
<1>1. /\ <<x>> \in Seq({x, y}) /\ Len(<<x>>) = 1
      /\ <<x, y>> \in Seq({x, y}) /\ Len(<<x, y>>) = 2
  OBVIOUS
<1>2. SubSeq(<<x>>, 1, 0) = <<>> /\ SubSeq(<<x, y>>, 1, 0) = <<>>
  BY SubSeqEmpty
<1>3. SubSeq(<<x>>, 1, 1) = <<x>> /\ SubSeq(<<x, y>>, 1, 2) = <<x, y>>
  <2>1. SubSeq(<<x>>, 1, Len(<<x>>)) = <<x>> /\ SubSeq(<<x, y>>, 1, Len(<<x, y>>)) = <<x, y>>
    BY <1>1, SubSeqFull
  <2>2. QED
    BY <1>1, <2>1
<1>4. SubSeq(<<x, y>>, 1, 1) = <<x>>
  <2> DEFINE c == SubSeq(<<x, y>>, 1, 1)
  <2>1. \A i \in 1..1 : <<x, y>>[i] \in {x, y}
    OBVIOUS
  <2>2. /\ c \in Seq({x, y}) /\ Len(c) = 1
        /\ \A i \in 1..1 : c[i] = <<x, y>>[i]
    BY <2>1, SubSeqProperties
  <2>3. c[1] = x
    BY <2>2
  <2> HIDE DEF c
  <2>4. \A i \in 1..Len(c) : c[i] = <<x>>[i]
    BY <2>2, <2>3
  <2>5. c = <<x>>
    BY <1>1, <2>2, <2>4, SeqEqual
  <2>6. QED
    BY <2>5 DEF c
<1>5. QED
  BY <1>2, <1>3, <1>4

\* A line that is cut short is still the start of the same answer.
LEMMA CutLine ==
    ASSUME NEW a \in Nat, NEW b \in Nat, NEW i \in 0..Len(wire),
           wire' = SubSeq(wire, 1, i), trouble' # "none", BulkLine(a, b), wire' # <<>>
    PROVE  BulkLine(a, b)'
<1>1. ASSUME NEW x, wire = <<x>>
      PROVE  wire' = <<x>>
  <2>1. i = 1 \/ i = 0
    BY <1>1
  <2>2. QED
    BY <1>1, <2>1, CutOfTwo
<1>2. ASSUME NEW x, NEW y, wire = <<x, y>>
      PROVE  wire' = <<x>> \/ wire' = <<x, y>>
  <2>1. i \in {0, 1, 2}
    BY <1>2
  <2>2. QED
    BY <1>2, <2>1, CutOfTwo
<1>3. CASE wire = <<Data(Upto(a, b), FALSE)>>
  BY <1>1, <1>3 DEF BulkLine, Data, Upto
<1>4. ASSUME NEW m \in a..(b - 1), wire = <<Data(Upto(a, m), TRUE), Rest(Upto(m, b))>>
      PROVE  BulkLine(a, b)'
  <2>1. \/ wire' = <<Data(Upto(a, m), TRUE)>>
        \/ wire' = <<Data(Upto(a, m), TRUE), Rest(Upto(m, b))>>
    BY <1>2, <1>4
  <2>2. QED
    BY <2>1 DEF BulkLine, Data, Rest, Upto
<1>5. ASSUME NEW m \in a..(b - 1), wire = <<Data(Upto(a, m), TRUE)>>
      PROVE  BulkLine(a, b)'
  <2>1. wire' = <<Data(Upto(a, m), TRUE)>>
    BY <1>1, <1>5
  <2>2. QED
    BY <2>1 DEF BulkLine, Data, Rest, Upto
<1>6. QED
  BY <1>3, <1>4, <1>5 DEF BulkLine

\* How long a line can be.
LEMMA LineLength == ASSUME NInv PROVE Len(wire) \in Nat
<1>1. CASE wire = <<>>
  BY <1>1
<1>2. ASSUME NEW x, wire = <<x>> PROVE Len(wire) \in Nat
  BY <1>2
<1>3. ASSUME NEW x, NEW y, wire = <<x, y>> PROVE Len(wire) \in Nat
  BY <1>3
<1>4. CASE BadLine \/ wire = Short("ok")
  BY <1>2, <1>4 DEF BadLine, Short
<1>5. ASSUME NEW a, NEW b, BulkLine(a, b) PROVE Len(wire) \in Nat
  BY <1>2, <1>3, <1>5 DEF BulkLine
<1>6. CASE pc \in {"rest", "chunkRest"}
  BY <1>1, <1>2, <1>6 DEF NInv, Reading
<1>7. CASE wire # <<>> /\ pc \notin {"rest", "chunkRest"}
  <2>1. \/ BadLine \/ wire = Short("ok")
        \/ \E c : wire = <<Sizes(c)>>
        \/ \E n : BulkLine(0, n) \/ wire = <<Announce(n)>>
        \/ BulkLine(start, ChunkEnd)
    BY <1>7 DEF NInv, Arriving
  <2>2. QED
    BY <1>2, <1>4, <1>5, <2>1
<1>8. QED
  BY <1>1, <1>6, <1>7

LEMMA FaultKeeps == ASSUME NInv, Fault PROVE NInv'
<1>1. /\ UNCHANGED <<mem, buffer, wl10, saved, configured, wide, op, pc, tab, counts, total, start,
                     tries, data, result, lo, calls, growth>>
      /\ asked' = NoReq /\ faults' \in Nat /\ faults' # 0
      /\ trouble' # "none" /\ trouble' \in {"lost", "curt"}
      /\ trouble' # "curt" => trouble # "curt"
      /\ link' \in {"up", "reset", "closed"}
  <2>1. faults \in Nat
    BY DEF NInv, NType
  <2>2. UNCHANGED <<mem, buffer, wl10, saved, configured, wide, op, pc, tab, counts, total, start,
                    tries, data, result, lo, calls, growth>>
    BY DEF Fault, terminal, reader
  <2>3. asked' = NoReq /\ faults' = faults + 1 /\ link' \in {"up", "reset", "closed"}
    BY DEF Fault
  <2>4. trouble' = "curt" \/ trouble' = Worse("lost")
    BY DEF Fault
  <2>5. Worse("lost") = IF trouble = "curt" THEN "curt" ELSE "lost"
    BY DEF Worse
  <2>6. QED
    BY <2>1, <2>2, <2>3, <2>4, <2>5
<1>2. \/ asked # NoReq /\ wire' \in {Short("refused"), <<>>}
      \/ asked # NoReq /\ wire' \in {Short("ok"), Short("bare")} /\ trouble' = "curt"
      \/ wire' = <<>>
      \/ /\ \E i \in 0..Len(wire) : wire' = SubSeq(wire, 1, i)
         /\ trouble' = Worse("lost")
  BY DEF Fault
<1>3. asked # NoReq => pc \in SizePcs \cup {"table", "chunk", "free"} /\ wire = <<>>
  BY DEF NInv, Asking
<1>4. \/ wire' = <<>>
      \/ BadLine' /\ asked # NoReq
      \/ \E i \in 0..Len(wire) : wire' = SubSeq(wire, 1, i)
  BY <1>1, <1>2 DEF BadLine
<1>5. NType'
  <2>1. /\ asked'.cmd = "none" /\ asked'.tab = "none"
        /\ asked'.from = 0 /\ asked'.size = 0
    BY <1>1 DEF NoReq
  <2>2. 0 \in 0..MaxRecs /\ 0 \in 0..MaxChunk /\ 0 + 0 \in 0..MaxRecs
    BY NativeAssumption
  <2>3. NType
    BY DEF NInv
  <2>4. /\ mem' \in [Kinds -> 0..MaxRecs] /\ link' \in {"up", "reset", "closed"}
        /\ buffer'.tab \in Kinds \cup {"none"} /\ buffer'.n \in 0..MaxRecs
        /\ counts' \in [Kinds -> 0..MaxRecs] /\ lo' \in 0..MaxRecs
        /\ op' \in NativeOps \cup {"none"} /\ tab' \in Kinds \cup {"sizes", "none"}
        /\ pc' \in Places /\ trouble' \in {"none", "lost", "curt"}
        /\ total' \in 0..MaxRecs /\ start' \in 0..MaxRecs /\ tries' \in 1..Tries
        /\ data' \in Records /\ faults' \in Nat
        /\ result'.k \in {"none", "ok", "list", "error"} /\ result'.data \in Records
    BY <1>1, <2>3 DEF NType, NTypeOK, Places
  <2>5. wl10' \in BOOLEAN /\ saved' \in BOOLEAN /\ configured' \in BOOLEAN /\ wide' \in BOOLEAN
    BY <1>1, <2>3 DEF NType, NTypeOK
  <2>6. Len(wire') <= 2
    <3>1. Len(wire) <= 2 /\ Len(wire) \in Nat
      BY <2>3, LineLength DEF NInv, NType, NTypeOK
    <3>2. CASE wire' = <<>>
      BY <3>2
    <3>3. CASE BadLine'
      <4>1. wire' \in {Short("refused"), Short("ok"), Short("bare")}
        BY <3>3 DEF BadLine
      <4>2. \A k : Len(Short(k)) = 1
        BY DEF Short
      <4>3. QED
        BY <4>1, <4>2
    <3>4. CASE \E i \in 0..Len(wire) : wire' = SubSeq(wire, 1, i)
      <4>1. PICK i \in 0..Len(wire) : wire' = SubSeq(wire, 1, i)
        BY <3>4
      <4>2. i \in 0..2
        BY <3>1
      <4>3. \A j \in 1..i : wire[j] \in {wire[k] : k \in 1..i}
        OBVIOUS
      <4>4. Len(SubSeq(wire, 1, i)) = IF 1 <= i THEN i - 1 + 1 ELSE 0
        BY <4>2, <4>3, SubSeqProperties
      <4>5. QED
        BY <4>1, <4>2, <4>4
    <3>5. QED
      BY <1>4, <3>2, <3>3, <3>4
  <2>7. QED
    BY <2>1, <2>2, <2>4, <2>5, <2>6 DEF NType, NTypeOK, Places, Records
<1>6. Call'
  BY <1>1 DEF NInv, Call
<1>7. Asking' /\ Due'
  BY <1>1 DEF Asking, Due
<1>8. ASSUME wire' # <<>>, NEW x, wire = <<x>>, asked = NoReq
      PROVE  wire' = wire
  <2>1. PICK i \in 0..Len(wire) : wire' = SubSeq(wire, 1, i)
    BY <1>2, <1>8
  <2>2. i = 0 \/ i = 1
    BY <1>8, <2>1
  <2>3. QED
    BY <1>8, <2>1, <2>2, CutOfTwo
<1>9. Arriving'
  <2>1. CASE wire' = <<>>
    BY <2>1 DEF Arriving
  <2>2. CASE BadLine' /\ asked # NoReq
    BY <1>1, <1>3, <2>2 DEF Arriving
  <2>3. ASSUME wire' # <<>>, asked = NoReq, NEW i \in 0..Len(wire), wire' = SubSeq(wire, 1, i)
        PROVE  Arriving'
    <3>1. wire # <<>>
      <4>1. SUFFICES ASSUME wire = <<>> PROVE FALSE
        OBVIOUS
      <4>2. i = 0
        BY <2>3, <4>1
      <4>3. QED
        BY <2>3, <4>2, SubSeqEmpty
    <3>2. CASE pc \in SizePcs \cup {"table", "chunk", "free"} /\ BadLine
      <4>1. \E x : wire = <<x>>
        BY <3>2 DEF BadLine, Short
      <4>2. wire' = wire
        BY <1>8, <2>3, <4>1
      <4>3. BadLine'
        BY <1>1, <3>2, <4>2 DEF BadLine, Short
      <4>4. QED
        BY <1>1, <3>2, <4>3 DEF Arriving
    <3>3. CASE pc \in SizePcs /\ \E c \in [Kinds -> 0..MaxRecs] : Counted(c) /\ wire = <<Sizes(c)>>
      <4>1. PICK c \in [Kinds -> 0..MaxRecs] : Counted(c) /\ wire = <<Sizes(c)>>
        BY <3>3
      <4>2. wire' = <<Sizes(c)>>
        BY <1>8, <2>3, <4>1
      <4>3. Counted(c)'
        BY <1>1, <4>1 DEF Counted
      <4>4. QED
        BY <1>1, <3>3, <4>2, <4>3 DEF Arriving, Sizes
    <3>4. CASE /\ pc = "table"
               /\ \E n \in 0..MaxRecs : Held(n) /\ (BulkLine(0, n) \/ wire = <<Announce(n)>>)
      <4>1. PICK n \in 0..MaxRecs : Held(n) /\ (BulkLine(0, n) \/ wire = <<Announce(n)>>)
        BY <3>4
      <4>2. Held(n)'
        BY <1>1, <4>1 DEF Held
      <4>3. CASE wire = <<Announce(n)>>
        <5>1. wire' = <<Announce(n)>>
          BY <1>8, <2>3, <4>3
        <5>2. QED
          BY <1>1, <3>4, <4>2, <5>1 DEF Arriving, Announce
      <4>4. CASE BulkLine(0, n)
        <5>1. BulkLine(0, n)'
          BY <1>1, <2>3, <4>4, CutLine
        <5>2. QED
          BY <1>1, <3>4, <4>2, <5>1 DEF Arriving
      <4>5. QED
        BY <4>1, <4>3, <4>4
    <3>5. CASE pc = "chunk" /\ BulkLine(start, ChunkEnd)
      <4>1. PICK a \in Nat, b \in Nat : a = start /\ b = ChunkEnd
        BY <3>5, ChunkFacts
      <4>2. BulkLine(a, b)
        BY <3>5, <4>1
      <4>3. BulkLine(a, b)'
        BY <1>1, <2>3, <4>2, CutLine
      <4>4. a = start' /\ b = ChunkEnd'
        BY <1>1, <4>1 DEF ChunkEnd, ChunkSize
      <4>5. BulkLine(start, ChunkEnd)'
        BY <4>3, <4>4 DEF BulkLine, Data, Rest, Upto
      <4>6. QED
        BY <1>1, <3>5, <4>5 DEF Arriving
    <3>6. CASE pc \in {"rest", "chunkRest"}
      BY <1>1, <3>6 DEF Arriving
    <3>7. CASE pc = "free" /\ wire = Short("ok")
      <4>1. \E x : wire = <<x>>
        BY <3>7 DEF Short
      <4>2. wire' = wire
        BY <1>8, <2>3, <4>1
      <4>3. QED
        BY <1>1, <3>7, <4>2 DEF Arriving, Short
    <3>8. QED
      BY <3>1, <3>2, <3>3, <3>4, <3>5, <3>6, <3>7 DEF NInv, Arriving
  <2>4. ASSUME asked # NoReq, NEW i \in 0..Len(wire), wire' = SubSeq(wire, 1, i)
        PROVE  Arriving'
    <3>1. wire = <<>> /\ i = 0
      <4>1. wire = <<>>
        BY <1>3, <2>4
      <4>2. QED
        BY <2>4, <4>1
    <3>2. wire' = <<>>
      BY <2>4, <3>1, SubSeqEmpty
    <3>3. QED
      BY <2>1, <3>2
  <2>5. QED
    BY <1>4, <2>1, <2>2, <2>3, <2>4
<1>13. Reading'
  <2>1. Reading
    BY DEF NInv
  <2>2. pc' \in TablePcs /\ trouble' # "curt" => Counted(counts)'
    BY <1>1, <2>1 DEF Reading, Counted
  <2>3. pc \in {"rest", "chunkRest"} => wire' = <<>> \/ wire' = wire
    <3>1. SUFFICES ASSUME pc \in {"rest", "chunkRest"}, wire' # <<>> PROVE wire' = wire
      OBVIOUS
    <3>2. asked = NoReq
      BY <1>3, <3>1 DEF SizePcs
    <3>3. wire = <<>> \/ \E x : wire = <<x>>
      BY <2>1, <3>1 DEF Reading
    <3>4. CASE wire = <<>>
      <4>1. Len(wire) = 0
        BY <3>4
      <4>2. ASSUME NEW i \in 0..Len(wire), wire' = SubSeq(wire, 1, i) PROVE wire' = <<>>
        <5>1. i = 0
          BY <4>1
        <5>2. QED
          BY <4>2, <5>1, SubSeqEmpty
      <4>3. QED
        BY <1>2, <3>1, <3>2, <4>2
    <3>5. QED
      BY <1>8, <3>1, <3>2, <3>3, <3>4
  <2>4. CASE pc = "rest"
    <3>1. PICK n \in 0..MaxRecs : \E m \in 0..(n - 1) :
            /\ Held(n) /\ data = Upto(0, m)
            /\ wire \in {<<>>, <<Rest(Upto(m, n))>>}
      BY <2>1, <2>4 DEF Reading
    <3>2. PICK m \in 0..(n - 1) :
            /\ Held(n) /\ data = Upto(0, m)
            /\ wire \in {<<>>, <<Rest(Upto(m, n))>>}
      BY <3>1
    <3>3. Held(n)' /\ wire' \in {<<>>, <<Rest(Upto(m, n))>>}
      <4>1. Held(n)'
        BY <1>1, <3>2 DEF Held
      <4>2. wire' \in {<<>>, <<Rest(Upto(m, n))>>}
        BY <2>3, <2>4, <3>2
      <4>3. QED
        BY <4>1, <4>2
    <3>4. QED
      BY <1>1, <2>2, <2>4, <3>2, <3>3 DEF Reading, Upto, Rest
  <2>5. CASE pc = "chunkRest"
    <3>1. PICK e : e = ChunkEnd /\ e = ChunkEnd'
      BY <1>1 DEF ChunkEnd, ChunkSize
    <3>2. PICK m \in start..(e - 1) :
            /\ trouble # "curt" => data = Upto(0, m)
            /\ wire \in {<<>>, <<Rest(Upto(m, e))>>}
      BY <2>1, <2>5, <3>1 DEF Reading
    <3>3. wire' \in {<<>>, <<Rest(Upto(m, e))>>}
      BY <2>3, <2>5, <3>2
    <3>4. Held(total)' /\ start' < total'
      BY <1>1, <2>1, <2>5 DEF Reading, Held
    <3>5. \E q \in start'..(ChunkEnd' - 1) :
            /\ trouble' # "curt" => data' = Upto(0, q)
            /\ wire' \in {<<>>, <<Rest(Upto(q, ChunkEnd'))>>}
      BY <1>1, <3>1, <3>2, <3>3
    <3>6. QED
      BY <1>1, <2>2, <2>5, <3>4, <3>5 DEF Reading, Upto, Rest
  <2>6. CASE pc \notin {"rest", "chunkRest"}
    BY <1>1, <2>1, <2>2, <2>6 DEF Reading, Held, Upto
  <2>7. QED
    BY <2>4, <2>5, <2>6
<1>10. Faultless'
  BY <1>1 DEF Faultless
<1>11. Returned'
  <2>1. SUFFICES ASSUME pc = "idle", result.k = "list"
                 PROVE  op \in Kinds /\ WholeTable'
    BY <1>1 DEF Returned
  <2>2. op \in Kinds /\ WholeTable
    BY <2>1 DEF NInv, Returned
  <2>3. CASE trouble' = "curt"
    BY <2>2, <2>3 DEF WholeTable
  <2>4. CASE trouble' # "curt"
    <3>1. \/ result.data = <<>> /\ (lo = 0 \/ trouble # "none")
          \/ \E n \in lo..mem[op] : result.data = Upto(0, n)
          \/ ~wide /\ mem[op] # lo
      BY <1>1, <2>1, <2>2, <2>4 DEF WholeTable
    <3>2. \/ result'.data = <<>> /\ (lo' = 0 \/ trouble' # "none")
          \/ \E n \in lo'..mem'[op'] : result'.data = Upto(0, n)
          \/ ~wide' /\ mem'[op'] # lo'
      BY <1>1, <3>1
    <3>3. QED
      BY <2>2, <3>2 DEF WholeTable, Upto
  <2>5. QED
    BY <2>3, <2>4
<1>12. QED
  BY <1>5, <1>6, <1>7, <1>9, <1>10, <1>11, <1>13 DEF NInv
-----------------------------------------------------------------------------
(* The theorems.                                                           *)

LEMMA NInitial == NInit => NInv
<1> SUFFICES ASSUME NInit PROVE NInv
  OBVIOUS
<1> USE DEF NInit
<1>1. NType
  <2>1. /\ 0 \in 0..MaxRecs /\ 0 \in 0..MaxChunk /\ 0 + 0 \in 0..MaxRecs /\ 1 \in 1..Tries
    BY NativeAssumption
  <2>2. <<>> \in Records /\ Len(wire) <= 2
    BY EmptySeq DEF Records
  <2>3. wl10 \in BOOLEAN /\ saved \in BOOLEAN /\ configured \in BOOLEAN /\ wide \in BOOLEAN
    OBVIOUS
  <2>4. /\ asked.cmd = "none" /\ asked.tab = "none" /\ asked.from = 0 /\ asked.size = 0
        /\ buffer.tab = "none" /\ buffer.n = 0
        /\ result.k = "none" /\ result.data = <<>>
        /\ counts \in [Kinds -> 0..MaxRecs]
    BY <2>1 DEF NoReq, NoBuffer, Nothing
  <2>5. QED
    BY <2>1, <2>2, <2>3, <2>4 DEF NType, NTypeOK
<1>2. Call /\ Asking /\ Arriving
  BY DEF Call, Asking, Arriving, Kinds, TablePcs, SizePcs
<1>3. Due /\ Reading
  BY DEF Due, Awaiting, Reading, TablePcs
<1>4. Faultless /\ Returned
  BY DEF Faultless, Returned, Nothing
<1>5. QED
  BY <1>1, <1>2, <1>3, <1>4 DEF NInv

LEMMA NStutters == ASSUME NInv, UNCHANGED nvars PROVE NInv'
<1>1. UNCHANGED <<mem, buffer, link, asked, wire, wl10, saved, configured, wide, op, pc, tab, counts,
                  total, start, tries, data, result, lo, trouble, calls, growth, faults>>
  BY DEF nvars, terminal, conn, reader, bounds
<1>2. NType' /\ Call'
  BY <1>1 DEF NInv, NType, NTypeOK, Call
<1>3. Asking' /\ Arriving'
  BY <1>1 DEF NInv, Asking, Arriving, BadLine, BulkLine, Held, Counted, Data, Rest, Sizes,
              Announce, Short, Upto, ChunkEnd, ChunkSize
<1>4. Due' /\ Reading'
  BY <1>1 DEF NInv, Due, Awaiting, Reading, Held, Counted, Rest, Upto, ChunkEnd, ChunkSize
<1>5. Faultless' /\ Returned'
  BY <1>1 DEF NInv, Faultless, Returned, WholeTable, Upto
<1>6. QED
  BY <1>2, <1>3, <1>4, <1>5 DEF NInv

LEMMA NativeInvariant == NSpec => []NInv
<1>1. NInv /\ [NNext]_nvars => NInv'
  BY StartKeeps, RawReadKeeps, RecvKeeps, RecvFailsKeeps, ServeKeeps, GrowKeeps, FaultKeeps,
     NStutters DEF NNext, ClientStep
<1>2. QED
  BY <1>1, NInitial, PTL DEF NSpec

\* The types of a call and of the terminal it talks to (read_sizes, get_users,
\* get_templates, get_attendance).
THEOREM NativeTyped == NSpec => []NTypeOK
<1>1. NInv => NTypeOK
  BY DEF NInv, NType
<1>2. QED
  BY <1>1, NativeInvariant, PTL

\* A list that a read returns is one state of the terminal's table, whole and in
\* order, wherever it was cut into chunks and pieces and whatever was lost, as
\* WholeTable says it (read_with_buffer, __read_chunk).
THEOREM ListsAreWhole == NSpec => []WholeTable
<1>1. NInv => WholeTable
  BY DEF NInv, Returned, WholeTable
<1>2. QED
  BY <1>1, NativeInvariant, PTL

\* Without a fault no call fails, leaves a table announced, or leaves the mode
\* of a WL10 terminal cleared (free_data, get_attendance).
THEOREM CleanUnlessFault == NSpec => []CleanWithoutFault
<1>1. NInv => CleanWithoutFault
  BY DEF NInv, Faultless, CleanWithoutFault
<1>2. QED
  BY <1>1, NativeInvariant, PTL
=============================================================================
