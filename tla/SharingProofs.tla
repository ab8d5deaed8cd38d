---------------------------- MODULE SharingProofs ----------------------------
(****************************************************************************)
(* Proofs about Sharing, for any visitors, limits, file and chunk size.     *)
(* Nobody is on the way before the link is made, so the count it begins     *)
(* with is right; from then on each visitor on the way to a stream has been *)
(* counted, and each one admitted was so below the limit.                   *)
(****************************************************************************)
EXTENDS Sharing, FiniteSetTheorems, SequenceTheorems, TLAPS

(* Visitors who were counted and whose stream is not open yet.              *)
Ready == {v \in Visitors : stage[v] \in {"loaded", "opened"}}

GateInv ==
    /\ \A d \in Downloads : stage[d] \in {"resolved", "named"} => d \in Visitors
    /\ owner = "creating" => link = "none"
    /\ link = "none" =>
          /\ limit = Unlimited /\ ~revoked /\ ~expired
          /\ count = 0 /\ opened = 0 /\ Admitted = {} /\ Ready = {}
    /\ link = "live" => opened + Cardinality(Ready) <= count
    /\ limit # Unlimited => count + Cardinality(Admitted) < limit + Cardinality(Visitors)

IInv == TypeOK /\ GateInv

-----------------------------------------------------------------------------
(* Ranges.                                                                  *)

LEMMA ClampExact ==
    ASSUME NEW start \in Int, NEW end \in Int, NEW n \in Nat, start >= 0
    PROVE  LET r == Clamp(start, end, n) IN
           /\ r \in ByteRange
           /\ r.start .. r.end = {b \in 0 .. (n - 1) : start <= b /\ b <= end}
<1> DEFINE last == IF end >= n THEN n - 1 ELSE end
<1>1. last \in Int
  OBVIOUS
<1>2. CASE start > last \/ start >= n
  <2>1. Clamp(start, end, n) = [start |-> 0, end |-> -1]
    BY <1>2 DEF Clamp, NoRange
  <2>2. \A b \in 0 .. (n - 1) : ~(start <= b /\ b <= end)
    BY <1>2
  <2> QED BY <2>1, <2>2 DEF ByteRange
<1>3. CASE ~(start > last \/ start >= n)
  <2>1. Clamp(start, end, n) = [start |-> start, end |-> last]
    BY <1>3 DEF Clamp
  <2>2. start .. last = {b \in 0 .. (n - 1) : start <= b /\ b <= end}
    BY <1>1, <1>3
  <2> QED BY <1>1, <2>1, <2>2 DEF ByteRange
<1> QED BY <1>2, <1>3

LEMMA ParseExact ==
    ASSUME NEW a, IsAsk(a), a # Whole, NEW n \in Nat
    PROVE  LET r == ParseRange(a, n) IN r \in ByteRange /\ r.start .. r.end = Wanted(a, n)
<1>0. NoRange \in ByteRange /\ NoRange.start .. NoRange.end = {}
  BY DEF NoRange, ByteRange
<1>1. CASE a = Malformed
  <2>1. a.form = "malformed"
    BY <1>1 DEF Malformed
  <2> QED BY <1>0, <2>1 DEF ParseRange, Wanted
<1>2. CASE a.form = "span" /\ a.from \in Nat /\ a.to \in Nat
  <2>1. ParseRange(a, n) = Clamp(a.from, a.to, n)
    BY <1>2 DEF ParseRange
  <2>2. Wanted(a, n) = {b \in 0 .. (n - 1) : a.from <= b /\ b <= a.to}
    BY <1>2 DEF Wanted
  <2> QED BY <1>2, <2>1, <2>2, ClampExact
<1>3. CASE a.form = "from" /\ a.from \in Nat
  <2>1. ParseRange(a, n) = Clamp(a.from, n - 1, n)
    BY <1>3 DEF ParseRange
  <2>2. Wanted(a, n) = {b \in 0 .. (n - 1) : a.from <= b /\ b <= n - 1}
    BY <1>3 DEF Wanted
  <2>3. n - 1 \in Int /\ a.from \in Int /\ a.from >= 0
    BY <1>3
  <2> QED BY <2>1, <2>2, <2>3, ClampExact
<1>4. CASE a.form = "suffix" /\ a.n \in Nat /\ a.n <= 0
  <2>1. ParseRange(a, n) = NoRange
    BY <1>4 DEF ParseRange
  <2>2. Wanted(a, n) = {b \in 0 .. (n - 1) : b >= n - a.n}
    BY <1>4 DEF Wanted
  <2>3. a.n = 0
    BY <1>4
  <2>4. Wanted(a, n) = {}
    BY <2>2, <2>3
  <2> QED BY <1>0, <2>1, <2>4
<1>5. CASE a.form = "suffix" /\ a.n \in Nat /\ ~(a.n <= 0)
  <2>1. ParseRange(a, n) = Clamp(SuffixStart(a.n, n), n - 1, n)
    BY <1>5 DEF ParseRange
  <2>2. Wanted(a, n) = {b \in 0 .. (n - 1) : b >= n - a.n}
    BY <1>5 DEF Wanted
  <2>3. n - 1 \in Int /\ SuffixStart(a.n, n) \in Int /\ SuffixStart(a.n, n) >= 0
    BY <1>5 DEF SuffixStart
  <2>4. Wanted(a, n) = {b \in 0 .. (n - 1) : SuffixStart(a.n, n) <= b /\ b <= n - 1}
    BY <1>5, <2>2 DEF SuffixStart
  <2> QED BY <2>1, <2>3, <2>4, ClampExact
<1> QED BY <1>1, <1>2, <1>3, <1>4, <1>5 DEF IsAsk

(* A range that was not refused lies in the file.                           *)
LEMMA RangeFacts ==
    ASSUME NEW a, IsAsk(a), a # Whole, NEW n \in Nat, ParseRange(a, n) # NoRange
    PROVE  LET r == ParseRange(a, n) IN
           r.start \in Nat /\ r.end \in Nat /\ r.start <= r.end /\ r.end < n
<1>1. ASSUME NEW s \in Nat, NEW e \in Int, Clamp(s, e, n) # NoRange
      PROVE  LET r == Clamp(s, e, n) IN
             r.start \in Nat /\ r.end \in Nat /\ r.start <= r.end /\ r.end < n
  BY <1>1 DEF Clamp
<1>2. PICK s \in Nat, e \in Int : ParseRange(a, n) = Clamp(s, e, n)
  <2>1. CASE a = Malformed
    BY <2>1 DEF ParseRange, Malformed
  <2>2. CASE a.form = "span" /\ a.from \in Nat /\ a.to \in Nat
    BY <2>2 DEF ParseRange
  <2>3. CASE a.form = "from" /\ a.from \in Nat
    BY <2>3 DEF ParseRange
  <2>4. CASE a.form = "suffix" /\ a.n \in Nat
    <3>1. SuffixStart(a.n, n) \in Nat /\ n - 1 \in Int
      BY <2>4 DEF SuffixStart
    <3>2. ParseRange(a, n) = Clamp(SuffixStart(a.n, n), n - 1, n)
      BY <2>4 DEF ParseRange
    <3> QED BY <3>1, <3>2
  <2> QED BY <2>1, <2>2, <2>3, <2>4 DEF IsAsk
<1> QED BY <1>1, <1>2

LEMMA ChunkFacts ==
    ASSUME NEW n \in Nat
    PROVE  /\ ChunkCount(n) \in Nat
           /\ \A b \in Int : IndexOf(b) \in Int /\ OffsetOf(b) \in Int
           /\ \A i \in Int : ChunkLength(n, i) \in Int
<1> USE ChunkSizeAssumption
<1>1. (-n) \div ChunkSize \in Int /\ (-n) \div ChunkSize <= 0
  OBVIOUS
<1>2. ChunkCount(n) \in Nat
  BY <1>1 DEF ChunkCount
<1>3. \A b \in Int : IndexOf(b) \in Int /\ OffsetOf(b) \in Int
  BY DEF IndexOf, OffsetOf
<1>4. \A i \in Int : i * ChunkSize \in Int
  OBVIOUS
<1>5. \A i \in Int : ChunkLength(n, i) \in Int
  BY <1>4 DEF ChunkLength
<1> QED BY <1>2, <1>3, <1>5

-----------------------------------------------------------------------------
(* Types.                                                                   *)

LEMMA TypeInit == Init => TypeOK
  <1> SUFFICES ASSUME Init PROVE TypeOK
    OBVIOUS
  <1>1. DownloadTypeOK
    <2>1. NoRange \in ByteRange /\ AtStart \in Cursor /\ IsAsk(Whole)
      BY DEF NoRange, ByteRange, AtStart, Cursor, IsAsk
    <2> QED BY <2>1 DEF Init, DownloadInit, DownloadTypeOK, Stages
  <1> QED BY <1>1 DEF Init, TypeOK

(* A step of one download that has no stream yet, or has none any more.     *)
LEMMA MoveType ==
    ASSUME DownloadTypeOK, NEW d \in Downloads, NEW to \in Stages,
           stage' = [stage EXCEPT ![d] = to], UNCHANGED <<fileVars, ask, streamVars>>
    PROVE  DownloadTypeOK'
  BY DEF DownloadTypeOK, fileVars, streamVars

LEMMA AskType ==
    ASSUME DownloadTypeOK, NEW d \in Downloads, NEW to \in Stages, NEW a, IsAsk(a),
           stage' = [stage EXCEPT ![d] = to], ask' = [ask EXCEPT ![d] = a],
           UNCHANGED <<fileVars, streamVars>>
    PROVE  DownloadTypeOK'
<1>1. DOMAIN ask' = Downloads /\ \A e \in Downloads : IsAsk(ask'[e])
  BY DEF DownloadTypeOK
<1>2. stage' \in [Downloads -> Stages]
  BY DEF DownloadTypeOK
<1> QED BY <1>1, <1>2 DEF DownloadTypeOK, fileVars, streamVars

LEMMA ListType ==
    ASSUME DownloadTypeOK, NEW d \in Downloads, ListWhole(d) \/ ListRange(d)
    PROVE  DownloadTypeOK'
<1>1. size \in Nat
  BY DownloadAssumption DEF DownloadTypeOK
<1>2. ChunkRows \in Nat
  BY <1>1, ChunkFacts DEF ChunkRows
<1>3. "streaming" \in Stages
  BY DEF Stages
<1>4. CASE ListWhole(d)
  <2>1. AtStart \in Cursor
    BY DEF AtStart, Cursor
  <2> QED BY <1>2, <1>3, <1>4, <2>1 DEF ListWhole, Move, DownloadTypeOK, fileVars
<1>5. CASE ListRange(d)
  <2> DEFINE r == ParseRange(ask[d], size)
  <2>1. ask[d] # Whole /\ IsAsk(ask[d])
    BY <1>5 DEF ListRange, DownloadTypeOK
  <2>2. r \in ByteRange
    BY <1>1, <2>1, ParseExact
  <2>3. /\ stage' = [stage EXCEPT ![d] = "streaming"] /\ range' = [range EXCEPT ![d] = r]
        /\ cursor' = [cursor EXCEPT ![d] = StartOf(r)]
        /\ list' = [list EXCEPT ![d] = ChunkRows]
        /\ UNCHANGED <<fileVars, ask, out>>
    BY <1>5 DEF ListRange, Move
  <2> HIDE DEF r
  <2>4. StartOf(r) \in Cursor
    <3>1. r.start \in Int /\ r.end \in Int
      BY <2>2 DEF ByteRange
    <3>2. IndexOf(r.start) \in Int /\ OffsetOf(r.start) \in Int
      BY <1>1, <3>1, ChunkFacts
    <3> QED BY <3>1, <3>2 DEF StartOf, Cursor
  <2> QED BY <1>2, <1>3, <2>2, <2>3, <2>4 DEF DownloadTypeOK, fileVars
<1> QED BY <1>4, <1>5

LEMMA BytesType == ASSUME NEW b \in Int, NEW n \in Int PROVE Bytes(b, n) \in Seq(Int)
<1>1. CASE n >= 0
  <2>1. Bytes(b, n) \in [1 .. n -> Int]
    BY DEF Bytes
  <2> QED BY <1>1, <2>1
<1>2. CASE n < 0
  <2>1. 1 .. n = 1 .. 0
    BY <1>2
  <2>2. Bytes(b, n) \in [1 .. 0 -> Int]
    BY <2>1 DEF Bytes
  <2> QED BY <2>2
<1> QED BY <1>1, <1>2

LEMMA PastType ==
    ASSUME NEW c \in Cursor, NEW n \in Int
    PROVE  /\ Past(c, n) \in Cursor
           /\ Past(c, n).skip = c.skip /\ Past(c, n).remaining = c.remaining
<1>1. CASE c.at + n = ChunkLength(size, c.index)
  <2>1. Past(c, n) = [c EXCEPT !.index = @ + 1, !.at = 0]
    BY <1>1 DEF Past
  <2>2. c.index + 1 \in Int /\ c.skip \in Int /\ c.remaining \in Int
    BY DEF Cursor
  <2>3. Past(c, n) = [index |-> c.index + 1, at |-> 0, skip |-> c.skip,
                      remaining |-> c.remaining]
    BY <2>1 DEF Cursor
  <2> QED BY <2>2, <2>3 DEF Cursor
<1>2. CASE c.at + n # ChunkLength(size, c.index)
  <2>1. Past(c, n) = [c EXCEPT !.at = @ + n]
    BY <1>2 DEF Past
  <2>2. c.at + n \in Int /\ c.index \in Int /\ c.skip \in Int /\ c.remaining \in Int
    BY DEF Cursor
  <2>3. /\ Past(c, n) = [index |-> c.index, at |-> c.at + n, skip |-> c.skip,
                         remaining |-> c.remaining]
    BY <2>1 DEF Cursor
  <2> QED BY <2>2, <2>3 DEF Cursor
<1> QED BY <1>1, <1>2

(* What a piece of a range does to its stream, with the two ways in which   *)
(* the cursor goes on put into one.                                         *)
LEMMA SentCases ==
    ASSUME DownloadTypeOK, NEW d \in Downloads, NEW n \in Int, PieceSent(d, n)
    PROVE  LET c == cursor[d]
               first == Position(c) + c.skip
           IN  /\ UNCHANGED <<fileVars, ask, list, range>>
               /\ c \in Cursor /\ n > c.skip /\ first \in Int
               /\ \/ /\ n - c.skip >= c.remaining
                     /\ out' = [out EXCEPT ![d] = @ \o Bytes(first, c.remaining)]
                     /\ stage' = [stage EXCEPT ![d] = "done"] /\ cursor' = cursor
                  \/ /\ n - c.skip < c.remaining
                     /\ out' = [out EXCEPT ![d] = @ \o Bytes(first, n - c.skip)]
                     /\ cursor' = [cursor EXCEPT ![d] =
                           [Past(c, n) EXCEPT !.skip = 0, !.remaining = @ - (n - c.skip)]]
                     /\ stage' = stage
<1>1. cursor[d] \in Cursor
  BY DEF DownloadTypeOK
<1>2. Position(cursor[d]) \in Int
  BY <1>1, ChunkSizeAssumption DEF Position, Cursor
<1>3. Position(cursor[d]) + cursor[d].skip \in Int
  BY <1>1, <1>2 DEF Cursor
<1>4. n - cursor[d].skip \in Int /\ cursor[d].remaining \in Int
  BY <1>1 DEF Cursor
<1>5. n - cursor[d].skip < cursor[d].remaining <=> ~(n - cursor[d].skip >= cursor[d].remaining)
  BY <1>4
<1> QED BY <1>1, <1>3, <1>5 DEF PieceSent

LEMMA PieceType ==
    ASSUME DownloadTypeOK, NEW d \in Downloads, NEW n \in Int,
           PieceWhole(d, n) \/ PieceSkipped(d, n) \/ PieceSent(d, n)
    PROVE  DownloadTypeOK'
<1> DEFINE c == cursor[d]
<1>1. /\ c \in Cursor /\ out[d] \in Seq(Int) /\ "done" \in Stages
      /\ c.skip \in Int /\ c.remaining \in Int
  BY DEF DownloadTypeOK, Cursor, Stages
<1>2. Position(c) \in Int
  BY <1>1, ChunkSizeAssumption DEF Position, Cursor
<1> HIDE DEF c
<1>3. CASE PieceWhole(d, n)
  <2>1. /\ out' = [out EXCEPT ![d] = @ \o Bytes(Position(c), n)]
        /\ cursor' = [cursor EXCEPT ![d] = Past(c, n)]
        /\ UNCHANGED <<fileVars, stage, ask, list, range>>
    BY <1>3 DEF PieceWhole, c
  <2>2. Bytes(Position(c), n) \in Seq(Int) /\ Past(c, n) \in Cursor
    BY <1>1, <1>2, BytesType, PastType
  <2>3. out[d] \o Bytes(Position(c), n) \in Seq(Int)
    BY <1>1, <2>2
  <2> QED BY <2>1, <2>2, <2>3 DEF DownloadTypeOK, fileVars
<1>4. CASE PieceSkipped(d, n)
  <2> DEFINE next == [Past(c, n) EXCEPT !.skip = @ - n]
  <2>1. /\ cursor' = [cursor EXCEPT ![d] = next]
        /\ UNCHANGED <<fileVars, stage, ask, list, range, out>>
    BY <1>4 DEF PieceSkipped, c
  <2>2. next \in Cursor
    BY <1>1, PastType, SMTT(30) DEF Cursor
  <2> HIDE DEF next
  <2> QED BY <2>1, <2>2 DEF DownloadTypeOK, fileVars
<1>5. CASE PieceSent(d, n)
  <2> DEFINE first == Position(c) + c.skip
             next == [Past(c, n) EXCEPT !.skip = 0, !.remaining = @ - (n - c.skip)]
  <2>1. first \in Int /\ n - c.skip \in Int
    BY <1>1, <1>2
  <2>2. next \in Cursor
    <3>1. Past(c, n) \in Cursor /\ Past(c, n).remaining = c.remaining
      BY <1>1, PastType
    <3>2. Past(c, n).remaining - (n - c.skip) \in Int
      BY <1>1, <2>1, <3>1
    <3>3. PICK k \in Cursor : k = Past(c, n)
      BY <3>1
    <3>4. PICK m \in Int : m = k.remaining - (n - c.skip)
      BY <3>2, <3>3
    <3>5. next = [k EXCEPT !.skip = 0, !.remaining = m]
      BY <3>3, <3>4
    <3> HIDE DEF next
    <3>6. k.index \in Int /\ k.at \in Int
      BY DEF Cursor
    <3>7. next = [index |-> k.index, at |-> k.at, skip |-> 0, remaining |-> m]
      BY <3>5 DEF Cursor
    <3> QED BY <3>6, <3>7 DEF Cursor
  <2>3. /\ out[d] \o Bytes(first, c.remaining) \in Seq(Int)
        /\ out[d] \o Bytes(first, n - c.skip) \in Seq(Int)
    <3>1. Bytes(first, c.remaining) \in Seq(Int) /\ Bytes(first, n - c.skip) \in Seq(Int)
      BY <1>1, <2>1, BytesType
    <3> QED BY <1>1, <3>1
  <2>4. /\ UNCHANGED <<fileVars, ask, list, range>>
        /\ \/ /\ out' = [out EXCEPT ![d] = @ \o Bytes(first, c.remaining)]
              /\ stage' = [stage EXCEPT ![d] = "done"] /\ cursor' = cursor
           \/ /\ out' = [out EXCEPT ![d] = @ \o Bytes(first, n - c.skip)]
              /\ cursor' = [cursor EXCEPT ![d] = next]
              /\ stage' = stage
    BY <1>5, SentCases DEF c
  <2> HIDE DEF first, next
  <2>5. out' \in [Downloads -> Seq(Int)]
    BY <1>1, <2>3, <2>4 DEF DownloadTypeOK
  <2>6. stage' \in [Downloads -> Stages]
    BY <2>4, Zenon DEF DownloadTypeOK, Stages
  <2>7. cursor' \in [Downloads -> Cursor]
    BY <2>2, <2>4, Zenon DEF DownloadTypeOK
  <2> QED BY <1>1, <2>4, <2>5, <2>6, <2>7, Zenon DEF DownloadTypeOK, fileVars
<1> QED BY <1>3, <1>4, <1>5

LEMMA StreamType ==
    ASSUME DownloadTypeOK, NEW d \in Downloads, StreamStep(d) PROVE DownloadTypeOK'
<1>1. CASE Piece(d)
  <2>1. PICK n \in 1 .. (ChunkLength(size, cursor[d].index) - cursor[d].at) :
           PieceWhole(d, n) \/ PieceSkipped(d, n) \/ PieceSent(d, n)
    BY <1>1 DEF Piece
  <2>2. n \in Int
    OBVIOUS
  <2> QED BY <2>1, <2>2, PieceType
<1>2. CASE StreamEnds(d) \/ StreamBreaks(d)
  <2>1. "done" \in Stages /\ "broken" \in Stages
    BY DEF Stages
  <2> QED BY <1>2, <2>1, MoveType DEF StreamEnds, StreamBreaks, Move
<1> QED BY <1>1, <1>2 DEF StreamStep

LEMMA AgainType ==
    ASSUME DownloadTypeOK, NEW d \in Downloads, Again(d) PROVE DownloadTypeOK'
<1>1. AtStart \in Cursor /\ NoRange \in ByteRange /\ IsAsk(Whole) /\ "idle" \in Stages
  BY DEF AtStart, Cursor, NoRange, ByteRange, IsAsk, Stages
<1>2. <<>> \in Seq(Int)
  OBVIOUS
<1> QED BY <1>1, <1>2 DEF Again, DownloadTypeOK, fileVars

LEMMA DownloadStepType ==
    ASSUME DownloadTypeOK, NEW d \in Downloads, DownloadStep(d) PROVE DownloadTypeOK'
<1>0. "loaded" \in Stages /\ "refused" \in Stages /\ "opened" \in Stages
  BY DEF Stages
<1>1. CASE OwnerLoad(d)
  <2>1. PICK a \in Asks[d] : ask' = [ask EXCEPT ![d] = a]
    BY <1>1 DEF OwnerLoad
  <2>2. IsAsk(a)
    BY DownloadAssumption
  <2> QED BY <1>0, <1>1, <2>1, <2>2, AskType DEF OwnerLoad, Move
<1>2. CASE Open(d)
  BY <1>0, <1>2, MoveType DEF Open, Move
<1>3. CASE RangeRefused(d)
  BY <1>0, <1>3, MoveType DEF RangeRefused, Move
<1>4. CASE StreamStep(d)
  BY <1>4, StreamType
<1> QED BY <1>1, <1>2, <1>3, <1>4 DEF DownloadStep

LEMMA OpenStreamType ==
    ASSUME TypeOK, NEW d \in Downloads, OpenStream(d) PROVE TypeOK'
<1>1. DownloadTypeOK'
  BY ListType DEF TypeOK, OpenStream
<1> QED BY <1>1 DEF TypeOK, OpenStream, linkVars

LEMMA OwnerType ==
    ASSUME TypeOK,
           \/ CreateLoad \/ CreateInsert \/ RevokeLoad \/ RevokeWrite \/ Expire
    PROVE  TypeOK'
<1>1. UNCHANGED downloadVars
  BY DEF CreateLoad, CreateInsert, RevokeLoad, RevokeWrite, Expire
<1>2. DownloadTypeOK'
  BY <1>1 DEF TypeOK, DownloadTypeOK, downloadVars, fileVars, streamVars
<1> USE <1>2 DEF TypeOK, OwnerAt, linkVars, historyVars
<1>3. CASE CreateLoad  BY <1>3 DEF CreateLoad
<1>4. CASE CreateInsert  BY <1>4 DEF CreateInsert
<1>5. CASE RevokeLoad  BY <1>5 DEF RevokeLoad
<1>6. CASE RevokeWrite  BY <1>6 DEF RevokeWrite
<1>7. CASE Expire  BY <1>7 DEF Expire
<1> QED BY <1>3, <1>4, <1>5, <1>6, <1>7

LEMMA FileType ==
    ASSUME TypeOK,
           \/ FileGone
           \/ FileStep /\ UNCHANGED <<linkVars, owner, shown, historyVars>>
    PROVE  TypeOK'
<1>1. /\ status' \in {"committed", "deleting", "gone"}
      /\ UNCHANGED <<size, stage, ask, streamVars>>
  BY DEF FileGone, FileStep, RowsGone, UploadCommit, SoftDelete
<1>2. DownloadTypeOK'
  BY <1>1 DEF TypeOK, DownloadTypeOK, streamVars
<1>3. /\ link' \in {"none", "live", "gone"}
      /\ UNCHANGED <<limit, revoked, expired, count, owner, shown, historyVars>>
  BY DEF TypeOK, FileGone, linkVars
<1> QED BY <1>2, <1>3 DEF TypeOK, historyVars

LEMMA VisitorType ==
    ASSUME TypeOK, NEW d \in Downloads, Resolve(d) \/ LoadName(d) \/ Count(d)
    PROVE  TypeOK'
<1>0. "refused" \in Stages /\ "forbidden" \in Stages /\ "resolved" \in Stages
      /\ "named" \in Stages /\ "loaded" \in Stages
  BY DEF Stages
<1>1. CASE Resolve(d)
  <2>1. PICK a \in VisitorAsks(d) : ask' = [ask EXCEPT ![d] = a]
    BY <1>1 DEF Resolve
  <2>2. IsAsk(a)
    <3>1. IsAsk(Whole) /\ IsAsk(Span(0, 0))
      BY DEF IsAsk, Span
    <3> QED BY <3>1, DownloadAssumption DEF VisitorAsks
  <2>3. PICK to \in Stages : stage' = [stage EXCEPT ![d] = to]
    BY <1>0, <1>1 DEF Resolve, Move, Enforced
  <2>4. UNCHANGED <<fileVars, streamVars, linkVars, owner, shown, historyVars>>
    BY <1>1 DEF Resolve
  <2>5. DownloadTypeOK'
    BY <2>1, <2>2, <2>3, <2>4, AskType DEF TypeOK
  <2> QED BY <2>4, <2>5 DEF TypeOK, linkVars, historyVars
<1>2. CASE LoadName(d)
  <2>1. DownloadTypeOK'
    BY <1>0, <1>2, MoveType DEF TypeOK, LoadName, Move
  <2> QED BY <1>2, <2>1 DEF TypeOK, LoadName, linkVars, historyVars
<1>3. CASE Count(d)
  <2>1. DownloadTypeOK'
    BY <1>0, <1>3, MoveType DEF TypeOK, Count, Move
  <2>2. count' \in Nat
    BY <1>3 DEF TypeOK, Count
  <2> QED BY <1>3, <2>1, <2>2 DEF TypeOK, Count, historyVars
<1> QED BY <1>1, <1>2, <1>3

LEMMA RestartType ==
    ASSUME TypeOK, NEW d \in Downloads, Restart(d) PROVE TypeOK'
<1>1. DownloadTypeOK'
  BY AgainType DEF TypeOK, Restart
<1> QED BY <1>1 DEF TypeOK, Restart, linkVars, historyVars

LEMMA TypeStep == TypeOK /\ [Next]_vars => TypeOK'
  <1> SUFFICES ASSUME TypeOK, [Next]_vars PROVE TypeOK'
    OBVIOUS
  <1>1. CASE UNCHANGED vars
    <2>1. DownloadTypeOK'
      BY <1>1 DEF TypeOK, DownloadTypeOK, vars, downloadVars, fileVars, streamVars
    <2> QED BY <1>1, <2>1 DEF TypeOK, vars, linkVars, historyVars
  <1>2. ASSUME NEW d \in Downloads, DownloadStep(d),
               UNCHANGED <<linkVars, owner, shown, historyVars>>
        PROVE  TypeOK'
    <2>1. DownloadTypeOK'
      BY <1>2, DownloadStepType DEF TypeOK
    <2> QED BY <1>2, <2>1 DEF TypeOK, linkVars, historyVars
  <1> QED BY <1>1, <1>2, OwnerType, FileType, VisitorType, OpenStreamType, RestartType DEF Next

(* The variables keep their types: in particular a link that has a limit    *)
(* has one of those its owner may choose.                                   *)
THEOREM TypeCorrect == Spec => []TypeOK
  BY TypeInit, TypeStep, PTL DEF Spec

(* Every header is resolved to the bytes it names, for any file and chunk   *)
(* size (storage/download.py 124-169).                                      *)
THEOREM RangesHonoured == Spec => []RangeHonoured
<1>1. TypeOK => RangeHonoured
  <2> SUFFICES ASSUME TypeOK, NEW d \in Downloads, ask[d] # Whole
               PROVE  LET r == ParseRange(ask[d], size)
                      IN  r.start .. r.end = Wanted(ask[d], size)
    BY DEF RangeHonoured
  <2>1. IsAsk(ask[d]) /\ size \in Nat
    BY DownloadAssumption DEF TypeOK, DownloadTypeOK
  <2> QED BY <2>1, ParseExact
<1> QED BY <1>1, TypeCorrect, PTL

-----------------------------------------------------------------------------
(* The gate.                                                                *)

LEMMA SetFacts ==
    ASSUME NEW d
    PROVE  /\ IsFiniteSet(Admitted) /\ IsFiniteSet(Ready)
           /\ Cardinality(Visitors) \in Nat
           /\ Cardinality(Admitted) \in Nat /\ Cardinality(Ready) \in Nat
           /\ Cardinality(Admitted) <= Cardinality(Visitors)
           /\ Cardinality(Admitted \ {d}) =
                 IF d \in Admitted THEN Cardinality(Admitted) - 1 ELSE Cardinality(Admitted)
           /\ Cardinality(Ready \ {d}) =
                 IF d \in Ready THEN Cardinality(Ready) - 1 ELSE Cardinality(Ready)
           /\ Cardinality(Ready \union {d}) =
                 IF d \in Ready THEN Cardinality(Ready) ELSE Cardinality(Ready) + 1
           /\ d \in Visitors => Cardinality(Admitted \union {d}) <= Cardinality(Visitors)
           /\ Cardinality(Admitted \union {d}) \in Nat
<1> USE SharingAssumption
<1>1. Admitted \in SUBSET Visitors /\ Ready \in SUBSET Visitors
  BY DEF Admitted, Ready
<1>2. /\ IsFiniteSet(Admitted) /\ IsFiniteSet(Ready)
      /\ Cardinality(Admitted) <= Cardinality(Visitors)
  BY <1>1, FS_Subset
<1>3. /\ Cardinality(Visitors) \in Nat
      /\ Cardinality(Admitted) \in Nat /\ Cardinality(Ready) \in Nat
  BY <1>2, FS_CardinalityType
<1>4. d \in Visitors => Cardinality(Admitted \union {d}) <= Cardinality(Visitors)
  <2>1. d \in Visitors => Admitted \union {d} \in SUBSET Visitors
    BY <1>1
  <2> QED BY <2>1, FS_Subset
<1>5. IsFiniteSet(Admitted \union {d}) /\ Cardinality(Admitted \union {d}) \in Nat
  BY <1>2, FS_AddElement, FS_CardinalityType
<1> QED BY <1>2, <1>3, <1>4, <1>5, FS_AddElement, FS_RemoveElement

(* What a step of one download does to the two sets.                        *)
LEMMA MoveSets ==
    ASSUME TypeOK, NEW d \in Downloads, NEW to, stage' = [stage EXCEPT ![d] = to]
    PROVE  /\ Admitted' = IF d \in Visitors /\ to \in {"resolved", "named"}
                          THEN Admitted \union {d} ELSE Admitted \ {d}
           /\ Ready' = IF d \in Visitors /\ to \in {"loaded", "opened"}
                       THEN Ready \union {d} ELSE Ready \ {d}
<1>1. \A v \in Visitors : stage'[v] = IF v = d THEN to ELSE stage[v]
  BY SharingAssumption DEF TypeOK, DownloadTypeOK
<1> QED BY <1>1 DEF Admitted, Ready

(* Visitors come to the gate by Resolve only, owners never.                 *)
LEMMA GateCalm ==
    ASSUME TypeOK, GateInv, Admitted' \subseteq Admitted, Ready' \subseteq Ready,
           Cardinality(Ready') <= Cardinality(Ready),
           Cardinality(Admitted') <= Cardinality(Admitted),
           \A d \in Downloads : stage'[d] \in {"resolved", "named"} => d \in Visitors,
           UNCHANGED <<linkVars, opened>>,
           owner' = "creating" => link = "none"
    PROVE  GateInv'
<1>0. /\ Cardinality(Ready) \in Nat /\ Cardinality(Admitted) \in Nat
      /\ Cardinality(Ready)' = Cardinality(Ready') /\ Cardinality(Ready') \in Nat
      /\ Cardinality(Admitted') \in Nat /\ Cardinality(Visitors) \in Nat
  <2>1. IsFiniteSet(Ready') /\ IsFiniteSet(Admitted')
    BY SetFacts, FS_Subset
  <2> QED BY <2>1, SetFacts, FS_CardinalityType
<1>1. /\ link' = "none" =>
          /\ limit' = Unlimited /\ ~revoked' /\ ~expired'
          /\ count' = 0 /\ opened' = 0 /\ Admitted' = {} /\ Ready' = {}
  BY DEF GateInv, linkVars
<1>2. link' = "live" => opened' + Cardinality(Ready') <= count'
  BY <1>0 DEF GateInv, linkVars, TypeOK
<1>3. limit' # Unlimited => count' + Cardinality(Admitted') < limit' + Cardinality(Visitors)
  <2>1. limit # Unlimited => limit \in Nat
    BY SharingAssumption DEF TypeOK
  <2> QED BY <1>0, <2>1 DEF GateInv, linkVars, TypeOK
<1> QED BY <1>1, <1>2, <1>3 DEF GateInv, linkVars

LEMMA GateOwner ==
    ASSUME TypeOK, GateInv,
           \/ CreateLoad \/ CreateInsert \/ RevokeLoad \/ RevokeWrite \/ Expire
    PROVE  GateInv'
<1>1. UNCHANGED <<stage, opened, count>>
  BY DEF CreateLoad, CreateInsert, RevokeLoad, RevokeWrite, Expire, downloadVars,
         linkVars, historyVars
<1>2. Admitted' = Admitted /\ Ready' = Ready
  BY <1>1 DEF Admitted, Ready
<1>3. CASE CreateInsert
  <2>1. /\ link = "none" /\ owner' = "idle" /\ UNCHANGED <<revoked, expired>>
        /\ count = 0 /\ opened = 0 /\ Admitted = {} /\ Ready = {}
    BY <1>3 DEF CreateInsert, OwnerAt, GateInv
  <2>2. Cardinality(Admitted) = 0 /\ Cardinality(Ready) = 0 /\ Cardinality(Visitors) \in Nat
    BY <2>1, FS_EmptySet, SetFacts
  <2>3. CASE link' = link /\ limit' = limit
    BY <1>1, <1>2, <2>1, <2>3 DEF GateInv
  <2>4. CASE link' = "live" /\ limit' \in Limits
    <3>1. limit' # Unlimited => limit' \in Nat /\ limit' > 0
      BY <2>4, SharingAssumption
    <3> QED BY <1>1, <1>2, <2>1, <2>2, <2>4, <3>1 DEF GateInv
  <2> QED BY <1>3, <2>3, <2>4 DEF CreateInsert
<1>4. CASE CreateLoad
  BY <1>1, <1>2, <1>4 DEF CreateLoad, OwnerAt, GateInv, linkVars, historyVars
<1>5. CASE RevokeLoad
  BY <1>1, <1>2, <1>5 DEF RevokeLoad, OwnerAt, GateInv, linkVars, historyVars
<1>6. CASE RevokeWrite
  BY <1>1, <1>2, <1>6 DEF RevokeWrite, OwnerAt, GateInv, historyVars, TypeOK
<1>7. CASE Expire
  BY <1>1, <1>2, <1>7 DEF Expire, GateInv, historyVars
<1> QED BY <1>3, <1>4, <1>5, <1>6, <1>7

LEMMA GateFile ==
    ASSUME TypeOK, GateInv,
           \/ FileGone
           \/ FileStep /\ UNCHANGED <<linkVars, owner, shown, historyVars>>
    PROVE  GateInv'
<1>1. /\ UNCHANGED <<stage, limit, revoked, expired, count, owner, opened>>
      /\ link' = link \/ (link' = "gone" /\ link = "live")
  BY DEF FileGone, FileStep, RowsGone, UploadCommit, SoftDelete, linkVars, historyVars
<1>2. Admitted' = Admitted /\ Ready' = Ready
  BY <1>1 DEF Admitted, Ready
<1> QED BY <1>1, <1>2 DEF GateInv

LEMMA GateResolve ==
    ASSUME TypeOK, GateInv, NEW v \in Downloads, Resolve(v) PROVE GateInv'
<1>1. /\ v \in Visitors /\ stage[v] = "idle"
      /\ stage' = [stage EXCEPT ![v] = IF link = "live" THEN Enforced ELSE "refused"]
      /\ UNCHANGED <<linkVars, owner, opened>>
  BY DEF Resolve, Move, historyVars
<1>2. v \notin Admitted /\ v \notin Ready
  BY <1>1 DEF Admitted, Ready
<1>3. \A d \in Downloads : stage'[d] \in {"resolved", "named"} => d \in Visitors
  BY <1>1 DEF GateInv, TypeOK, DownloadTypeOK
<1>4. CASE link = "live" /\ Enforced = "resolved"
  <2>1. ~UsedUp
    BY <1>4 DEF Enforced
  <2>2. Admitted' = Admitted \union {v} /\ Ready' = Ready
    <3>1. stage' = [stage EXCEPT ![v] = "resolved"]
      BY <1>1, <1>4
    <3>2. Admitted' = Admitted \union {v} /\ Ready' = Ready \ {v}
      BY <1>1, <3>1, MoveSets
    <3> QED BY <1>2, <3>2
  <2>3. limit # Unlimited => limit \in Nat /\ count < limit
    BY <2>1, SharingAssumption DEF UsedUp, TypeOK
  <2>4. limit # Unlimited => count + Cardinality(Admitted') < limit + Cardinality(Visitors)
    <3>1. /\ Cardinality(Admitted \union {v}) \in Nat /\ Cardinality(Visitors) \in Nat
          /\ Cardinality(Admitted \union {v}) <= Cardinality(Visitors)
      BY <1>1, SetFacts
    <3> QED BY <2>2, <2>3, <3>1 DEF TypeOK
  <2> QED BY <1>1, <1>3, <1>4, <2>2, <2>4 DEF GateInv, linkVars
<1>5. CASE ~(link = "live" /\ Enforced = "resolved")
  <2>1. PICK to \in {"refused", "forbidden"} : stage' = [stage EXCEPT ![v] = to]
    BY <1>1, <1>5 DEF Enforced
  <2>2. Admitted' = Admitted /\ Ready' = Ready
    <3>1. Admitted' = Admitted \ {v} /\ Ready' = Ready \ {v}
      BY <2>1, MoveSets
    <3> QED BY <1>2, <3>1
  <2> QED BY <1>1, <1>3, <2>2 DEF GateInv, linkVars
<1> QED BY <1>4, <1>5

LEMMA GateCount ==
    ASSUME TypeOK, GateInv, NEW v \in Downloads, Count(v) PROVE GateInv'
<1>1. /\ stage[v] = "named" /\ stage' = [stage EXCEPT ![v] = "loaded"]
      /\ count' = IF link = "live" THEN count + 1 ELSE count
      /\ UNCHANGED <<link, limit, revoked, expired, owner, opened>>
  BY DEF Count, Move, historyVars
<1>2. v \in Admitted /\ v \notin Ready
  BY <1>1 DEF GateInv, Admitted, Ready
<1>3. Admitted' = Admitted \ {v} /\ Ready' = Ready \union {v}
  <2>1. v \in Visitors
    BY <1>2 DEF Admitted
  <2> QED BY <1>1, <2>1, MoveSets
<1>4. /\ Cardinality(Admitted') = Cardinality(Admitted) - 1
      /\ Cardinality(Ready') = Cardinality(Ready) + 1
      /\ Cardinality(Admitted) \in Nat /\ Cardinality(Ready) \in Nat
      /\ Cardinality(Visitors) \in Nat
  <2>1. /\ Cardinality(Admitted \ {v}) = Cardinality(Admitted) - 1
        /\ Cardinality(Ready \union {v}) = Cardinality(Ready) + 1
    BY <1>2, SetFacts
  <2>2. /\ Cardinality(Admitted) \in Nat /\ Cardinality(Ready) \in Nat
        /\ Cardinality(Visitors) \in Nat
    BY SetFacts
  <2> QED BY <1>3, <2>1, <2>2
<1>5. link # "none"
  BY <1>2 DEF GateInv
<1>6. \A d \in Downloads : stage'[d] \in {"resolved", "named"} => d \in Visitors
  BY <1>1 DEF GateInv, TypeOK, DownloadTypeOK
<1>7. link' = "live" => opened' + Cardinality(Ready') <= count'
  BY <1>1, <1>4 DEF GateInv, TypeOK
<1>8. limit' # Unlimited => count' + Cardinality(Admitted') < limit' + Cardinality(Visitors)
  <2>1. limit # Unlimited => limit \in Nat
    BY SharingAssumption DEF TypeOK
  <2> QED BY <1>1, <1>4, <2>1 DEF GateInv, TypeOK
<1> QED BY <1>1, <1>5, <1>6, <1>7, <1>8 DEF GateInv

(* A step of one download that neither admits nor counts.                   *)
LEMMA GateOnward ==
    ASSUME TypeOK, GateInv, NEW d \in Downloads, NEW to,
           stage' = [stage EXCEPT ![d] = to],
           to = "named" => stage[d] = "resolved",
           to = "loaded" => d \notin Visitors,
           to = "opened" => stage[d] = "loaded",
           to # "resolved",
           UNCHANGED <<linkVars, owner, opened>>
    PROVE  GateInv'
<1>1. /\ to \in {"resolved", "named"} => stage[d] \in {"resolved", "named"}
      /\ d \in Visitors /\ to \in {"loaded", "opened"} => stage[d] \in {"loaded", "opened"}
  OBVIOUS
<1>2. Admitted' = Admitted \/ Admitted' = Admitted \ {d}
  BY <1>1, MoveSets DEF Admitted
<1>3. Ready' = Ready \/ Ready' = Ready \ {d}
  BY <1>1, MoveSets DEF Ready
<1>4. /\ Cardinality(Admitted') <= Cardinality(Admitted)
      /\ Cardinality(Ready') <= Cardinality(Ready)
  <2>1. /\ Cardinality(Admitted \ {d}) <= Cardinality(Admitted)
        /\ Cardinality(Ready \ {d}) <= Cardinality(Ready)
        /\ Cardinality(Admitted) \in Nat /\ Cardinality(Ready) \in Nat
    <3>1. /\ Cardinality(Admitted \ {d}) =
                IF d \in Admitted THEN Cardinality(Admitted) - 1 ELSE Cardinality(Admitted)
          /\ Cardinality(Ready \ {d}) =
                IF d \in Ready THEN Cardinality(Ready) - 1 ELSE Cardinality(Ready)
          /\ Cardinality(Admitted) \in Nat /\ Cardinality(Ready) \in Nat
      BY SetFacts
    <3> HIDE DEF Admitted, Ready
    <3> QED BY <3>1
  <2> QED BY <1>2, <1>3, <2>1
<1>5. \A e \in Downloads : stage'[e] \in {"resolved", "named"} => e \in Visitors
  BY <1>1 DEF GateInv, TypeOK, DownloadTypeOK
<1>6. owner' = "creating" => link = "none"
  BY DEF GateInv
<1> QED BY <1>2, <1>3, <1>4, <1>5, <1>6, GateCalm

LEMMA GateOpenStream ==
    ASSUME TypeOK, GateInv, NEW d \in Downloads, OpenStream(d) PROVE GateInv'
<1>1. /\ stage[d] = "opened" /\ stage' = [stage EXCEPT ![d] = "streaming"]
      /\ opened' = IF d \in Visitors THEN opened + 1 ELSE opened
      /\ UNCHANGED <<linkVars, owner>>
  BY DEF OpenStream, ListWhole, ListRange, Move
<1>2. CASE d \notin Visitors
  BY <1>1, <1>2, GateOnward
<1>3. CASE d \in Visitors
  <2>1. d \in Ready /\ d \notin Admitted
    BY <1>1, <1>3 DEF Ready, Admitted
  <2>2. Ready' = Ready \ {d} /\ Admitted' = Admitted
    <3>1. Admitted' = Admitted \ {d} /\ Ready' = Ready \ {d}
      <4>1. PICK to \in {"streaming"} : stage' = [stage EXCEPT ![d] = to]
        BY <1>1
      <4> QED BY <4>1, MoveSets
    <3> QED BY <2>1, <3>1
  <2>3. Cardinality(Ready') = Cardinality(Ready) - 1 /\ Cardinality(Ready) \in Nat
    BY <2>1, <2>2, SetFacts
  <2>4. link # "none"
    BY <2>1 DEF GateInv
  <2>5. \A e \in Downloads : stage'[e] \in {"resolved", "named"} => e \in Visitors
    BY <1>1 DEF GateInv, TypeOK, DownloadTypeOK
  <2>6. link = "live" => opened' + Cardinality(Ready') <= count
    BY <1>1, <1>3, <2>3 DEF GateInv, TypeOK
  <2> QED BY <1>1, <2>2, <2>4, <2>5, <2>6 DEF GateInv, linkVars
<1> QED BY <1>2, <1>3

LEMMA GateDownload ==
    ASSUME TypeOK, GateInv, NEW d \in Downloads,
           \/ LoadName(d) \/ Restart(d)
           \/ DownloadStep(d) /\ UNCHANGED <<linkVars, owner, shown, historyVars>>
    PROVE  GateInv'
<1>0. UNCHANGED <<linkVars, owner, opened>>
  BY DEF LoadName, Restart, historyVars
<1>1. CASE LoadName(d)
  <2>1. PICK to \in {"named", "refused"} : stage' = [stage EXCEPT ![d] = to]
    BY <1>1 DEF LoadName, Move
  <2>2. stage[d] = "resolved"
    BY <1>1 DEF LoadName, Move
  <2> QED BY <1>0, <2>1, <2>2, GateOnward
<1>2. CASE Restart(d)
  BY <1>0, <1>2, GateOnward DEF Restart, Again
<1>3. CASE OwnerLoad(d)
  <2>1. d \notin Visitors
    BY <1>3, SharingAssumption DEF OwnerLoad
  <2> QED BY <1>0, <1>3, <2>1, GateOnward DEF OwnerLoad, Move
<1>4. CASE Open(d)
  <2>1. PICK to \in {"opened", "refused"} : stage' = [stage EXCEPT ![d] = to]
    BY <1>4 DEF Open, Move
  <2>2. stage[d] = "loaded"
    BY <1>4 DEF Open, Move
  <2> QED BY <1>0, <2>1, <2>2, GateOnward
<1>5. CASE RangeRefused(d)
  BY <1>0, <1>5, GateOnward DEF RangeRefused, Move
<1>6. CASE StreamStep(d)
  <2>1. PICK to \in {"streaming", "done", "broken"} : stage' = [stage EXCEPT ![d] = to]
    <3>1. stage = [stage EXCEPT ![d] = stage[d]]
      BY DEF TypeOK, DownloadTypeOK
    <3>2. stage[d] = "streaming"
      BY <1>6 DEF StreamStep, Piece, HasPiece, StreamEnds, StreamBreaks, Move
    <3> QED BY <1>6, <3>1, <3>2 DEF StreamStep, Piece, PieceWhole, PieceSkipped, PieceSent,
               StreamEnds, StreamBreaks, Move
  <2> QED BY <1>0, <2>1, GateOnward
<1> QED BY <1>1, <1>2, <1>3, <1>4, <1>5, <1>6 DEF DownloadStep

LEMMA GateStep == IInv /\ [Next]_vars => GateInv'
  <1> SUFFICES ASSUME TypeOK, GateInv, [Next]_vars PROVE GateInv'
    BY DEF IInv
  <1>1. CASE UNCHANGED vars
    <2>1. Admitted' = Admitted /\ Ready' = Ready
      BY <1>1 DEF Admitted, Ready, vars, downloadVars
    <2> QED BY <1>1, <2>1 DEF GateInv, vars, downloadVars, linkVars, historyVars
  <1> QED BY <1>1, GateOwner, GateFile, GateResolve, GateCount, GateOpenStream,
             GateDownload DEF Next

LEMMA GateInit == Init => GateInv
  <1> SUFFICES ASSUME Init PROVE GateInv
    OBVIOUS
  <1>1. \A d \in Downloads : stage[d] = "idle"
    BY DEF Init, DownloadInit
  <1>2. Admitted = {} /\ Ready = {}
    BY <1>1, SharingAssumption DEF Admitted, Ready
  <1> QED BY <1>1, <1>2 DEF GateInv, Init

LEMMA Invariance == Spec => []IInv
  BY TypeInit, TypeStep, GateInit, GateStep, PTL DEF Spec, IInv

(* No stream is opened that was not counted (sharing/service.py 251).       *)
THEOREM StreamsCounted == Spec => []EveryStreamCounted
<1>1. IInv => EveryStreamCounted
  <2> SUFFICES ASSUME IInv, link = "live" PROVE opened <= count
    BY DEF EveryStreamCounted
  <2>1. Cardinality(Ready) \in Nat /\ opened + Cardinality(Ready) <= count
    BY SetFacts DEF IInv, GateInv
  <2> QED BY <2>1 DEF IInv, TypeOK
<1> QED BY <1>1, Invariance, PTL

(* The limit is exceeded by less than the number of visitors there are, if  *)
(* there are any (sharing/service.py 248-250).                              *)
THEOREM OvershootBounded == Spec => []LimitOvershoot
<1>1. IInv => LimitOvershoot
  <2> SUFFICES ASSUME IInv, limit # Unlimited PROVE count < limit + Cardinality(Visitors)
    BY DEF LimitOvershoot
  <2>1. /\ Cardinality(Admitted) \in Nat /\ Cardinality(Visitors) \in Nat
        /\ count + Cardinality(Admitted) < limit + Cardinality(Visitors)
    BY SetFacts DEF IInv, GateInv
  <2>2. count \in Nat /\ limit \in Nat
    BY SharingAssumption DEF IInv, TypeOK
  <2> QED BY <2>1, <2>2
<1> QED BY <1>1, Invariance, PTL

-----------------------------------------------------------------------------
(* What shuts a link is never taken back, and the gate reads it.            *)

LEMMA ShutLasts == IInv /\ Shut /\ [Next]_vars => Shut'
  <1> SUFFICES ASSUME TypeOK, GateInv, Shut, [Next]_vars PROVE Shut'
    BY DEF IInv
  <1>1. \/ UNCHANGED linkVars
        \/ CreateInsert \/ RevokeWrite \/ Expire \/ FileGone
        \/ \E d \in Downloads : Count(d)
    BY DEF Next, CreateLoad, RevokeLoad, Resolve, LoadName, OpenStream, Restart, vars
  <1>2. CASE UNCHANGED linkVars
    BY <1>2 DEF Shut, UsedUp, linkVars
  <1>3. CASE CreateInsert
    <2>1. link = "none"
      BY <1>3 DEF CreateInsert, OwnerAt, GateInv
    <2> QED BY <2>1 DEF GateInv, Shut, UsedUp
  <1>4. CASE RevokeWrite \/ Expire \/ FileGone
    BY <1>4 DEF RevokeWrite, Expire, FileGone, Shut, UsedUp, TypeOK
  <1>5. CASE \E d \in Downloads : Count(d)
    <2>1. UNCHANGED <<link, limit, revoked, expired>> /\ (count' = count \/ count' = count + 1)
      BY <1>5 DEF Count
    <2>2. UsedUp => UsedUp'
      <3>1. limit # Unlimited => limit \in Nat
        BY SharingAssumption DEF TypeOK
      <3> QED BY <2>1, <3>1 DEF UsedUp, TypeOK
    <2> QED BY <2>1, <2>2 DEF Shut
  <1> QED BY <1>1, <1>2, <1>3, <1>4, <1>5

LEMMA ShutAdmitsNone == IInv /\ Shut /\ [Next]_vars => Admitted' \subseteq Admitted
  <1> SUFFICES ASSUME TypeOK, GateInv, Shut, [Next]_vars,
                      NEW v \in Visitors, stage'[v] \in {"resolved", "named"}
               PROVE  stage[v] \in {"resolved", "named"}
    BY DEF IInv, Admitted
  <1>0. v \in Downloads
    BY SharingAssumption
  <1>1. CASE UNCHANGED stage
    BY <1>1
  <1>2. ASSUME NEW d \in Downloads,
               Resolve(d) \/ LoadName(d) \/ Count(d) \/ OpenStream(d) \/ Restart(d)
                  \/ DownloadStep(d)
        PROVE  stage[v] \in {"resolved", "named"}
    <2>1. PICK to : /\ stage' = [stage EXCEPT ![d] = to]
                    /\ to = "resolved" => link = "live" /\ Enforced = "resolved"
                    /\ to = "named" => stage[d] = "resolved"
      <3>1. CASE Resolve(d)
        <4>1. PICK to \in {"resolved", "refused", "forbidden"} :
                 /\ stage' = [stage EXCEPT ![d] = to]
                 /\ to = "resolved" => link = "live" /\ Enforced = "resolved"
          BY <3>1 DEF Resolve, Move, Enforced
        <4> QED BY <4>1
      <3>2. CASE LoadName(d)
        BY <3>2 DEF LoadName, Move
      <3>3. CASE Count(d)
        <4>1. PICK to \in {"loaded"} : stage' = [stage EXCEPT ![d] = to]
          BY <3>3 DEF Count, Move
        <4> QED BY <4>1
      <3>4. CASE OpenStream(d)
        BY <3>4 DEF OpenStream, ListWhole, ListRange, Move
      <3>5. CASE Restart(d)
        <4>1. PICK to \in {"idle"} : stage' = [stage EXCEPT ![d] = to]
          BY <3>5 DEF Restart, Again
        <4> QED BY <4>1
      <3>6. CASE OwnerLoad(d) \/ Open(d) \/ RangeRefused(d)
        BY <3>6 DEF OwnerLoad, Open, RangeRefused, Move
      <3>7. CASE StreamStep(d)
        <4>1. stage = [stage EXCEPT ![d] = stage[d]] /\ stage[d] = "streaming"
          BY <3>7 DEF TypeOK, DownloadTypeOK, StreamStep, Piece, HasPiece, StreamEnds,
                      StreamBreaks, Move
        <4> QED BY <3>7, <4>1 DEF StreamStep, Piece, PieceWhole, PieceSkipped, PieceSent,
                                  StreamEnds, StreamBreaks, Move
      <3> QED BY <1>2, <3>1, <3>2, <3>3, <3>4, <3>5, <3>6, <3>7 DEF DownloadStep
    <2>2. ~(link = "live" /\ Enforced = "resolved")
      BY DEF Shut, Enforced
    <2>3. stage'[v] = IF v = d THEN to ELSE stage[v]
      BY <1>0, <2>1 DEF TypeOK, DownloadTypeOK
    <2> QED BY <2>1, <2>2, <2>3
  <1>3. \/ UNCHANGED stage
        \/ \E d \in Downloads :
              \/ Resolve(d) \/ LoadName(d) \/ Count(d) \/ OpenStream(d) \/ Restart(d)
              \/ DownloadStep(d)
    BY DEF Next, CreateLoad, CreateInsert, RevokeLoad, RevokeWrite, Expire, FileGone, RowsGone,
           FileStep, UploadCommit, SoftDelete, vars, downloadVars
  <1> QED BY <1>1, <1>2, <1>3

(* Once a link is revoked, expired, used up or gone it stays so, and nobody *)
(* is admitted any more (sharing/service.py 185-205).                       *)
THEOREM ShutForGood == Spec => ShutStaysShut
<1>1. IInv /\ [Next]_vars => [Shut => Shut' /\ Admitted' \subseteq Admitted]_vars
  BY ShutLasts, ShutAdmitsNone
<1> QED BY <1>1, Invariance, PTL DEF Spec, ShutStaysShut

-----------------------------------------------------------------------------
(****************************************************************************)
(* What is streamed.  The invariant relates the cursor to what was sent.    *)
(****************************************************************************)

(* The range a download resolved to; the whole file if none was asked for.  *)
First(d) == IF ask[d] = Whole THEN 0 ELSE range[d].start
End(d) == IF ask[d] = Whole THEN size ELSE range[d].end + 1

(* What was sent are the bytes that follow each other from the first on.    *)
Consecutive(d) ==
    /\ Len(out[d]) <= End(d) - First(d)
    /\ \A i \in 1 .. Len(out[d]) : out[d][i] = First(d) + i - 1

Resolved(d) ==
    ask[d] # Whole => range[d] = ParseRange(ask[d], size) /\ range[d] # NoRange

(* A cursor is inside of its chunk, or at its start.                        *)
Inside(c) ==
    /\ c.index \in Nat /\ c.at \in Nat
    /\ c.at = 0 \/ c.at < ChunkLength(size, c.index)

(* While the whole file is sent, the cursor is where the sending is.        *)
WholeAt(d) ==
    Len(out[d]) = IF Position(cursor[d]) >= size THEN size ELSE Position(cursor[d])

(* While a range is sent, it is so once the bytes to skip are past.         *)
RangeAt(d) ==
    LET c == cursor[d] IN
    /\ c.skip \in Nat
    /\ c.skip > 0 => Len(out[d]) = 0 /\ c.at + c.skip < ChunkLength(size, c.index)
    /\ Position(c) + c.skip = range[d].start + Len(out[d])
    /\ c.remaining = range[d].end + 1 - (range[d].start + Len(out[d]))
    /\ c.remaining > 0

Listed(d) ==
    \/ list[d] = ChunkCount(size)
    \/ list[d] = 0 /\ status = "gone" /\ (ask[d] = Whole => out[d] = <<>>)

StreamInv(d) ==
    /\ stage[d] \notin {"streaming", "done", "broken"} => out[d] = <<>>
    /\ stage[d] \in {"streaming", "done", "broken"} => Resolved(d) /\ Consecutive(d)
    /\ stage[d] = "streaming" =>
          /\ Inside(cursor[d]) /\ Listed(d)
          /\ IF ask[d] = Whole THEN WholeAt(d) ELSE RangeAt(d)
    /\ stage[d] = "done" =>
          \/ Len(out[d]) = End(d) - First(d)
          \/ status = "gone" /\ ask[d] = Whole /\ out[d] = <<>>

StreamsInv == \A d \in Downloads : StreamInv(d)

LEMMA Monotone ==
    ASSUME NEW a \in Int, NEW b \in Int, a <= b PROVE a * ChunkSize <= b * ChunkSize
<1>1. b - a \in Nat /\ ChunkSize \in Nat
  BY ChunkSizeAssumption
<1>2. (b - a) * ChunkSize >= 0
  BY <1>1
<1>3. (b - a) * ChunkSize = b * ChunkSize - a * ChunkSize
  BY <1>1
<1>4. a * ChunkSize \in Int /\ b * ChunkSize \in Int
  BY <1>1
<1> QED BY <1>2, <1>3, <1>4

(* A chunk is one of the file's if and only if it begins inside of it.      *)
LEMMA CountBound ==
    ASSUME NEW n \in Nat, NEW i \in Nat PROVE i < ChunkCount(n) <=> i * ChunkSize < n
<1> DEFINE m == ChunkCount(n)
<1>1. m \in Nat /\ ChunkSize \in Nat /\ i * ChunkSize \in Int /\ m * ChunkSize \in Int
  BY ChunkFacts, ChunkSizeAssumption
<1>2. m * ChunkSize >= n /\ m * ChunkSize - ChunkSize < n
  <2> DEFINE q == (-n) \div ChunkSize
  <2>1. q \in Int /\ q * ChunkSize <= -n /\ -n < q * ChunkSize + ChunkSize
    BY ChunkSizeAssumption
  <2>2. m = -q
    BY DEF ChunkCount
  <2>3. (-q) * ChunkSize = -(q * ChunkSize) /\ q * ChunkSize \in Int
    BY <2>1, <1>1
  <2> HIDE DEF q, m
  <2> QED BY <1>1, <2>1, <2>2, <2>3
<1>3. CASE i < m
  <2>1. i <= m - 1 /\ m - 1 \in Int
    BY <1>1, <1>3
  <2>2. i * ChunkSize <= (m - 1) * ChunkSize
    BY <2>1, Monotone
  <2>3. (m - 1) * ChunkSize = m * ChunkSize - ChunkSize
    BY <1>1
  <2> QED BY <1>1, <1>2, <1>3, <2>2, <2>3
<1>4. CASE ~(i < m)
  <2>1. m * ChunkSize <= i * ChunkSize
    BY <1>1, <1>4, Monotone
  <2> QED BY <1>1, <1>2, <1>4, <2>1
<1> QED BY <1>3, <1>4

LEMMA IndexBound ==
    ASSUME NEW b \in Nat
    PROVE  /\ IndexOf(b) \in Nat /\ OffsetOf(b) \in Nat /\ OffsetOf(b) < ChunkSize
           /\ IndexOf(b) * ChunkSize \in Int
           /\ b = IndexOf(b) * ChunkSize + OffsetOf(b)
  BY ChunkSizeAssumption DEF IndexOf, OffsetOf

(* A piece takes the cursor on by its length, but for the end of the file,  *)
(* where the cursor goes to the next chunk that would have been.            *)
LEMMA PastPlace ==
    ASSUME NEW c \in Cursor, c.index \in Nat, c.at \in Nat, size \in Nat,
           c.index * ChunkSize < size,
           NEW n \in Nat, n > 0, n <= ChunkLength(size, c.index) - c.at
    PROVE  LET q == Past(c, n) IN
           /\ Inside(q)
           /\ Position(c) \in Nat /\ Position(q) \in Nat /\ Position(c) + n <= size
           /\ \/ Position(q) = Position(c) + n
              \/ Position(c) + n = size /\ Position(q) >= size
           /\ c.at + n < ChunkLength(size, c.index) => q.index = c.index /\ q.at = c.at + n
<1> DEFINE p == c.index * ChunkSize
           l == ChunkLength(size, c.index)
           q == Past(c, n)
<1>1. p \in Nat /\ ChunkSize \in Nat /\ ChunkSize > 0 /\ p < size
  BY ChunkSizeAssumption
<1>2. (c.index + 1) * ChunkSize = p + ChunkSize
  BY <1>1
<1>3. l = IF size - p < ChunkSize THEN size - p ELSE ChunkSize
  BY DEF ChunkLength
<1>4. Position(c) = p + c.at
  BY DEF Position
<1>5. CASE c.at + n = l
  <2>1. q = [c EXCEPT !.index = @ + 1, !.at = 0]
    BY <1>5 DEF Past
  <2>2. q.index = c.index + 1 /\ q.at = 0
    BY <2>1 DEF Cursor
  <2>3. Position(q) = p + ChunkSize
    BY <1>1, <1>2, <2>2 DEF Position
  <2> HIDE DEF p, l, q
  <2>4. Inside(q)
    BY <2>2 DEF Inside
  <2> QED BY <1>1, <1>3, <1>4, <1>5, <2>3, <2>4 DEF l, q
<1>6. CASE c.at + n # l
  <2>1. q = [c EXCEPT !.at = @ + n]
    BY <1>6 DEF Past
  <2>2. q.index = c.index /\ q.at = c.at + n
    BY <2>1 DEF Cursor
  <2>3. Position(q) = p + (c.at + n)
    BY <2>2 DEF Position
  <2>4. c.at + n < l /\ l \in Int
    BY <1>1, <1>3, <1>6
  <2>5. Inside(q)
    BY <2>2, <2>4 DEF Inside
  <2> HIDE DEF p, l, q
  <2> QED BY <1>1, <1>3, <1>4, <2>2, <2>3, <2>4, <2>5 DEF l, q
<1> QED BY <1>5, <1>6

Same(e) ==
    /\ stage'[e] = stage[e] /\ ask'[e] = ask[e] /\ list'[e] = list[e]
    /\ range'[e] = range[e] /\ cursor'[e] = cursor[e] /\ out'[e] = out[e]

Onward == size' = size /\ (status = "gone" => status' = "gone")

LEMMA SameKeeps ==
    ASSUME NEW e \in Downloads, StreamInv(e), Same(e), Onward PROVE StreamInv(e)'
<1> USE DEF Same, Onward
<1>1. Resolved(e) => Resolved(e)'
  BY DEF Resolved
<1>2. First(e)' = First(e) /\ End(e)' = End(e)
  BY DEF First, End
<1>3. Consecutive(e) => Consecutive(e)'
  BY <1>2 DEF Consecutive
<1>4. Position(cursor[e])' = Position(cursor[e]) /\ Inside(cursor[e])' = Inside(cursor[e])
  BY DEF Position, Inside, ChunkLength
<1>5. WholeAt(e) => WholeAt(e)'
  BY <1>4 DEF WholeAt
<1>6. RangeAt(e) => RangeAt(e)'
  BY <1>4 DEF RangeAt, ChunkLength
<1>7. Listed(e) => Listed(e)'
  BY DEF Listed
<1> QED BY <1>1, <1>2, <1>3, <1>4, <1>5, <1>6, <1>7 DEF StreamInv

LEMMA OneStream ==
    ASSUME StreamsInv, NEW d \in Downloads, Onward,
           \A e \in Downloads : e # d => Same(e), StreamInv(d)'
    PROVE  StreamsInv'
  BY SameKeeps DEF StreamsInv

LEMMA EarlyKeeps ==
    ASSUME TypeOK, StreamsInv, NEW d \in Downloads, Onward,
           stage[d] \notin {"streaming", "done", "broken"},
           NEW to, to \notin {"streaming", "done", "broken"},
           stage' = [stage EXCEPT ![d] = to],
           \A e \in Downloads : e # d => ask'[e] = ask[e],
           UNCHANGED streamVars
    PROVE  StreamsInv'
<1>1. \A e \in Downloads : e # d => Same(e)
  BY DEF Same, TypeOK, DownloadTypeOK, streamVars
<1>2. out'[d] = <<>> /\ stage'[d] = to
  BY DEF StreamsInv, StreamInv, streamVars, TypeOK, DownloadTypeOK
<1>3. StreamInv(d)'
  BY <1>2 DEF StreamInv
<1> QED BY <1>1, <1>3, OneStream

LEMMA AgainKeeps ==
    ASSUME TypeOK, StreamsInv, NEW d \in Downloads, Again(d) PROVE StreamsInv'
<1>1. \A e \in Downloads : e # d => Same(e)
  BY DEF Again, Same, TypeOK, DownloadTypeOK
<1>2. out'[d] = <<>> /\ stage'[d] = "idle"
  BY DEF Again, TypeOK, DownloadTypeOK
<1>3. StreamInv(d)' /\ Onward
  BY <1>2 DEF StreamInv, Again, fileVars, Onward
<1> QED BY <1>1, <1>3, OneStream

LEMMA ListWholeKeeps ==
    ASSUME TypeOK, StreamsInv, NEW d \in Downloads, ListWhole(d) PROVE StreamsInv'
<1> USE DEF TypeOK, DownloadTypeOK
<1>0. size \in Nat /\ ChunkSize \in Nat
  BY DownloadAssumption, ChunkSizeAssumption
<1>1. /\ stage[d] = "opened" /\ ask[d] = Whole
      /\ stage'[d] = "streaming" /\ list'[d] = ChunkRows /\ cursor'[d] = AtStart
      /\ UNCHANGED <<size, status, ask, range, out>>
  BY DEF ListWhole, Move, fileVars
<1>2. \A e \in Downloads : e # d => Same(e)
  BY DEF ListWhole, Move, Same, fileVars
<1>3. out[d] = <<>>
  BY <1>1 DEF StreamsInv, StreamInv
<1>4. Len(out'[d]) = 0 /\ out'[d] = <<>>
  BY <1>1, <1>3
<1>5. Resolved(d)' /\ Consecutive(d)'
  BY <1>0, <1>1, <1>4 DEF Resolved, Consecutive, First, End
<1>6. cursor'[d].index = 0 /\ cursor'[d].at = 0
  BY <1>1 DEF AtStart
<1>7. Inside(cursor[d])'
  BY <1>6 DEF Inside
<1>8. Position(cursor[d])' = 0
  BY <1>0, <1>6 DEF Position
<1>9. WholeAt(d)'
  BY <1>0, <1>1, <1>4, <1>8 DEF WholeAt
<1>10. Listed(d)'
  BY <1>1, <1>4 DEF Listed, ChunkRows
<1>11. StreamInv(d)' /\ Onward
  BY <1>1, <1>5, <1>7, <1>9, <1>10 DEF StreamInv, Onward
<1> QED BY <1>2, <1>11, OneStream

LEMMA ListRangeKeeps ==
    ASSUME TypeOK, StreamsInv, NEW d \in Downloads, ListRange(d) PROVE StreamsInv'
<1> USE DEF TypeOK, DownloadTypeOK
<1> DEFINE r == ParseRange(ask[d], size)
<1>0. size \in Nat /\ ChunkSize \in Nat
  BY DownloadAssumption, ChunkSizeAssumption
<1>1. /\ stage[d] = "opened" /\ ask[d] # Whole /\ r # NoRange
      /\ stage'[d] = "streaming" /\ list'[d] = ChunkRows /\ cursor'[d] = StartOf(r)
      /\ range'[d] = r
      /\ UNCHANGED <<size, status, ask, out>>
  BY DEF ListRange, Move, fileVars
<1>2. \A e \in Downloads : e # d => Same(e)
  BY DEF ListRange, Move, Same, fileVars
<1>3. Len(out'[d]) = 0 /\ out'[d] = <<>>
  <2>1. out[d] = <<>>
    BY <1>1 DEF StreamsInv, StreamInv
  <2> QED BY <1>1, <2>1
<1>4. r.start \in Nat /\ r.end \in Nat /\ r.start <= r.end /\ r.end < size
  BY <1>0, <1>1, RangeFacts
<1> HIDE DEF r
<1>5. Resolved(d)' /\ Consecutive(d)'
  BY <1>1, <1>3, <1>4 DEF Resolved, Consecutive, First, End, r
<1>6. /\ cursor'[d].index = IndexOf(r.start) /\ cursor'[d].at = 0
      /\ cursor'[d].skip = OffsetOf(r.start)
      /\ cursor'[d].remaining = r.end - r.start + 1
  BY <1>1 DEF StartOf
<1>7. /\ IndexOf(r.start) \in Nat /\ OffsetOf(r.start) \in Nat
      /\ OffsetOf(r.start) < ChunkSize
      /\ IndexOf(r.start) * ChunkSize \in Int
      /\ r.start = IndexOf(r.start) * ChunkSize + OffsetOf(r.start)
  BY <1>4, IndexBound
<1>8. OffsetOf(r.start) < ChunkLength(size, IndexOf(r.start))
  BY <1>0, <1>4, <1>7, SMTT(30) DEF ChunkLength
<1>9. Inside(cursor[d])'
  BY <1>6, <1>7 DEF Inside
<1>10. Position(cursor[d])' = IndexOf(r.start) * ChunkSize
  BY <1>6, <1>7 DEF Position
<1>11. RangeAt(d)'
  <2>1. 0 + OffsetOf(r.start) < ChunkLength(size', cursor'[d].index)
    BY <1>1, <1>6, <1>7, <1>8
  <2>2. Position(cursor'[d]) + cursor'[d].skip = range'[d].start + Len(out'[d])
    BY <1>1, <1>3, <1>4, <1>6, <1>7, <1>10
  <2>3. /\ cursor'[d].remaining = range'[d].end + 1 - (range'[d].start + Len(out'[d]))
        /\ cursor'[d].remaining > 0
    BY <1>1, <1>3, <1>4, <1>6
  <2> QED BY <1>3, <1>6, <1>7, <2>1, <2>2, <2>3 DEF RangeAt
<1>12. Listed(d)'
  BY <1>1, <1>3 DEF Listed, ChunkRows
<1>13. StreamInv(d)' /\ Onward
  BY <1>1, <1>5, <1>9, <1>11, <1>12 DEF StreamInv, Onward
<1> QED BY <1>2, <1>13, OneStream

(* What is sent is put after what was sent.                                 *)
LEMMA BytesFacts ==
    ASSUME NEW b \in Int, NEW m \in Nat
    PROVE  /\ Bytes(b, m) \in Seq(Int) /\ Len(Bytes(b, m)) = m
           /\ \A i \in 1 .. m : Bytes(b, m)[i] = b + i - 1
<1>1. Bytes(b, m) \in Seq(Int) /\ DOMAIN Bytes(b, m) = 1 .. m
  BY BytesType DEF Bytes
<1>2. \A i \in 1 .. m : Bytes(b, m)[i] = b + i - 1
  BY DEF Bytes
<1> QED BY <1>1, <1>2

(* What one sequence of numbers followed by another is.                     *)
LEMMA ConcatFacts ==
    ASSUME NEW u \in Seq(Int), NEW w \in Seq(Int)
    PROVE  /\ Len(u \o w) = Len(u) + Len(w)
           /\ \A i \in 1 .. (Len(u) + Len(w)) :
                 (u \o w)[i] = IF i <= Len(u) THEN u[i] ELSE w[i - Len(u)]
  BY ConcatProperties, Zenon

LEMMA SendFacts ==
    ASSUME TypeOK, NEW d \in Downloads, Consecutive(d),
           NEW m \in Nat, NEW b \in Int, b = First(d) + Len(out[d]),
           Len(out[d]) + m <= End(d) - First(d),
           ask'[d] = ask[d], range'[d] = range[d], size' = size,
           out'[d] = out[d] \o Bytes(b, m)
    PROVE  Consecutive(d)' /\ Len(out'[d]) = Len(out[d]) + m
<1>1. out[d] \in Seq(Int) /\ Len(out[d]) \in Nat
  BY DEF TypeOK, DownloadTypeOK
<1>2. First(d) \in Int /\ First(d)' = First(d) /\ End(d)' = End(d)
  BY DownloadAssumption DEF First, End, TypeOK, DownloadTypeOK, ByteRange
<1>3. /\ Bytes(b, m) \in Seq(Int) /\ Len(Bytes(b, m)) = m
      /\ \A i \in 1 .. m : Bytes(b, m)[i] = b + i - 1
  BY BytesFacts
<1> DEFINE u == out[d]
           w == Bytes(b, m)
<1> HIDE DEF u, w
<1>4. /\ Len(u \o w) = Len(u) + Len(w)
      /\ \A i \in 1 .. (Len(u) + Len(w)) :
            (u \o w)[i] = IF i <= Len(u) THEN u[i] ELSE w[i - Len(u)]
  <2>1. u \in Seq(Int) /\ w \in Seq(Int)
    BY <1>1, <1>3 DEF u, w
  <2> QED BY <2>1, ConcatFacts
<1>5. Len(out'[d]) = Len(out[d]) + m
  BY <1>3, <1>4 DEF u, w
<1>6. ASSUME NEW i \in 1 .. (Len(out[d]) + m) PROVE out'[d][i] = First(d) + i - 1
  <2>1. out'[d][i] = IF i <= Len(u) THEN u[i] ELSE w[i - Len(u)]
    BY <1>3, <1>4 DEF u, w
  <2>2. CASE i <= Len(u)
    <3>1. u[i] = First(d) + i - 1
      BY <1>1, <2>2 DEF u, Consecutive
    <3> QED BY <2>1, <2>2, <3>1
  <2>3. CASE ~(i <= Len(u))
    <3>1. i - Len(u) \in 1 .. m
      BY <1>1, <2>3 DEF u
    <3>2. w[i - Len(u)] = b + (i - Len(u)) - 1
      BY <1>3, <3>1 DEF w
    <3>3. b + (i - Len(u)) - 1 = First(d) + i - 1
      BY <1>1, <1>2 DEF u
    <3> QED BY <2>1, <2>3, <3>2, <3>3
  <2> QED BY <2>2, <2>3
<1> QED BY <1>2, <1>5, <1>6 DEF Consecutive

(* A piece is read of a chunk that the file has.                            *)
LEMMA PieceFacts ==
    ASSUME TypeOK, NEW d \in Downloads, StreamInv(d), HasPiece(d)
    PROVE  /\ size \in Nat /\ ChunkSize \in Nat
           /\ cursor[d] \in Cursor /\ cursor[d].index \in Nat /\ cursor[d].at \in Nat
           /\ cursor[d].index * ChunkSize < size
           /\ list[d] = ChunkCount(size)
           /\ Resolved(d) /\ Consecutive(d) /\ Len(out[d]) \in Nat
           /\ ask[d] = Whole => WholeAt(d)
           /\ ask[d] # Whole => RangeAt(d)
<1>1. size \in Nat /\ ChunkSize \in Nat
  BY DownloadAssumption, ChunkSizeAssumption DEF TypeOK, DownloadTypeOK
<1>2. cursor[d] \in Cursor /\ out[d] \in Seq(Int)
  BY DEF TypeOK, DownloadTypeOK
<1>3. /\ Resolved(d) /\ Consecutive(d) /\ Inside(cursor[d]) /\ Listed(d)
      /\ IF ask[d] = Whole THEN WholeAt(d) ELSE RangeAt(d)
  BY DEF StreamInv, HasPiece
<1>4. cursor[d].index \in Nat /\ cursor[d].at \in Nat
  BY <1>3 DEF Inside
<1>5. list[d] = ChunkCount(size)
  BY <1>3, <1>4 DEF HasPiece, Listed
<1>6. cursor[d].index * ChunkSize < size
  BY <1>1, <1>4, <1>5, CountBound DEF HasPiece
<1> QED BY <1>1, <1>2, <1>3, <1>4, <1>5, <1>6

LEMMA PieceWholeKeeps ==
    ASSUME TypeOK, StreamsInv, NEW d \in Downloads, NEW n \in Nat, n > 0,
           n <= ChunkLength(size, cursor[d].index) - cursor[d].at, PieceWhole(d, n)
    PROVE  StreamsInv'
<1> DEFINE c == cursor[d]
           q == Past(c, n)
<1>1. /\ HasPiece(d) /\ stage[d] = "streaming" /\ ask[d] = Whole
      /\ out'[d] = out[d] \o Bytes(Position(c), n) /\ cursor'[d] = q
      /\ UNCHANGED <<size, status, stage, ask, list, range>>
  BY DEF PieceWhole, HasPiece, fileVars, TypeOK, DownloadTypeOK
<1>2. \A e \in Downloads : e # d => Same(e)
  BY DEF PieceWhole, Same, TypeOK, DownloadTypeOK
<1>3. /\ size \in Nat /\ c \in Cursor /\ c.index \in Nat /\ c.at \in Nat
      /\ c.index * ChunkSize < size
      /\ list[d] = ChunkCount(size)
      /\ Resolved(d) /\ Consecutive(d) /\ Len(out[d]) \in Nat
      /\ WholeAt(d)
  BY <1>1, PieceFacts DEF StreamsInv
<1>4. /\ Inside(q)
      /\ Position(c) \in Nat /\ Position(q) \in Nat /\ Position(c) + n <= size
      /\ \/ Position(q) = Position(c) + n
         \/ Position(c) + n = size /\ Position(q) >= size
  BY <1>3, PastPlace
<1>5. First(d) = 0 /\ End(d) = size
  BY <1>1 DEF First, End
<1>6. Len(out[d]) = Position(c)
  BY <1>3, <1>4 DEF WholeAt
<1> HIDE DEF c, q
<1>7. Consecutive(d)' /\ Len(out'[d]) = Len(out[d]) + n
  <2>1. /\ Position(c) \in Int /\ Position(c) = First(d) + Len(out[d])
        /\ Len(out[d]) + n <= End(d) - First(d)
    BY <1>3, <1>4, <1>5, <1>6
  <2> QED BY <1>1, <1>3, <2>1, SendFacts
<1>8. Inside(cursor[d])' /\ Position(cursor[d])' = Position(q)
  BY <1>1, <1>4 DEF Inside, Position, ChunkLength
<1>9. WholeAt(d)'
  BY <1>1, <1>3, <1>4, <1>6, <1>7, <1>8 DEF WholeAt
<1>10. Resolved(d)' /\ Listed(d)'
  BY <1>1, <1>3 DEF Resolved, Listed
<1>11. StreamInv(d)' /\ Onward
  BY <1>1, <1>7, <1>8, <1>9, <1>10 DEF StreamInv, Onward
<1> QED BY <1>2, <1>11, OneStream

LEMMA PieceSkippedKeeps ==
    ASSUME TypeOK, StreamsInv, NEW d \in Downloads, NEW n \in Nat, n > 0,
           n <= ChunkLength(size, cursor[d].index) - cursor[d].at, PieceSkipped(d, n)
    PROVE  StreamsInv'
<1> DEFINE c == cursor[d]
           q == Past(c, n)
<1>1. /\ HasPiece(d) /\ stage[d] = "streaming" /\ ask[d] # Whole
      /\ c.skip > 0 /\ n <= c.skip
      /\ cursor'[d] = [q EXCEPT !.skip = @ - n]
      /\ UNCHANGED <<size, status, stage, ask, list, range, out>>
  BY DEF PieceSkipped, HasPiece, fileVars, TypeOK, DownloadTypeOK
<1>2. \A e \in Downloads : e # d => Same(e)
  BY DEF PieceSkipped, Same, TypeOK, DownloadTypeOK
<1>3. /\ size \in Nat /\ c \in Cursor /\ c.index \in Nat /\ c.at \in Nat
      /\ c.index * ChunkSize < size
      /\ list[d] = ChunkCount(size)
      /\ Resolved(d) /\ Consecutive(d) /\ Len(out[d]) \in Nat
      /\ RangeAt(d)
  BY <1>1, PieceFacts DEF StreamsInv
<1>4. /\ Inside(q)
      /\ Position(c) \in Nat /\ Position(q) \in Nat
      /\ \/ Position(q) = Position(c) + n
         \/ Position(c) + n = size /\ Position(q) >= size
      /\ c.at + n < ChunkLength(size, c.index) => q.index = c.index /\ q.at = c.at + n
  BY <1>3, PastPlace
<1>5. q \in Cursor /\ q.skip = c.skip /\ q.remaining = c.remaining
  <2>1. n \in Int
    OBVIOUS
  <2> QED BY <1>3, <2>1, PastType
<1>6. /\ c.skip \in Nat /\ Len(out[d]) = 0 /\ c.at + c.skip < ChunkLength(size, c.index)
      /\ Position(c) + c.skip = range[d].start + Len(out[d])
      /\ c.remaining = range[d].end + 1 - (range[d].start + Len(out[d]))
      /\ c.remaining > 0
  BY <1>1, <1>3 DEF RangeAt
<1>7. range[d] \in ByteRange
  BY DEF TypeOK, DownloadTypeOK
<1>8. ChunkLength(size, c.index) \in Int
  BY <1>3, ChunkFacts
<1> HIDE DEF c, q
<1>9. q.index = c.index /\ q.at = c.at + n
  <2>1. c.at + n < ChunkLength(size, c.index)
    BY <1>1, <1>3, <1>6, <1>8
  <2> QED BY <1>4, <2>1
<1>10. Position(q) = Position(c) + n
  BY <1>9, <1>3, ChunkSizeAssumption DEF Position
<1>11. /\ cursor'[d].index = c.index /\ cursor'[d].at = c.at + n
       /\ cursor'[d].skip = c.skip - n /\ cursor'[d].remaining = c.remaining
  <2>1. q.skip - n = c.skip - n
    BY <1>5
  <2> QED BY <1>1, <1>5, <1>9, <2>1 DEF Cursor
<1>12. Inside(cursor[d])' /\ Position(cursor[d])' = Position(q)
  BY <1>1, <1>4, <1>9, <1>11 DEF Inside, Position, ChunkLength
<1>13. RangeAt(d)'
  <2>1. ChunkLength(size', cursor'[d].index) = ChunkLength(size, c.index)
    BY <1>1, <1>11
  <2>2. /\ cursor'[d].skip \in Nat /\ Len(out'[d]) = 0
        /\ cursor'[d].at + cursor'[d].skip < ChunkLength(size', cursor'[d].index)
    BY <1>1, <1>3, <1>6, <1>8, <1>11, <2>1
  <2>3. Position(cursor'[d]) + cursor'[d].skip = range'[d].start + Len(out'[d])
    BY <1>1, <1>4, <1>6, <1>10, <1>11, <1>12
  <2>4. /\ cursor'[d].remaining = range'[d].end + 1 - (range'[d].start + Len(out'[d]))
        /\ cursor'[d].remaining > 0
    BY <1>1, <1>6, <1>11
  <2> QED BY <2>2, <2>3, <2>4 DEF RangeAt
<1>14. Resolved(d)' /\ Listed(d)' /\ Consecutive(d)'
  BY <1>1, <1>3 DEF Resolved, Listed, Consecutive, First, End
<1>15. StreamInv(d)' /\ Onward
  BY <1>1, <1>12, <1>13, <1>14 DEF StreamInv, Onward
<1> QED BY <1>2, <1>15, OneStream

LEMMA PieceSentKeeps ==
    ASSUME TypeOK, StreamsInv, NEW d \in Downloads, NEW n \in Nat, n > 0,
           n <= ChunkLength(size, cursor[d].index) - cursor[d].at, PieceSent(d, n)
    PROVE  StreamsInv'
<1> DEFINE c == cursor[d]
           q == Past(c, n)
           first == Position(c) + c.skip
           m == n - c.skip
<1>0. n \in Int
  OBVIOUS
<1>1. /\ HasPiece(d) /\ stage[d] = "streaming" /\ ask[d] # Whole
      /\ UNCHANGED <<size, status, ask, list, range>>
  BY DEF PieceSent, HasPiece, fileVars
<1>2. \A e \in Downloads : e # d => Same(e)
  BY DEF PieceSent, Same, TypeOK, DownloadTypeOK
<1>3. /\ size \in Nat /\ c \in Cursor /\ c.index \in Nat /\ c.at \in Nat
      /\ c.index * ChunkSize < size
      /\ list[d] = ChunkCount(size)
      /\ Resolved(d) /\ Consecutive(d) /\ Len(out[d]) \in Nat
      /\ RangeAt(d)
  BY <1>1, PieceFacts DEF StreamsInv
<1>4. /\ Inside(q)
      /\ Position(c) \in Nat /\ Position(q) \in Nat
      /\ \/ Position(q) = Position(c) + n
         \/ Position(c) + n = size /\ Position(q) >= size
  BY <1>3, PastPlace
<1>5. q \in Cursor
  BY <1>0, <1>3, PastType
<1>6. /\ c.skip \in Nat
      /\ Position(c) + c.skip = range[d].start + Len(out[d])
      /\ c.remaining = range[d].end + 1 - (range[d].start + Len(out[d]))
      /\ c.remaining > 0
  BY <1>3 DEF RangeAt
<1>7. /\ range[d].start \in Nat /\ range[d].end \in Nat /\ range[d].end < size
      /\ First(d) = range[d].start /\ End(d) = range[d].end + 1
  <2>1. range[d] = ParseRange(ask[d], size) /\ range[d] # NoRange /\ IsAsk(ask[d])
    BY <1>1, <1>3 DEF Resolved, TypeOK, DownloadTypeOK
  <2> QED BY <1>1, <1>3, <2>1, RangeFacts DEF First, End
<1>8. /\ n > c.skip
      /\ \/ /\ m >= c.remaining
            /\ out' = [out EXCEPT ![d] = @ \o Bytes(first, c.remaining)]
            /\ stage' = [stage EXCEPT ![d] = "done"] /\ cursor' = cursor
         \/ /\ m < c.remaining
            /\ out' = [out EXCEPT ![d] = @ \o Bytes(first, m)]
            /\ cursor' = [cursor EXCEPT ![d] = [q EXCEPT !.skip = 0, !.remaining = @ - m]]
            /\ stage' = stage
  BY <1>0, SentCases DEF TypeOK
<1>9. /\ first \in Int /\ first = First(d) + Len(out[d])
      /\ c.remaining \in Nat /\ Len(out[d]) + c.remaining = End(d) - First(d)
      /\ m \in Nat /\ m > 0
  <2>1. Position(c) \in Nat /\ c.skip \in Nat /\ Len(out[d]) \in Nat
    BY <1>3, <1>4, <1>6
  <2>2. first \in Int /\ first = First(d) + Len(out[d])
    BY <1>6, <1>7, <2>1
  <2>3. m \in Nat /\ m > 0
    BY <1>8, <2>1
  <2>4. c.remaining \in Nat
    BY <1>6, <1>7, <2>1
  <2>5. Len(out[d]) + c.remaining = End(d) - First(d)
    <3>1. range[d].start \in Int /\ range[d].end \in Int /\ Len(out[d]) \in Int
      BY <1>7, <2>1
    <3>2. Len(out[d]) + (range[d].end + 1 - (range[d].start + Len(out[d])))
             = (range[d].end + 1) - range[d].start
      BY <3>1
    <3> QED BY <1>6, <1>7, <3>2
  <2> QED BY <2>2, <2>3, <2>4, <2>5
<1>10. Resolved(d)' /\ Listed(d)' /\ Onward
  BY <1>1, <1>3 DEF Resolved, Listed, Onward
<1> HIDE DEF c, q, first, m
<1>11. CASE /\ m >= c.remaining
            /\ out' = [out EXCEPT ![d] = @ \o Bytes(first, c.remaining)]
            /\ stage' = [stage EXCEPT ![d] = "done"] /\ cursor' = cursor
  <2>1. out'[d] = out[d] \o Bytes(first, c.remaining) /\ stage'[d] = "done"
    BY <1>11 DEF TypeOK, DownloadTypeOK
  <2>2. Consecutive(d)' /\ Len(out'[d]) = Len(out[d]) + c.remaining
    <3>1. Len(out[d]) + c.remaining <= End(d) - First(d)
      BY <1>7, <1>9
    <3> QED BY <1>1, <1>3, <1>9, <2>1, <3>1, SendFacts
  <2>3. Len(out'[d]) = End(d)' - First(d)'
    BY <1>1, <1>9, <2>2 DEF First, End
  <2>4. StreamInv(d)'
    BY <1>10, <2>1, <2>2, <2>3 DEF StreamInv
  <2> QED BY <1>2, <1>10, <2>4, OneStream
<1>12. CASE /\ m < c.remaining
            /\ out' = [out EXCEPT ![d] = @ \o Bytes(first, m)]
            /\ cursor' = [cursor EXCEPT ![d] = [q EXCEPT !.skip = 0, !.remaining = @ - m]]
            /\ stage' = stage
  <2>1. /\ out'[d] = out[d] \o Bytes(first, m) /\ stage'[d] = "streaming"
        /\ cursor'[d] = [q EXCEPT !.skip = 0, !.remaining = @ - m]
    BY <1>1, <1>12 DEF TypeOK, DownloadTypeOK
  <2>2. Len(out[d]) + m <= End(d) - First(d)
    BY <1>3, <1>9, <1>12
  <2>3. Consecutive(d)' /\ Len(out'[d]) = Len(out[d]) + m
    BY <1>1, <1>3, <1>9, <2>1, <2>2, SendFacts
  <2>4. /\ cursor'[d].index = q.index /\ cursor'[d].at = q.at
        /\ cursor'[d].skip = 0 /\ cursor'[d].remaining = q.remaining - m
    BY <1>5, <2>1 DEF Cursor
  <2>5. Inside(cursor[d])' /\ Position(cursor[d])' = Position(q)
    BY <1>1, <1>4, <2>4 DEF Inside, Position, ChunkLength
  <2>6. Position(q) = Position(c) + n
    <3>1. /\ Position(c) \in Int /\ c.skip \in Int /\ Len(out[d]) \in Int
          /\ c.remaining \in Int /\ range[d].start \in Int /\ range[d].end \in Int
      BY <1>3, <1>4, <1>6, <1>7, <1>9, SMTT(30)
    <3>2. n < c.remaining + c.skip
      BY <1>0, <1>12, <3>1 DEF m
    <3> DEFINE sent == range[d].start + Len(out[d])
    <3>3. sent \in Int /\ c.remaining = range[d].end + 1 - sent /\ Position(c) + c.skip = sent
      BY <1>6, <3>1
    <3> HIDE DEF sent
    <3>4. c.remaining + c.skip + Position(c) = range[d].end + 1
      BY <3>1, <3>3, Z3
    <3>5. size \in Int
      BY <1>3
    <3>6. Position(c) + n # size
      BY <1>0, <1>7, <3>1, <3>2, <3>4, <3>5, Z3
    <3> QED BY <1>4, <3>6
  <2>7. q.remaining = c.remaining
    BY <1>0, <1>3, PastType DEF q
  <2>8. RangeAt(d)'
    <3>1. Position(cursor'[d]) + cursor'[d].skip = range'[d].start + Len(out'[d])
      <4>1. Position(q) = range[d].start + (Len(out[d]) + m)
        <5>1. Position(c) \in Int /\ c.skip \in Int /\ n \in Int
          BY <1>0, <1>4, <1>6
        <5>2. Position(c) + n = (Position(c) + c.skip) + (n - c.skip)
          BY <5>1
        <5>3. Position(c) + n = (range[d].start + Len(out[d])) + m
          BY <1>6, <5>2 DEF m
        <5> QED BY <1>3, <1>7, <1>9, <2>6, <5>3, SMTT(30)
      <4> QED BY <1>1, <1>4, <2>3, <2>4, <2>5, <4>1
    <3>2. /\ cursor'[d].remaining = range'[d].end + 1 - (range'[d].start + Len(out'[d]))
          /\ cursor'[d].remaining > 0
      <4>1. cursor'[d].remaining = c.remaining - m
        BY <2>4, <2>7
      <4>2. /\ c.remaining - m > 0
            /\ c.remaining - m = range[d].end + 1 - (range[d].start + (Len(out[d]) + m))
        <5>1. /\ range[d].start \in Int /\ range[d].end \in Int /\ Len(out[d]) \in Int
              /\ m \in Int
          BY <1>3, <1>7, <1>9
        <5>2. c.remaining - m = range[d].end + 1 - (range[d].start + (Len(out[d]) + m))
          <6>1. (range[d].end + 1 - (range[d].start + Len(out[d]))) - m
                   = range[d].end + 1 - (range[d].start + (Len(out[d]) + m))
            BY <5>1
          <6> QED BY <1>6, <6>1
        <5> QED BY <1>9, <1>12, <5>2
      <4> QED BY <1>1, <2>3, <4>1, <4>2
    <3> QED BY <2>4, <3>1, <3>2 DEF RangeAt
  <2>9. StreamInv(d)'
    BY <1>1, <1>10, <2>1, <2>3, <2>5, <2>8 DEF StreamInv
  <2> QED BY <1>2, <1>10, <2>9, OneStream
<1> QED BY <1>8, <1>11, <1>12 DEF c, q, first, m

(* A range never runs out of chunks: its last byte is in the last of them.  *)
LEMMA EndKeeps ==
    ASSUME TypeOK, StreamsInv, NEW d \in Downloads, StreamEnds(d) \/ StreamBreaks(d)
    PROVE  StreamsInv'
<1>1. /\ stage[d] = "streaming" /\ UNCHANGED <<size, status, ask, list, range, cursor, out>>
      /\ \/ stage'[d] = "broken"
         \/ stage'[d] = "done" /\ cursor[d].index > LastIndex(d)
  BY DEF StreamEnds, StreamBreaks, Move, fileVars, streamVars, TypeOK, DownloadTypeOK
<1>2. \A e \in Downloads : e # d => Same(e)
  BY DEF StreamEnds, StreamBreaks, Move, Same, fileVars, streamVars, TypeOK, DownloadTypeOK
<1>3. /\ size \in Nat /\ cursor[d] \in Cursor /\ out[d] \in Seq(Int) /\ list[d] \in Nat
      /\ Resolved(d) /\ Consecutive(d) /\ Inside(cursor[d]) /\ Listed(d)
      /\ IF ask[d] = Whole THEN WholeAt(d) ELSE RangeAt(d)
      /\ IsAsk(ask[d])
  BY <1>1, DownloadAssumption DEF StreamsInv, StreamInv, TypeOK, DownloadTypeOK
<1>4. Resolved(d)' /\ Consecutive(d)' /\ Onward
  BY <1>1, <1>3 DEF Resolved, Consecutive, First, End, Onward
<1>5. CASE stage'[d] = "broken"
  <2>1. StreamInv(d)'
    BY <1>4, <1>5 DEF StreamInv
  <2> QED BY <1>2, <1>4, <2>1, OneStream
<1>6. CASE stage'[d] = "done" /\ cursor[d].index > LastIndex(d)
  <2> DEFINE c == cursor[d]
  <2>1. c.index \in Nat /\ c.at \in Nat /\ Position(c) = c.index * ChunkSize + c.at
    BY <1>3 DEF Inside, Position
  <2>2. ChunkSize \in Nat /\ ChunkSize > 0 /\ c.index * ChunkSize \in Int
    BY <2>1, ChunkSizeAssumption
  <2>3. ask[d] = Whole
    <3> SUFFICES ASSUME ask[d] # Whole PROVE FALSE
      OBVIOUS
    <3> DEFINE e == range[d].end
    <3>1. /\ range[d].start \in Nat /\ e \in Nat
      BY <1>3, RangeFacts DEF Resolved
    <3>2. /\ IndexOf(e) \in Nat /\ IndexOf(e) * ChunkSize \in Int
          /\ e < IndexOf(e) * ChunkSize + ChunkSize
      BY <3>1, <2>2, IndexBound
    <3>3. IndexOf(e) + 1 <= c.index
      BY <1>6, <2>1, <3>2 DEF LastIndex
    <3>4. (IndexOf(e) + 1) * ChunkSize <= c.index * ChunkSize
      BY <2>1, <3>2, <3>3, Monotone
    <3>5. (IndexOf(e) + 1) * ChunkSize = IndexOf(e) * ChunkSize + ChunkSize
      BY <2>2, <3>2
    <3>6. /\ c.skip \in Nat /\ c.remaining > 0
          /\ Position(c) + c.skip = range[d].start + Len(out[d])
          /\ c.remaining = e + 1 - (range[d].start + Len(out[d]))
      BY <1>3 DEF RangeAt
    <3>7. Len(out[d]) \in Nat
      BY <1>3
    <3> HIDE DEF c, e
    <3>8. e < c.index * ChunkSize
      BY <2>2, <3>1, <3>2, <3>4, <3>5
    <3>9. e < Position(c)
      BY <2>1, <2>2, <3>1, <3>8
    <3>10. Position(c) \in Int
      BY <2>1, <2>2
    <3> QED BY <3>1, <3>6, <3>7, <3>9, <3>10
  <2>4. First(d) = 0 /\ End(d) = size /\ First(d)' = 0 /\ End(d)' = size
    BY <1>1, <2>3 DEF First, End
  <2>5. CASE list[d] = ChunkCount(size)
    <3>1. ~(c.index < ChunkCount(size))
      BY <1>3, <1>6, <2>1, <2>3, <2>5 DEF LastIndex
    <3>2. ~(c.index * ChunkSize < size)
      BY <1>3, <2>1, <3>1, CountBound
    <3>3. Position(c) >= size
      BY <1>3, <2>1, <2>2, <3>2
    <3>4. Len(out[d]) = size
      BY <1>3, <2>3, <3>3 DEF WholeAt
    <3>5. Len(out'[d]) = End(d)' - First(d)'
      BY <1>1, <1>3, <2>4, <3>4
    <3>6. StreamInv(d)'
      BY <1>4, <1>6, <3>5 DEF StreamInv
    <3> QED BY <1>2, <1>4, <3>6, OneStream
  <2>6. CASE list[d] = 0 /\ status = "gone" /\ out[d] = <<>>
    <3>1. StreamInv(d)'
      BY <1>1, <1>4, <1>6, <2>3, <2>6 DEF StreamInv
    <3> QED BY <1>2, <1>4, <3>1, OneStream
  <2> QED BY <1>3, <2>3, <2>5, <2>6 DEF Listed
<1> QED BY <1>1, <1>5, <1>6

LEMMA StreamKeeps ==
    ASSUME TypeOK, StreamsInv, NEW d \in Downloads, StreamStep(d) PROVE StreamsInv'
<1>1. CASE Piece(d)
  <2>1. PICK n \in 1 .. (ChunkLength(size, cursor[d].index) - cursor[d].at) :
           PieceWhole(d, n) \/ PieceSkipped(d, n) \/ PieceSent(d, n)
    BY <1>1 DEF Piece
  <2>2. ChunkLength(size, cursor[d].index) - cursor[d].at \in Int
    <3>1. size \in Nat /\ cursor[d].index \in Int /\ cursor[d].at \in Int
      BY DownloadAssumption DEF TypeOK, DownloadTypeOK, Cursor
    <3>2. ChunkLength(size, cursor[d].index) \in Int
      BY <3>1, ChunkFacts
    <3> QED BY <3>1, <3>2
  <2>3. /\ n \in Nat /\ n > 0
        /\ n <= ChunkLength(size, cursor[d].index) - cursor[d].at
    BY <2>2
  <2> QED BY <2>1, <2>3, PieceWholeKeeps, PieceSkippedKeeps, PieceSentKeeps
<1> QED BY <1>1, EndKeeps DEF StreamStep

LEMMA StreamsInit == Init => StreamsInv
  BY DEF Init, DownloadInit, StreamsInv, StreamInv

LEMMA AllSameKeeps ==
    ASSUME StreamsInv, UNCHANGED <<size, stage, ask, streamVars>>,
           status = "gone" => status' = "gone"
    PROVE  StreamsInv'
  BY SameKeeps DEF StreamsInv, Same, Onward, streamVars

LEMMA StreamsStep == IInv /\ StreamsInv /\ [Next]_vars => StreamsInv'
  <1> SUFFICES ASSUME TypeOK, GateInv, StreamsInv, [Next]_vars PROVE StreamsInv'
    BY DEF IInv
  <1>1. CASE \/ UNCHANGED vars
             \/ CreateLoad \/ CreateInsert \/ RevokeLoad \/ RevokeWrite \/ Expire \/ FileGone
             \/ FileStep
    <2>1. UNCHANGED <<size, stage, ask, streamVars>> /\ (status = "gone" => status' = "gone")
      BY <1>1 DEF vars, downloadVars, fileVars, CreateLoad, CreateInsert, RevokeLoad,
                  RevokeWrite, Expire, FileGone, RowsGone, FileStep, UploadCommit, SoftDelete
    <2> QED BY <2>1, AllSameKeeps
  <1>2. ASSUME NEW d \in Downloads, \/ Resolve(d) \/ LoadName(d) \/ Count(d)
                                    \/ OwnerLoad(d) \/ Open(d) \/ RangeRefused(d)
        PROVE  StreamsInv'
    <2>1. stage[d] \notin {"streaming", "done", "broken"}
      BY <1>2 DEF Resolve, LoadName, Count, OwnerLoad, Open, RangeRefused, Move
    <2>2. Onward /\ UNCHANGED streamVars
      BY <1>2 DEF Resolve, LoadName, Count, OwnerLoad, Open, RangeRefused, Onward, fileVars
    <2>3. PICK to : /\ to \notin {"streaming", "done", "broken"}
                    /\ stage' = [stage EXCEPT ![d] = to]
      <3>1. PICK to \in {"refused", "forbidden", "resolved", "named", "loaded", "opened"} :
               stage' = [stage EXCEPT ![d] = to]
        BY <1>2 DEF Resolve, LoadName, Count, OwnerLoad, Open, RangeRefused, Move, Enforced
      <3> QED BY <3>1
    <2>4. \A e \in Downloads : e # d => ask'[e] = ask[e]
      <3>1. CASE Resolve(d) \/ OwnerLoad(d)
        <4>1. PICK a : ask' = [ask EXCEPT ![d] = a]
          BY <3>1 DEF Resolve, OwnerLoad
        <4> QED BY <4>1 DEF TypeOK, DownloadTypeOK
      <3>2. CASE LoadName(d) \/ Count(d) \/ Open(d) \/ RangeRefused(d)
        BY <3>2 DEF LoadName, Count, Open, RangeRefused
      <3> QED BY <1>2, <3>1, <3>2
    <2> QED BY <2>1, <2>2, <2>3, <2>4, EarlyKeeps
  <1>3. ASSUME NEW d \in Downloads, OpenStream(d) \/ Restart(d) \/ StreamStep(d)
        PROVE  StreamsInv'
    BY <1>3, ListWholeKeeps, ListRangeKeeps, AgainKeeps, StreamKeeps DEF OpenStream, Restart
  <1> QED BY <1>1, <1>2, <1>3 DEF Next, DownloadStep

(* Every stream sends the bytes asked for, in order and once, however       *)
(* Telegram cuts its pieces, for any file and chunk size; one that ends     *)
(* normally has sent them all, or its file went while it was being opened   *)
(* (storage/download.py 185-229).                                           *)
THEOREM StreamsExact == Spec => []StreamExact
<1>1. Init => StreamsInv
  BY StreamsInit
<1>2. Spec => []StreamsInv
  BY <1>1, StreamsStep, Invariance, PTL DEF Spec
<1>3. IInv /\ StreamsInv => StreamExact
  <2> SUFFICES ASSUME TypeOK, StreamsInv, NEW d \in Downloads
               PROVE  SentExactly(d) /\ CompleteIfDone(d)
    BY DEF IInv, StreamExact
  <2>1. /\ size \in Nat /\ out[d] \in Seq(Int) /\ Len(out[d]) \in Nat /\ IsAsk(ask[d])
        /\ DOMAIN out[d] = 1 .. Len(out[d])
    BY DownloadAssumption DEF TypeOK, DownloadTypeOK
  <2>2. CASE stage[d] \notin {"streaming", "done", "broken"}
    <3>1. out[d] = <<>> /\ stage[d] # "done"
      BY <2>2 DEF StreamsInv, StreamInv
    <3>2. DOMAIN out[d] = {}
      BY <3>1
    <3> QED BY <3>1, <3>2 DEF SentExactly, CompleteIfDone
  <2>3. CASE stage[d] \in {"streaming", "done", "broken"}
    <3> DEFINE wanted == Wanted(ask[d], size)
               f == First(d)
               e == End(d)
    <3>1. Resolved(d) /\ Consecutive(d)
      BY <2>3 DEF StreamsInv, StreamInv
    <3>2. f \in Nat /\ e \in Int /\ wanted = f .. (e - 1)
      <4>1. CASE ask[d] = Whole
        <5>1. Wanted(ask[d], size) = 0 .. (size - 1)
          BY <4>1 DEF Wanted, Whole
        <5> QED BY <2>1, <4>1, <5>1 DEF First, End
      <4>2. CASE ask[d] # Whole
        <5>1. range[d] = ParseRange(ask[d], size) /\ range[d] # NoRange
          BY <3>1, <4>2 DEF Resolved
        <5>2. range[d].start \in Nat /\ range[d].end \in Nat
          BY <2>1, <4>2, <5>1, RangeFacts
        <5>3. range[d].start .. range[d].end = Wanted(ask[d], size)
          BY <2>1, <4>2, <5>1, ParseExact
        <5>4. f = range[d].start /\ e = range[d].end + 1 /\ e - 1 = range[d].end
          BY <4>2, <5>2 DEF First, End
        <5> QED BY <5>2, <5>3, <5>4
      <4> QED BY <4>1, <4>2
    <3>3. /\ Len(out[d]) <= e - f
          /\ \A i \in 1 .. Len(out[d]) : out[d][i] = f + i - 1
      BY <3>1 DEF Consecutive
    <3> HIDE DEF wanted, f, e
    <3>4. \A i \in DOMAIN out[d] : out[d][i] \in wanted
      BY <2>1, <3>2, <3>3
    <3>5. ASSUME NEW i \in DOMAIN out[d], NEW b \in wanted, b < out[d][i]
          PROVE  \E j \in 1 .. (i - 1) : out[d][j] = b
      <4>1. i \in 1 .. Len(out[d]) /\ b \in Nat /\ f <= b /\ b < f + i - 1
        BY <2>1, <3>2, <3>3, <3>5
      <4>2. b - f + 1 \in 1 .. (i - 1) /\ b - f + 1 \in 1 .. Len(out[d])
        BY <2>1, <3>2, <4>1
      <4>3. out[d][b - f + 1] = b
        <5>1. out[d][b - f + 1] = f + (b - f + 1) - 1
          BY <3>3, <4>2
        <5> QED BY <3>2, <4>1, <5>1
      <4> QED BY <4>2, <4>3
    <3>6. ASSUME NEW i \in DOMAIN out[d], NEW j \in 1 .. (i - 1) PROVE out[d][j] < out[d][i]
      <4>1. i \in 1 .. Len(out[d]) /\ j \in 1 .. Len(out[d]) /\ j < i
        BY <2>1, <3>6
      <4>2. out[d][i] = f + i - 1 /\ out[d][j] = f + j - 1
        BY <3>3, <4>1
      <4> QED BY <3>2, <4>1, <4>2
    <3>7. SentExactly(d)
      BY <3>4, <3>5, <3>6 DEF SentExactly, wanted
    <3>8. CompleteIfDone(d)
      <4> SUFFICES ASSUME stage[d] = "done", ~(status = "gone" /\ ask[d] = Whole /\ out[d] = <<>>),
                          NEW b \in wanted
                   PROVE  \E i \in DOMAIN out[d] : out[d][i] = b
        BY DEF CompleteIfDone, wanted
      <4>1. Len(out[d]) = e - f
        BY DEF StreamsInv, StreamInv, e, f
      <4>2. b - f + 1 \in 1 .. Len(out[d]) /\ b \in Nat
        BY <2>1, <3>2, <4>1
      <4>3. out[d][b - f + 1] = b
        BY <3>2, <3>3, <4>2
      <4> QED BY <2>1, <4>2, <4>3
    <3> QED BY <3>7, <3>8
  <2> QED BY <2>2, <2>3
<1> QED BY <1>2, <1>3, Invariance, PTL
=============================================================================
