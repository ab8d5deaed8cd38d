------------------------------ MODULE Download ------------------------------
(****************************************************************************)
(* Downloads of one file: files/service.py open_file_download and           *)
(* storage/download.py.  The file row is read, then (again, by storage) its *)
(* state, then its chunk rows; after that the response streams the chunks   *)
(* from Telegram piece by piece, while the upload may still be under way    *)
(* and a soft delete and a cleanup job may remove the rows between any two  *)
(* steps.  Telegram may fail at any piece.                                  *)
(****************************************************************************)
EXTENDS Ranges, Sequences

CONSTANTS
    Downloads,      \* downloads that may be under way at once
    Owners,         \* those of them the owner makes, signed in
    Asks,           \* what each download may ask for
    MaxSize         \* bound on the file's size in bytes

ASSUME DownloadAssumption ==
    /\ Owners \subseteq Downloads
    /\ \A d \in Downloads : \A a \in Asks[d] : IsAsk(a)
    /\ MaxSize \in Nat

VARIABLES
    size,       \* the file's size
    status,     \* its state: deleting is set together with deleted_at
    stage,      \* where each download is
    ask,        \* what it asks for
    list,       \* the number of chunk rows it was given, indexed from 0
    range,      \* the range it resolved to
    cursor,     \* where its stream is
    out         \* the bytes it has sent

fileVars == <<size, status>>
streamVars == <<list, range, cursor, out>>
downloadVars == <<fileVars, stage, ask, streamVars>>

Stages == {"idle", "resolved", "named", "loaded", "opened", "streaming",
           "done", "broken", "refused", "forbidden"}

(* index, at: the chunk and the place in it that is read next; skip: bytes  *)
(* still to be dropped; remaining: bytes still to be sent.                  *)
AtStart == [index |-> 0, at |-> 0, skip |-> 0, remaining |-> 0]

ByteRange == [start : Int, end : Int]
Cursor == [index : Int, at : Int, skip : Int, remaining : Int]

DownloadTypeOK ==
    /\ size \in 0 .. MaxSize
    /\ status \in {"pending", "committed", "deleting", "gone"}
    /\ stage \in [Downloads -> Stages]
    /\ DOMAIN ask = Downloads
    /\ \A d \in Downloads : IsAsk(ask[d])
    /\ list \in [Downloads -> Nat]
    /\ range \in [Downloads -> ByteRange]
    /\ cursor \in [Downloads -> Cursor]
    /\ out \in [Downloads -> Seq(Int)]

DownloadInit ==
    /\ size \in 0 .. MaxSize
    /\ status = "pending"
    /\ stage = [d \in Downloads |-> "idle"]
    /\ ask = [d \in Downloads |-> Whole]
    /\ list = [d \in Downloads |-> 0]
    /\ range = [d \in Downloads |-> NoRange]
    /\ cursor = [d \in Downloads |-> AtStart]
    /\ out = [d \in Downloads |-> <<>>]

(****************************************************************************)
(* The file.                                                                *)
(****************************************************************************)

(* The last call of the upload: every chunk row is there by then.           *)
UploadCommit ==
    /\ status = "pending"
    /\ status' = "committed"
    /\ UNCHANGED <<size, stage, ask, streamVars>>

SoftDelete ==
    /\ status = "committed"
    /\ status' = "deleting"
    /\ UNCHANGED <<size, stage, ask, streamVars>>

(* A cleanup job deletes the row; the chunk rows go with it, in one call.   *)
RowsGone ==
    /\ status = "deleting"
    /\ status' = "gone"
    /\ UNCHANGED <<size, stage, ask, streamVars>>

Live == status \in {"pending", "committed"}

(****************************************************************************)
(* Opening a download.                                                      *)
(****************************************************************************)

Move(d, from, to) == stage[d] = from /\ stage' = [stage EXCEPT ![d] = to]

(* open_file_download: the owner's own check of the row.                    *)
OwnerLoad(d) ==
    /\ d \in Owners
    /\ \E a \in Asks[d] : ask' = [ask EXCEPT ![d] = a]
    /\ Move(d, "idle", IF Live THEN "loaded" ELSE "refused")
    /\ UNCHANGED <<fileVars, streamVars>>

(* open_download reads the row again: not_found or upload_incomplete unless *)
(* the file is committed.                                                   *)
Open(d) ==
    /\ Move(d, "loaded", IF status = "committed" THEN "opened" ELSE "refused")
    /\ UNCHANGED <<fileVars, ask, streamVars>>

ChunkRows == IF status = "gone" THEN 0 ELSE ChunkCount(size)

(* No Range header: _stream_all over the rows found.                        *)
ListWhole(d) ==
    /\ ask[d] = Whole
    /\ Move(d, "opened", "streaming")
    /\ list' = [list EXCEPT ![d] = ChunkRows]
    /\ cursor' = [cursor EXCEPT ![d] = AtStart]
    /\ UNCHANGED <<fileVars, ask, range, out>>

StartOf(r) ==
    [index |-> IndexOf(r.start), at |-> 0, skip |-> OffsetOf(r.start),
     remaining |-> r.end - r.start + 1]

(* A range is resolved against the size in the row read before; the stream  *)
(* begins at the chunk that holds its first byte.                           *)
ListRange(d) ==
    /\ ask[d] # Whole
    /\ LET r == ParseRange(ask[d], size) IN
       /\ r # NoRange
       /\ Move(d, "opened", "streaming")
       /\ range' = [range EXCEPT ![d] = r]
       /\ cursor' = [cursor EXCEPT ![d] = StartOf(r)]
       /\ list' = [list EXCEPT ![d] = ChunkRows]
    /\ UNCHANGED <<fileVars, ask, out>>

(* 416, or 422.                                                             *)
RangeRefused(d) ==
    /\ ask[d] # Whole
    /\ ParseRange(ask[d], size) = NoRange
    /\ Move(d, "opened", "refused")
    /\ UNCHANGED <<fileVars, ask, streamVars>>

(****************************************************************************)
(* Streaming: get_file_stream, chunk by chunk, piece by piece.              *)
(****************************************************************************)

(* The bytes b, b + 1, ... of a piece of n bytes.                           *)
Bytes(b, n) == [i \in 1 .. n |-> b + i - 1]

LastIndex(d) == IF ask[d] = Whole THEN list[d] - 1 ELSE IndexOf(range[d].end)

HasPiece(d) ==
    /\ stage[d] = "streaming"
    /\ cursor[d].index <= LastIndex(d)
    /\ cursor[d].index < list[d]

(* The cursor after a piece of n bytes: in the same chunk, or at the start  *)
(* of the next one.                                                         *)
Past(c, n) ==
    IF c.at + n = ChunkLength(size, c.index)
    THEN [c EXCEPT !.index = @ + 1, !.at = 0]
    ELSE [c EXCEPT !.at = @ + n]

(* The number of the byte under the cursor.                                 *)
Position(c) == c.index * ChunkSize + c.at

(* _stream_all: a piece is passed on as it comes.                           *)
PieceWhole(d, n) ==
    /\ HasPiece(d) /\ ask[d] = Whole
    /\ out' = [out EXCEPT ![d] = @ \o Bytes(Position(cursor[d]), n)]
    /\ cursor' = [cursor EXCEPT ![d] = Past(cursor[d], n)]
    /\ UNCHANGED <<fileVars, stage, ask, list, range>>

(* _stream_range: the piece lies before the first byte wanted.              *)
PieceSkipped(d, n) ==
    /\ HasPiece(d) /\ ask[d] # Whole
    /\ cursor[d].skip > 0 /\ n <= cursor[d].skip
    /\ cursor' = [cursor EXCEPT ![d] = [Past(cursor[d], n) EXCEPT !.skip = @ - n]]
    /\ UNCHANGED <<fileVars, stage, ask, list, range, out>>

(* Mutant: the bytes to skip are dropped from every piece.                  *)
PieceSent_SkipKept(d, n) ==
    /\ HasPiece(d) /\ ask[d] # Whole
    /\ n > cursor[d].skip
    /\ LET c == cursor[d]
           useful == n - c.skip
           first == Position(c) + c.skip
       IN  IF useful >= c.remaining
           THEN /\ out' = [out EXCEPT ![d] = @ \o Bytes(first, c.remaining)]
                /\ stage' = [stage EXCEPT ![d] = "done"]
                /\ UNCHANGED cursor
           ELSE /\ out' = [out EXCEPT ![d] = @ \o Bytes(first, useful)]
                /\ cursor' = [cursor EXCEPT ![d] = [Past(c, n) EXCEPT !.remaining = @ - useful]]
                /\ UNCHANGED stage
    /\ UNCHANGED <<fileVars, ask, list, range>>

(* What is left of the piece is sent, cut at the end of the range, with     *)
(* which the stream ends.                                                   *)
PieceSent(d, n) ==
    /\ HasPiece(d) /\ ask[d] # Whole
    /\ n > cursor[d].skip
    /\ LET c == cursor[d]
           useful == n - c.skip
           first == Position(c) + c.skip
       IN  IF useful >= c.remaining
           THEN /\ out' = [out EXCEPT ![d] = @ \o Bytes(first, c.remaining)]
                /\ stage' = [stage EXCEPT ![d] = "done"]
                /\ UNCHANGED cursor
           ELSE /\ out' = [out EXCEPT ![d] = @ \o Bytes(first, useful)]
                /\ cursor' = [cursor EXCEPT ![d] =
                       [Past(c, n) EXCEPT !.skip = 0, !.remaining = @ - useful]]
                /\ UNCHANGED stage
    /\ UNCHANGED <<fileVars, ask, list, range>>

Piece(d) ==
    /\ HasPiece(d)
    /\ \E n \in 1 .. (ChunkLength(size, cursor[d].index) - cursor[d].at) :
          PieceWhole(d, n) \/ PieceSkipped(d, n) \/ PieceSent(d, n)

(* The last chunk has been read to its end.                                 *)
StreamEnds(d) ==
    /\ cursor[d].index > LastIndex(d)
    /\ Move(d, "streaming", "done")
    /\ UNCHANGED <<fileVars, ask, streamVars>>

(* chunks_by_index has no such chunk (KeyError), or Telegram fails: the     *)
(* response, already begun, is cut off.                                     *)
StreamBreaks(d) ==
    /\ cursor[d].index <= LastIndex(d)
    /\ Move(d, "streaming", "broken")
    /\ UNCHANGED <<fileVars, ask, streamVars>>

Finished(d) == stage[d] \in {"done", "broken", "refused", "forbidden"}

(* The same client asks again.                                              *)
Again(d) ==
    /\ Finished(d)
    /\ stage' = [stage EXCEPT ![d] = "idle"]
    /\ ask' = [ask EXCEPT ![d] = Whole]
    /\ list' = [list EXCEPT ![d] = 0]
    /\ range' = [range EXCEPT ![d] = NoRange]
    /\ cursor' = [cursor EXCEPT ![d] = AtStart]
    /\ out' = [out EXCEPT ![d] = <<>>]
    /\ UNCHANGED fileVars

StreamStep(d) == Piece(d) \/ StreamEnds(d) \/ StreamBreaks(d)

DownloadNext ==
    \/ UploadCommit \/ SoftDelete \/ RowsGone
    \/ \E d \in Downloads :
          OwnerLoad(d) \/ Open(d) \/ ListWhole(d) \/ ListRange(d) \/ RangeRefused(d)
          \/ StreamStep(d) \/ Again(d)

DownloadSpec == DownloadInit /\ [][DownloadNext]_downloadVars

-----------------------------------------------------------------------------
(****************************************************************************)
(* Properties.                                                              *)
(****************************************************************************)

(* The bytes sent so far are consecutive and begin with the first one       *)
(* asked for: no byte is skipped, sent twice or out of order at a chunk or  *)
(* piece boundary, and none beyond the range (storage/download.py 202-208). *)
SentExactly(d) ==
    LET wanted == Wanted(ask[d], size) IN
    /\ \A i \in DOMAIN out[d] : out[d][i] \in wanted
    /\ \A i \in DOMAIN out[d] : \A b \in wanted : b < out[d][i] =>
          \E j \in 1 .. (i - 1) : out[d][j] = b
    /\ \A i \in DOMAIN out[d] : \A j \in 1 .. (i - 1) : out[d][j] < out[d][i]

(* A response that ends normally has sent all it announced, unless the file *)
(* was removed while it was being opened: then a whole download ends with   *)
(* nothing sent.                                                            *)
CompleteIfDone(d) ==
    stage[d] = "done" =>
        \/ \A b \in Wanted(ask[d], size) : \E i \in DOMAIN out[d] : out[d][i] = b
        \/ status = "gone" /\ ask[d] = Whole /\ out[d] = <<>>

(* Every response sends the bytes asked for, in order, whatever the pieces  *)
(* are and whenever the file's rows go; all of them if it ends normally.    *)
StreamExact == \A d \in Downloads : SentExactly(d) /\ CompleteIfDone(d)

(* What a header is resolved to is what it names: it is refused exactly     *)
(* when the file has none of those bytes, and the Content-Range announced   *)
(* is right at both ends (storage/download.py 124-133).                     *)
RangeHonoured ==
    \A d \in Downloads : stage[d] = "opened" /\ ask[d] # Whole =>
        LET r == ParseRange(ask[d], size) IN r.start .. r.end = Wanted(ask[d], size)
=============================================================================
