------------------------------- MODULE Ranges -------------------------------
(****************************************************************************)
(* The byte arithmetic of downloads: how a file is cut into chunks          *)
(* (shared/helpers.py) and which bytes a Range header asks for              *)
(* (storage/download.py parse_range).  Bytes are numbered from 0.           *)
(****************************************************************************)
EXTENDS Integers

CONSTANT ChunkSize      \* CHUNK_SIZE, 18 MiB in the code

ASSUME ChunkSizeAssumption == ChunkSize \in Nat \ {0}

(* compute_chunk_count: ceiling division.                                   *)
ChunkCount(size) == -((-size) \div ChunkSize)

(* locate_byte: the chunk a byte is in, and its place in that chunk.        *)
IndexOf(byte) == byte \div ChunkSize
OffsetOf(byte) == byte % ChunkSize

(* All chunks are full but the last one.                                    *)
ChunkLength(size, index) ==
    LET rest == size - index * ChunkSize
    IN  IF rest < ChunkSize THEN rest ELSE ChunkSize

-----------------------------------------------------------------------------
(* What a request may ask for: the whole file (no Range header), one of the *)
(* three forms of a range, or a header that cannot be parsed.               *)
Whole == [form |-> "whole"]
Malformed == [form |-> "malformed"]
Span(from, to) == [form |-> "span", from |-> from, to |-> to]  \* bytes=from-to
From(from) == [form |-> "from", from |-> from]                 \* bytes=from-
Suffix(n) == [form |-> "suffix", n |-> n]                      \* bytes=-n

IsAsk(a) ==
    \/ a = Whole \/ a = Malformed
    \/ a.form = "span" /\ a.from \in Nat /\ a.to \in Nat
    \/ a.form = "from" /\ a.from \in Nat
    \/ a.form = "suffix" /\ a.n \in Nat

(* The error, 416 or 422: the range with no byte.                           *)
NoRange == [start |-> 0, end |-> -1]

(* Mutant: the clamp lets the byte after the last one through.              *)
Clamp_Late(start, end, size) ==
    LET last == IF end > size THEN size - 1 ELSE end
    IN  IF start < 0 \/ start > last \/ start >= size
        THEN NoRange ELSE [start |-> start, end |-> last]

(* _clamp_and_validate                                                      *)
Clamp(start, end, size) ==
    LET last == IF end >= size THEN size - 1 ELSE end
    IN  IF start < 0 \/ start > last \/ start >= size
        THEN NoRange ELSE [start |-> start, end |-> last]

SuffixStart(n, size) == IF size > n THEN size - n ELSE 0

(* parse_range                                                              *)
ParseRange(ask, size) ==
    CASE ask.form = "malformed" -> NoRange
      [] ask.form = "span"   -> Clamp(ask.from, ask.to, size)
      [] ask.form = "from"   -> Clamp(ask.from, size - 1, size)
      [] ask.form = "suffix" ->
            IF ask.n <= 0 THEN NoRange
            ELSE Clamp(SuffixStart(ask.n, size), size - 1, size)

-----------------------------------------------------------------------------
(* The reference: the bytes of the file that the request names.             *)
Wanted(ask, size) ==
    { b \in 0 .. (size - 1) :
        CASE ask.form = "whole"     -> TRUE
          [] ask.form = "malformed" -> FALSE
          [] ask.form = "span"      -> ask.from <= b /\ b <= ask.to
          [] ask.form = "from"      -> ask.from <= b
          [] ask.form = "suffix"    -> b >= size - ask.n }
=============================================================================
