------------------------------ MODULE Streams ------------------------------
(***************************************************************************)
(* The two streaming transforms between a client and the disk: an upload   *)
(* in aws-chunked framing is decoded while it arrives in pieces of any     *)
(* size, and a GET of what was stored carves its range out of a stream of  *)
(* pieces of any size.                                                     *)
(*                                                                         *)
(* Bytes are strings.  "r" and "n" are CR and LF and occur in payloads     *)
(* too; a digit is a whole size line, a letter of Signatures the one AWS   *)
(* derives for the first, second, ... chunk of this upload, and "t" the    *)
(* line with the payload's checksum.                                       *)
(***************************************************************************)
EXTENDS Integers, FiniteSets, Sequences, SequencesExt

CONSTANTS
  Digits,       \* the size lines for 0, 1, 2, ... bytes
  Signatures,   \* of the first, second, ... chunk
  Bodies,       \* the uploads, each a sequence of chunks of data
  Ranges,       \* the numbers clients put in a Range header
  MaxLine,      \* MAX_LINE_LENGTH
  MaxChunk,     \* MAX_CHUNK_SIZE
  MaxPiece      \* the longest piece a stream delivers at once

VARIABLES
  upload,    \* what the client sends: chunks, signed or not, with a trailer or not
  wire,      \* the bytes that have not arrived yet
  dec,       \* the decoder
  outcome,   \* of the upload: "none", "decoded", "stored", "rejected" or "lost"
  reply      \* the answer to a GET, or NoReply

vars == <<upload, wire, dec, outcome, reply>>

----------------------------------------------------------------------------
(* Framing, as clients write it.                                           *)

NoReply == [status |-> 0]
CRLF == <<"r", "n">>
ValueOf(digit) == CHOOSE n \in 0 .. Len(Digits) - 1 : Digits[n + 1] = digit

Chunk(n, data, signed) == [data |-> data, sig |-> IF signed THEN <<Signatures[n]>> ELSE <<>>]
Chunked(body, signed) == [n \in 1 .. Len(body) |-> Chunk(n, body[n], signed)]

Framed(chunk) ==
  <<Digits[Len(chunk.data) + 1]>> \o chunk.sig \o CRLF \o chunk.data \o CRLF
Ending(trailer) ==
  <<Digits[1]>> \o CRLF \o (IF trailer THEN <<"t">> \o CRLF ELSE <<>>) \o CRLF
Frame(chunks, trailer) ==
  FlattenSeq([n \in 1 .. Len(chunks) |-> Framed(chunks[n])]) \o Ending(trailer)

(* What may become of the chunks: nothing, their order reversed, the first *)
(* or the last one missing, a byte changed, a size line made too long,     *)
(* signatures missing or unasked for.                                      *)
Damaged(chunks) ==
  {chunks, Reverse(chunks)}
    \cup {Tail(cs) : cs \in {chunks} \ {<<>>}} \cup {Front(cs) : cs \in {chunks} \ {<<>>}}
    \cup {[cs EXCEPT ![1].data[1] = "y"] : cs \in {chunks} \ {<<>>}}
    \cup {[cs EXCEPT ![1].sig = @ \o <<"e", "e", "e">>] : cs \in {chunks} \ {<<>>}}
    \cup {[n \in 1 .. Len(chunks) |->
             Chunk(n, chunks[n].data, chunks[n].sig = <<>>)]}

----------------------------------------------------------------------------
(* The decoder's loop, a turn an action; more input is only taken when     *)
(* none of them can go on.                                                 *)

LineEnds == {i \in 1 .. Len(dec.buf) - 1 : SubSeq(dec.buf, i, i + 1) = CRLF}
HasLine == LineEnds # {}
LineLength == (CHOOSE i \in LineEnds : \A j \in LineEnds : i <= j) - 1
Line == SubSeq(dec.buf, 1, LineLength)
Rest(n) == SubSeq(dec.buf, n + 1, Len(dec.buf))

Decoding(state) == outcome = "none" /\ dec.state = state

Waiting ==
  CASE dec.state = "size"    -> ~HasLine /\ Len(dec.buf) <= MaxLine
    [] dec.state = "data"    -> Len(dec.buf) < dec.size
    [] dec.state = "crlf"    -> Len(dec.buf) < 2
    [] dec.state = "trailer" -> dec.buf = <<>> \/ (~HasLine /\ Len(dec.buf) <= MaxLine)
    [] dec.state = "done"    -> TRUE

Reject == outcome' = "rejected" /\ UNCHANGED <<upload, wire, dec, reply>>
Turn(newDec) == dec' = newDec /\ UNCHANGED <<upload, wire, outcome, reply>>

LineTooLong ==
  /\ Decoding("size") \/ Decoding("trailer")
  /\ ~HasLine /\ Len(dec.buf) > MaxLine
  /\ Reject

(* Mutant: a chunk may have any size.                                      *)
GoodSizeLineUnbounded(line) ==
  /\ line # <<>> /\ line[1] \in ToSet(Digits)
  /\ Len(line) = IF upload.signed /\ ValueOf(line[1]) # 0 THEN 2 ELSE 1

GoodSizeLine(line) ==
  /\ line # <<>> /\ line[1] \in ToSet(Digits)
  /\ \/ ValueOf(line[1]) = 0
     \/ /\ ValueOf(line[1]) <= MaxChunk
        /\ \/ Len(line) = 1 /\ ~upload.signed
           \/ Len(line) = 2 /\ line[2] \in ToSet(Signatures) /\ upload.signed

ReadSize ==
  /\ Decoding("size") /\ HasLine
  /\ IF ~GoodSizeLine(Line) THEN Reject
     ELSE LET size == ValueOf(Line[1]) IN
       Turn(IF size = 0
            THEN [dec EXCEPT !.buf = Rest(LineLength + 2), !.state = "trailer"]
            ELSE [dec EXCEPT !.buf = Rest(LineLength + 2), !.state = "data",
                             !.size = size, !.sig = Tail(Line)])

ReadData ==
  /\ Decoding("data") /\ Len(dec.buf) >= dec.size
  /\ Turn([dec EXCEPT !.buf = Rest(dec.size), !.state = "crlf",
                      !.data = SubSeq(dec.buf, 1, dec.size)])

(* The signature of the n-th chunk is over its data and the signature      *)
(* before it, so it verifies only that chunk, and only in that place.      *)
Verified ==
  LET n == Len(dec.out) + 1 IN
    n <= Len(upload.body) /\ dec.sig = <<Signatures[n]>> /\ dec.data = upload.body[n]

(* Mutant: chunks are passed on before they are verified.                  *)
ReadCrlfUnverified ==
  /\ Decoding("crlf") /\ Len(dec.buf) >= 2
  /\ IF SubSeq(dec.buf, 1, 2) # CRLF THEN Reject
     ELSE Turn([dec EXCEPT !.buf = Rest(2), !.state = "size",
                           !.out = Append(@, dec.data)])

ReadCrlf ==
  /\ Decoding("crlf") /\ Len(dec.buf) >= 2
  /\ IF SubSeq(dec.buf, 1, 2) # CRLF \/ (upload.signed /\ ~Verified) THEN Reject
     ELSE Turn([dec EXCEPT !.buf = Rest(2), !.state = "size",
                           !.out = Append(@, dec.data)])

ReadTrailer ==
  /\ Decoding("trailer") /\ HasLine
  /\ CASE Line = <<>>    -> Turn([dec EXCEPT !.buf = Rest(2), !.state = "done"])
       [] Line = <<"t">> -> Turn([dec EXCEPT !.buf = Rest(3), !.checksum = TRUE])
       [] OTHER          -> Reject

Receive ==
  /\ outcome = "none" /\ Waiting
  /\ \E n \in 1 .. MaxPiece :
       /\ n <= Len(wire)
       /\ dec' = [dec EXCEPT !.buf = @ \o SubSeq(wire, 1, n)]
       /\ wire' = SubSeq(wire, n + 1, Len(wire))
  /\ UNCHANGED <<upload, outcome, reply>>

(* The client ends the body, with or without having sent all of it.        *)
Flush ==
  /\ outcome = "none" /\ Waiting
  /\ outcome' = IF dec.state = "done" THEN "decoded" ELSE "rejected"
  /\ UNCHANGED <<upload, wire, dec, reply>>

(* The connection dies.  Nothing ends the decoder then, and the handler    *)
(* waits for it for ever.                                                  *)
ConnectionLost ==
  /\ outcome = "none"
  /\ outcome' = "lost"
  /\ UNCHANGED <<upload, wire, dec, reply>>

(* The trailer's checksum is compared once the body is on disk.            *)
CheckTrailer ==
  /\ outcome = "decoded"
  /\ outcome' = IF dec.checksum /\ FlattenSeq(dec.out) # FlattenSeq(upload.body)
                THEN "rejected" ELSE "stored"
  /\ UNCHANGED <<upload, wire, dec, reply>>

----------------------------------------------------------------------------
(* GET.                                                                    *)

Object == FlattenSeq(dec.out)
Smaller(m, n) == IF m <= n THEN m ELSE n
Larger(m, n) == IF m >= n THEN m ELSE n

(* A Range header: its two numbers, each absent (-1) or not.               *)
Absent == -1
Header == [from : Ranges \cup {Absent}, to : Ranges \cup {Absent}]

ParseRangeHeader(range, size) ==
  LET full == [kind |-> "full", start |-> 0, end |-> size - 1]
      invalid == [kind |-> "invalid", start |-> 0, end |-> 0]
      partial(start, end) == [kind |-> "partial", start |-> start, end |-> end]
      end == IF range.to = Absent THEN size - 1 ELSE Smaller(range.to, size - 1)
  IN CASE range.from = Absent /\ range.to = Absent -> full
       [] range.from = Absent /\ range.to # Absent ->
            IF range.to = 0 \/ size = 0 THEN invalid
            ELSE partial(size - Smaller(range.to, size), size - 1)
       [] range.from # Absent ->
            IF range.from >= size \/ range.from > end THEN invalid
            ELSE partial(range.from, end)

(* The file's plaintext is read from its beginning if it is encrypted, and *)
(* from the range's if it is not.  The ciphertext of an empty object is an *)
(* empty span, which createReadStream refuses to open.                     *)
Get ==
  /\ outcome = "stored" /\ reply = NoReply
  /\ \E range \in Header, encrypted \in BOOLEAN :
       LET spec == ParseRangeHeader(range, Len(Object)) IN
         reply' =
           CASE spec.kind = "invalid" -> [status |-> 416]
             [] spec.kind # "invalid" /\ encrypted /\ Object = <<>> -> [status |-> 500]
             [] OTHER ->
                  [status |-> IF spec.kind = "full" THEN 200 ELSE 206, range |-> range,
                   start |-> spec.start, end |-> spec.end,
                   length |-> spec.end - spec.start + 1,
                   sliced |-> encrypted /\ spec.kind = "partial",
                   pos |-> IF encrypted THEN 0 ELSE spec.start,
                   sent |-> <<>>, open |-> TRUE]
  /\ UNCHANGED <<upload, wire, dec, outcome>>

Streaming == reply.status \in {200, 206} /\ reply.open

(* Mutant: the end of the span is left out.                                *)
SliceShort(piece) ==
  LET from == Larger(0, reply.start - reply.pos)
      to == Smaller(Len(piece), reply.end - reply.pos)
  IN [reply EXCEPT !.pos = @ + Len(piece),
                   !.sent = @ \o SubSeq(piece, from + 1, to),
                   !.open = reply.pos + to - 1 < reply.end]

(* sliceStream's 'data' listener.                                          *)
Slice(piece) ==
  LET from == Larger(0, reply.start - reply.pos)
      to == Smaller(Len(piece), reply.end - reply.pos + 1)
      next == [reply EXCEPT !.pos = @ + Len(piece)]
  IN IF reply.pos + Len(piece) - 1 < reply.start THEN next
     ELSE IF reply.pos > reply.end THEN [next EXCEPT !.open = FALSE]
     ELSE [next EXCEPT !.sent = @ \o SubSeq(piece, from + 1, to),
                       !.open = reply.pos + to - 1 < reply.end]

LastByte == IF reply.sliced THEN Len(Object) - 1 ELSE reply.end

SourceData ==
  /\ Streaming /\ reply.pos <= LastByte
  /\ \E n \in 1 .. MaxPiece :
       /\ reply.pos + n - 1 <= LastByte
       /\ LET piece == SubSeq(Object, reply.pos + 1, reply.pos + n) IN
            reply' = IF reply.sliced THEN Slice(piece)
                     ELSE [reply EXCEPT !.pos = @ + n, !.sent = @ \o piece]
  /\ UNCHANGED <<upload, wire, dec, outcome>>

SourceEnd ==
  /\ Streaming /\ reply.pos > LastByte
  /\ reply' = [reply EXCEPT !.open = FALSE]
  /\ UNCHANGED <<upload, wire, dec, outcome>>

----------------------------------------------------------------------------

Init ==
  /\ \E body \in Bodies, signed, trailer \in BOOLEAN :
       \E chunks \in Damaged(Chunked(body, signed)) :
         /\ upload = [body |-> body, signed |-> signed, trailer |-> trailer,
                      damaged |-> chunks # Chunked(body, signed)]
         /\ wire = Frame(chunks, trailer)
  /\ dec = [buf |-> <<>>, state |-> "size", size |-> 0, sig |-> <<>>, data |-> <<>>,
            out |-> <<>>, checksum |-> FALSE]
  /\ outcome = "none"
  /\ reply = NoReply

Next ==
  \/ LineTooLong \/ ReadSize \/ ReadData \/ ReadCrlf \/ ReadTrailer
  \/ Receive \/ Flush \/ ConnectionLost \/ CheckTrailer
  \/ Get \/ SourceData \/ SourceEnd

Spec == Init /\ [][Next]_vars

----------------------------------------------------------------------------
(* Properties.                                                             *)

(* The decoder and the reply have the shapes the code gives them.          *)
TypeOK ==
  /\ dec.state \in {"size", "data", "crlf", "trailer", "done"}
  /\ dec.size \in 0 .. MaxChunk /\ Len(dec.data) <= MaxChunk
  /\ \A n \in 1 .. Len(dec.out) : Len(dec.out[n]) \in 1 .. MaxChunk
  /\ outcome \in {"none", "decoded", "stored", "rejected", "lost"}
  /\ reply.status \in {0, 200, 206, 416, 500}

(* However the body is cut into pieces, the decoder passes on nothing but  *)
(* the client's chunks, from the first and in order, if they are signed or *)
(* arrive as they were sent, and a body is stored only if it was complete; *)
(* a checksum trailer lets nothing else be stored even if they are not.    *)
OnlySentPayload ==
  /\ upload.signed \/ ~upload.damaged => IsPrefix(dec.out, upload.body)
  /\ outcome = "stored" /\ (upload.trailer \/ ~upload.damaged) =>
       FlattenSeq(dec.out) = FlattenSeq(upload.body)

(* The bytes a client may expect of its Range header.                      *)
Asked(range) ==
  {i \in 0 .. Len(Object) - 1 :
     CASE range.from = Absent /\ range.to = Absent -> TRUE
       [] range.from = Absent /\ range.to # Absent -> i >= Len(Object) - range.to
       [] range.from # Absent ->
            range.from <= i /\ (range.to = Absent \/ i <= range.to)}

(* A GET sends the bytes it was asked for, in order and each once, however *)
(* the file arrives; when it ends it has sent all of them, as many as its  *)
(* Content-Length announced.                                               *)
RangeServed ==
  reply.status \in {200, 206} =>
    LET asked == Asked(reply.range)
        first == CHOOSE i \in asked : \A j \in asked : i <= j
        bytes == [n \in 1 .. Cardinality(asked) |-> Object[first + n]]
    IN /\ reply.length = Cardinality(asked)
       /\ IsPrefix(reply.sent, bytes)
       /\ ~reply.open => reply.sent = bytes

=============================================================================
