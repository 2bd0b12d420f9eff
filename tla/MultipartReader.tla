-------------------------- MODULE MultipartReader ---------------------------
(***************************************************************************)
(* How the api takes the files out of a multipart body as it arrives       *)
(* (apps/api, collect-upload-parts.ts): a buffer that is searched for the  *)
(* next delimiter, and of every part its size and as many of its bytes as  *)
(* the tenant's limit allows.  A byte is a one-letter string; the boundary *)
(* is "B", and of the text of a part's headers the first letter counts.    *)
(***************************************************************************)
EXTENDS Integers, Sequences, FiniteSetsExt

CONSTANTS
    Bodies,            \* what may be sent: bytes, their parts, and where each delimiter ends
    MaxBatch, MaxBytesPerFile, SniffWindow,
    MaxPreamble, MaxHeader

VARIABLES
    sent,              \* the parts of this request
    wire,              \* the bytes of it still to come
    reader             \* the state of collectUploadParts

readerVars == <<sent, wire, reader>>

CRLF == <<"r", "n">>
Dashes == <<"-", "-">>
BoundaryBytes == Dashes \o <<"B">>
CrlfBoundaryBytes == CRLF \o BoundaryBytes
HeaderEnd == CRLF \o CRLF

Occurs(pattern, buffer, i) == SubSeq(buffer, i + 1, i + Len(pattern)) = pattern

\* The first position of pattern at or after start, counted from 0; -1 if none.
IndexOfSubarray(buffer, pattern, start) ==
    LET found == {i \in start..Len(buffer) - Len(pattern) : Occurs(pattern, buffer, i)}
    IN  IF found = {} THEN -1 ELSE Min(found)

Drop(s, n) == SubSeq(s, n + 1, Len(s))

\* The first occurrence of pattern at or after start begins at i.
FirstAt(pattern, bytes, start, i) ==
    /\ i \in start..Len(bytes) - Len(pattern)
    /\ Occurs(pattern, bytes, i)
    /\ \A j \in start..i - 1 : ~Occurs(pattern, bytes, j)

\* Where the k-th part begins and ends, without the delimiters around it, and
\* where its content begins.
PartStart(body, k) == body.ends[k] + Len(CRLF)
PartEnd(body, k) == body.ends[k + 1] - Len(CrlfBoundaryBytes)
ContentStart(body, k) == PartEnd(body, k) - Len(body.parts[k].content)

\* A sender picks a boundary that its contents do not hold: the delimiter after a
\* content is the first one there, and the first in the body is a delimiter too.
IsMultipart(body) ==
    LET n == Len(body.parts)
        bytes == body.bytes
    IN  /\ bytes \in Seq(STRING)
        /\ body.parts \in Seq([header : STRING, content : Seq(STRING)])
        /\ body.ends \in [1..n + 1 -> Nat]
        /\ FirstAt(BoundaryBytes, bytes, 0, body.ends[1] - Len(BoundaryBytes))
        /\ \A k \in 1..n :
              /\ Occurs(CRLF, bytes, body.ends[k])
              /\ FirstAt(HeaderEnd, bytes, PartStart(body, k), ContentStart(body, k) - Len(HeaderEnd))
              /\ bytes[PartStart(body, k) + 1] = body.parts[k].header
              /\ SubSeq(bytes, ContentStart(body, k) + 1, PartEnd(body, k)) = body.parts[k].content
              /\ FirstAt(CrlfBoundaryBytes, bytes, ContentStart(body, k), PartEnd(body, k))
        /\ body.ends[n + 1] \in 0..Len(bytes) - Len(Dashes)
        /\ Occurs(Dashes, bytes, body.ends[n + 1])

ASSUME BodiesAssumption == \A body \in Bodies : IsMultipart(body)

\* A file of which no more is kept than the limit still tells its type.
ASSUME SizesAssumption ==
    MaxBatch \in Nat /\ MaxBytesPerFile \in Nat /\ SniffWindow \in 0..MaxBytesPerFile

NoPart == [header |-> "", chunks |-> <<>>, runningBytes |-> 0]

ReaderInit ==
    /\ sent \in Bodies
    /\ wire = sent.bytes
    /\ reader = [pc |-> "preamble", buffer |-> <<>>, searchStart |-> 0, part |-> NoPart,
                 items |-> <<>>, sawFilesField |-> FALSE]

ReaderAt(pc) == reader.pc = pc
Fails == reader' = [reader EXCEPT !.pc = "failed"]

\* pullMore: the next chunk, of any length; or the body is over, early if the
\* connection is lost, and whatever was being read is truncated.
PullMore(searchStart) ==
    \/ \E n \in 1..Len(wire) :
          /\ reader' = [reader EXCEPT !.buffer = @ \o SubSeq(wire, 1, n),
                                      !.searchStart = searchStart]
          /\ wire' = Drop(wire, n)
    \/ Fails /\ wire' = <<>>

Rescan(pattern) ==
    LET s == Len(reader.buffer) - Len(pattern) + 1 IN IF s > 0 THEN s ELSE 0

-----------------------------------------------------------------------------
FindFirstBoundary ==
    /\ ReaderAt("preamble")
    /\ LET idx == IndexOfSubarray(reader.buffer, BoundaryBytes, reader.searchStart)
       IN  IF idx # -1
           THEN /\ reader' = [reader EXCEPT
                      !.pc = "delimiter",
                      !.buffer = Drop(@, idx + Len(BoundaryBytes))]
                /\ UNCHANGED wire
           ELSE IF Len(reader.buffer) > MaxPreamble
                THEN Fails /\ UNCHANGED wire
                ELSE PullMore(Rescan(BoundaryBytes))
    /\ UNCHANGED sent

\* After a delimiter: the end, or the headers of another part.  A body that
\* named the field but held no file is refused as invalid.
AfterDelimiter ==
    /\ ReaderAt("delimiter")
    /\ IF Len(reader.buffer) < 2 /\ wire # <<>> THEN PullMore(0)
       ELSE /\ UNCHANGED wire
            /\ reader' =
                 IF SubSeq(reader.buffer, 1, 2) = Dashes
                 THEN [reader EXCEPT !.pc = IF reader.items = <<>> /\ reader.sawFilesField
                                            THEN "invalid" ELSE "done"]
                 ELSE [reader EXCEPT !.pc = "headers", !.searchStart = 0,
                          !.buffer = IF SubSeq(@, 1, 2) = CRLF THEN Drop(@, 2) ELSE @]
    /\ UNCHANGED sent

IsTargetField(header) == header \in {"F", "N"}
IsFilePart(header) == header = "F"

ReadHeaders ==
    /\ ReaderAt("headers")
    /\ LET idx == IndexOfSubarray(reader.buffer, HeaderEnd, reader.searchStart)
           header == reader.buffer[1]
       IN  IF idx # -1
           THEN /\ reader' = [reader EXCEPT
                      !.pc = "body", !.buffer = Drop(@, idx + Len(HeaderEnd)),
                      !.part = [NoPart EXCEPT !.header = header],
                      !.sawFilesField = @ \/ IsTargetField(header)]
                /\ UNCHANGED wire
           ELSE IF Len(reader.buffer) > MaxHeader
                THEN Fails /\ UNCHANGED wire
                ELSE PullMore(Rescan(HeaderEnd))
    /\ UNCHANGED sent

\* Within the limit a slice is kept; beyond it, as much as sniffing the type
\* still needs.
HandleBodySlice(part, slice) ==
    LET running == part.runningBytes + Len(slice)
        need == Min({Len(slice), Max({0, SniffWindow - Len(part.chunks)})})
    IN  [part EXCEPT
           !.runningBytes = running,
           !.chunks = IF ~IsFilePart(part.header) THEN @
                      ELSE IF running <= MaxBytesPerFile THEN @ \o slice
                      ELSE @ \o SubSeq(slice, 1, need)]

EndPart(part) ==
    LET items == IF IsFilePart(part.header)
                 THEN Append(reader.items, [chunks |-> part.chunks, sizeBytes |-> part.runningBytes])
                 ELSE reader.items
    IN  [pc |-> IF Len(items) > MaxBatch THEN "done" ELSE "delimiter", items |-> items]

\* What may be the beginning of a delimiter stays in the buffer.
SafeLenOfAll(buffer) == Len(buffer)
SafeLen(buffer) ==
    IF Len(buffer) >= Len(CrlfBoundaryBytes) THEN Len(buffer) - (Len(CrlfBoundaryBytes) - 1) ELSE 0

ReadBody ==
    /\ ReaderAt("body")
    /\ LET idx == IndexOfSubarray(reader.buffer, CrlfBoundaryBytes, 0)
           part == HandleBodySlice(reader.part, SubSeq(reader.buffer, 1, idx))
           end == EndPart(part)
       IN  IF idx # -1
           THEN /\ reader' = [reader EXCEPT
                      !.pc = end.pc, !.items = end.items, !.part = NoPart,
                      !.buffer = Drop(@, idx + Len(CrlfBoundaryBytes))]
                /\ UNCHANGED wire
           ELSE LET safe == SafeLen(reader.buffer)
                    kept == [reader EXCEPT
                       !.part = HandleBodySlice(@, SubSeq(reader.buffer, 1, safe)),
                       !.buffer = Drop(@, safe)]
                IN  \/ \E n \in 1..Len(wire) :
                          /\ reader' = [kept EXCEPT !.buffer = @ \o SubSeq(wire, 1, n)]
                          /\ wire' = Drop(wire, n)
                    \/ Fails /\ wire' = <<>>
    /\ UNCHANGED sent

ReadOn == FindFirstBoundary \/ AfterDelimiter \/ ReadHeaders \/ ReadBody

Collected == ReaderAt("done") \/ ReaderAt("failed") \/ ReaderAt("invalid")
-----------------------------------------------------------------------------
\* What the two upload routes make of it: a refusal, or the items passed on.
UploadAnswer ==
    CASE ReaderAt("failed") -> "UPLOAD_INTERRUPTED"
      [] ReaderAt("invalid") \/ reader.items = <<>> -> "VALIDATION_ERROR"
      [] Len(reader.items) > MaxBatch -> "BATCH_TOO_LARGE"
      [] OTHER -> "passed on"

VersionAnswer ==
    CASE ReaderAt("failed") -> "UPLOAD_INTERRUPTED"
      [] ReaderAt("invalid") \/ Len(reader.items) # 1 -> "VALIDATION_ERROR"
      [] OTHER -> "passed on"
=============================================================================
