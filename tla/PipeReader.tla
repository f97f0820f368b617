----------------------------- MODULE PipeReader -----------------------------
(***************************************************************************)
(* The chunked stream framer of ts2abc.cpp: ReadFromPipe reads fd 3 in     *)
(* chunks of at most BufSize bytes and HandleBuffer scans each chunk.  A   *)
(* frame that spans chunks is carried over in `data`; the '#' look-behind  *)
(* of a '$' at the start of a chunk reads the last carried byte           *)
(* (IsStartOrEndPosition).  The kernel may return any number of bytes from *)
(* 1 to BufSize per read, so every chunking of the stream is a behaviour.  *)
(*                                                                         *)
(* The writer is the front end process.  If WriterMayDie, it may close the *)
(* pipe after any prefix of its output; if ReadMayFail, a read may return  *)
(* -1.                                                                     *)
(***************************************************************************)
EXTENDS Integers, Sequences, SequencesExt

CONSTANTS
  Texts, Inputs,   \* as in Framer
  BufSize,         \* bufSize of ReadFromPipe
  WriterMayDie,    \* the writer may stop before the end of its output
  ReadMayFail      \* read(2) may fail

VARIABLES
  msgs,           \* history: the texts the front end sent
  stream,         \* the bytes the writer put into the pipe before closing it
  sent,           \* bytes of stream read so far
  buff,           \* the chunk of the last read
  idx,            \* HandleBuffer: index in buff (0-based)
  startPos,       \* HandleBuffer: start of the frame in buff (0-based)
  data,           \* the carried, not yet un-escaped, part of the open frame
  isStartDollar,  \* ReadFromPipe: the next delimiter opens a frame
  out,            \* the frames handed to ParseSmallPieceJson so far
  status,         \* "run" | "ok" | "fail": the result of ReadFromPipe
  phase,          \* "read": at the read(2) call, "scan": in HandleBuffer
  framePos        \* auxiliary: offset in stream of the last frame opened

vars == <<msgs, stream, sent, buff, idx, startPos, data, isStartDollar, out,
          status, phase, framePos>>

\* Offset in stream of buff[0].
Base == sent - Len(buff)

\* ParseData over the whole stream, seen through the state of ReadFromPipe.
Whole == INSTANCE Framer WITH data <- stream,
                              idx <- IF phase = "scan" THEN Base + idx ELSE sent,
                              pos <- framePos

Encode(ms) == Whole!Encode(ms)
ReplaceAllDistinct(s) == Whole!ReplaceAllDistinct(s)
ParsesAsMessage(frame) == Whole!ParsesAsMessage(frame)

\* Mutant: a '$' at the start of a chunk is always a delimiter.
IsStartOrEndPositionNoCarry(k, b, d) ==
  /\ b[k+1] = "$"
  /\ IF k = 0 THEN TRUE ELSE b[k] # "#"

\* IsStartOrEndPosition: at buff[0] the byte before is the last carried one.
IsStartOrEndPosition(k, b, d) ==
  /\ b[k+1] = "$"
  /\ IF k = 0 THEN (IF d = <<>> THEN TRUE ELSE Last(d) # "#") ELSE b[k] # "#"

(***************************************************************************)
(* ReadFromPipe                                                            *)
(***************************************************************************)
ReadChunk ==
  /\ status = "run" /\ phase = "read" /\ sent < Len(stream)
  /\ \E n \in 1..BufSize :
       /\ sent + n <= Len(stream)
       /\ buff' = SubSeq(stream, sent + 1, sent + n)
       /\ sent' = sent + n
  /\ idx' = 0 /\ startPos' = 0 /\ phase' = "scan"
  /\ UNCHANGED <<msgs, stream, data, isStartDollar, out, status, framePos>>

\* Mutant: read(2)'s 0 at the end of the pipe handed to HandleBuffer as an
\* empty chunk, and the loop goes on.
ReadEofAsEmptyChunk ==
  /\ status = "run" /\ phase = "read" /\ sent = Len(stream)
  /\ buff' = <<>> /\ idx' = 0 /\ startPos' = 0 /\ phase' = "scan"
  /\ UNCHANGED <<msgs, stream, sent, data, isStartDollar, out, status, framePos>>

ReadEof ==
  /\ status = "run" /\ phase = "read" /\ sent = Len(stream)
  /\ status' = "ok"
  /\ UNCHANGED <<msgs, stream, sent, buff, idx, startPos, data, isStartDollar,
                 out, phase, framePos>>

\* Mutant: a failed read taken for the end of the stream.
ReadErrorAsEof ==
  /\ ReadMayFail
  /\ status = "run" /\ phase = "read"
  /\ status' = "ok"
  /\ UNCHANGED <<msgs, stream, sent, buff, idx, startPos, data, isStartDollar,
                 out, phase, framePos>>

ReadError ==
  /\ ReadMayFail
  /\ status = "run" /\ phase = "read"
  /\ status' = "fail"
  /\ UNCHANGED <<msgs, stream, sent, buff, idx, startPos, data, isStartDollar,
                 out, phase, framePos>>

(***************************************************************************)
(* HandleBuffer, one step per iteration of its loop, and its tail.         *)
(***************************************************************************)
ScanByte ==
  /\ status = "run" /\ phase = "scan" /\ idx < Len(buff)
  /\ ~IsStartOrEndPosition(idx, buff, data)
  /\ idx' = idx + 1
  /\ UNCHANGED <<msgs, stream, sent, buff, startPos, data, isStartDollar, out,
                 status, phase, framePos>>

OpenFrame ==
  /\ status = "run" /\ phase = "scan" /\ idx < Len(buff)
  /\ IsStartOrEndPosition(idx, buff, data) /\ isStartDollar
  /\ startPos' = idx + 1 /\ isStartDollar' = FALSE /\ idx' = idx + 1
  /\ framePos' = Base + idx + 1
  /\ UNCHANGED <<msgs, stream, sent, buff, data, out, status, phase>>

CloseFrame ==
  /\ status = "run" /\ phase = "scan" /\ idx < Len(buff)
  /\ IsStartOrEndPosition(idx, buff, data) /\ ~isStartDollar
  /\ LET frame == ReplaceAllDistinct(data \o SubSeq(buff, startPos + 1, idx))
     IN IF ParsesAsMessage(frame)
        THEN /\ out' = Append(out, frame)
             /\ isStartDollar' = TRUE /\ data' = <<>> /\ idx' = idx + 1
             /\ UNCHANGED status
        ELSE /\ status' = "fail"
             /\ UNCHANGED <<out, isStartDollar, data, idx>>
  /\ UNCHANGED <<msgs, stream, sent, buff, startPos, phase, framePos>>

\* The rest of an open frame is carried over to the next read.
EndOfBuffer ==
  /\ status = "run" /\ phase = "scan" /\ idx = Len(buff)
  /\ data' = IF isStartDollar THEN data
             ELSE data \o SubSeq(buff, startPos + 1, Len(buff))
  /\ phase' = "read"
  /\ UNCHANGED <<msgs, stream, sent, buff, idx, startPos, isStartDollar, out,
                 status, framePos>>

Terminated ==
  /\ status # "run"
  /\ UNCHANGED vars

Init ==
  /\ msgs \in Inputs
  /\ \E k \in 0..Len(Encode(msgs)) :
       /\ WriterMayDie \/ k = Len(Encode(msgs))
       /\ stream = SubSeq(Encode(msgs), 1, k)
  /\ sent = 0 /\ buff = <<>> /\ idx = 0 /\ startPos = 0 /\ data = <<>>
  /\ isStartDollar = TRUE /\ out = <<>> /\ status = "run" /\ phase = "read"
  /\ framePos = 0

Next ==
  \/ ReadChunk \/ ReadEof \/ ReadError
  \/ ScanByte \/ OpenFrame \/ CloseFrame \/ EndOfBuffer
  \/ Terminated

Spec == Init /\ [][Next]_vars

\* ReadFromPipe is one thread looping over read(2) and HandleBuffer; the
\* writer closes the pipe after the last frame, so a read always returns.
FairSpec == Spec /\ WF_vars(Next)

-----------------------------------------------------------------------------
TypeOK ==
  /\ sent \in 0..Len(stream) /\ idx \in 0..Len(buff) /\ Len(buff) <= BufSize
  /\ startPos \in 0..Len(buff)
  /\ out \in Seq(Texts)
  /\ status \in {"run", "ok", "fail"} /\ phase \in {"read", "scan"}

(***************************************************************************)
(* Refinement: whatever the chunking, ReadFromPipe scans the stream as     *)
(* ParseData scans the whole buffer, byte for byte, and hands on the same  *)
(* frames.  A read and the carry-over at the end of a chunk are stuttering *)
(* steps of ParseData.                                                     *)
(***************************************************************************)
\* ReadFromPipe implements ParseData: the program built from a pipe does not
\* depend on where read(2) splits the stream (spec section 8, round-trips).
ChunkingInvariant == Whole!Spec

\* A build that ReadFromPipe reports successful has handed on every message
\* the front end sent, in order.
SuccessMeansComplete ==
  /\ IsPrefix(out, msgs)
  /\ status = "ok" => out = msgs

\* Spec 4.1 and 7: the framer hands on complete frames, and a frame that
\* does not parse aborts the build.  ReadEof leaves the loop at read(2)'s 0
\* without looking at isStartDollar, so the bytes of a frame the writer
\* opened and never closed are dropped and ReadFromPipe returns true.
\* Stated: a successful ReadFromPipe leaves no frame open.
NoFrameLeftOpen == status = "ok" => isStartDollar

\* Under FairSpec, with a writer that sends every frame: ReadFromPipe
\* eventually leaves its loop, either on a failed read or at the end of the
\* pipe with every message handed on; no chunking makes it spin or stop
\* early.
Delivered == <>(status = "fail" \/ (status = "ok" /\ out = msgs))

=============================================================================
