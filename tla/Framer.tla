------------------------------- MODULE Framer -------------------------------
(***************************************************************************)
(* The whole-buffer stream framer ParseData of ts2abc.cpp: it scans the    *)
(* input once, a '$' not preceded by '#' opens or closes a frame, a closed *)
(* frame is un-escaped ("#$" -> "$", ReplaceAllDistinct) and handed to    *)
(* ParseSmallPieceJson; the first frame that fails aborts the scan.        *)
(*                                                                         *)
(* A byte is "$", "#" or "c" (any other character).  A frame parses iff    *)
(* its un-escaped content is one of Texts, the JSON texts of the messages  *)
(* the front end sends.  The front end (not part of this repository)       *)
(* escapes every '$' of a text as "#$" and wraps the text in '$'.          *)
(***************************************************************************)
EXTENDS Integers, Sequences, SequencesExt

CONSTANTS
  Texts,    \* JSON texts of messages: sequences over {"c", "#", "$"}
  Inputs    \* the message sequences the front end may send

VARIABLES
  msgs,           \* history: the texts the front end sent
  data,           \* the whole input buffer
  idx,            \* ParseData: index of the byte being scanned (0-based)
  pos,            \* ParseData: first byte of the open frame (0-based)
  isStartDollar,  \* ParseData: the next delimiter opens a frame
  out,            \* the frames handed to ParseSmallPieceJson so far
  status          \* "run" | "ok" | "fail": the result of ParseData

vars == <<msgs, data, idx, pos, isStartDollar, out, status>>

(***************************************************************************)
(* The front end's framing, and the un-escape of the back end.             *)
(***************************************************************************)
RECURSIVE EscapeText(_)
EscapeText(t) ==
  IF t = <<>> THEN <<>>
  ELSE (IF Head(t) = "$" THEN <<"#", "$">> ELSE <<Head(t)>>) \o EscapeText(Tail(t))

Encode(ms) == FlattenSeq([k \in 1..Len(ms) |-> <<"$">> \o EscapeText(ms[k]) \o <<"$">>])

\* ReplaceAllDistinct(str, "#$", "$"): left to right, the search resumes
\* after the '$' it has just written.
RECURSIVE ReplaceAllDistinct(_)
ReplaceAllDistinct(s) ==
  IF Len(s) < 2 THEN s
  ELSE IF s[1] = "#" /\ s[2] = "$" THEN <<"$">> \o ReplaceAllDistinct(Tail(Tail(s)))
  ELSE <<s[1]>> \o ReplaceAllDistinct(Tail(s))

\* ParseSmallPieceJson succeeds on a frame that is the text of a message.
ParsesAsMessage(frame) == frame \in Texts

\* Mutant: the '#' look-behind of the delimiter test dropped.
IsDelimiterAnyDollar(b, k) == b[k+1] = "$"

\* A '$' at 0-based position k of buffer b that is a delimiter.
IsDelimiter(b, k) == b[k+1] = "$" /\ IF k = 0 THEN TRUE ELSE b[k] # "#"

(***************************************************************************)
(* ParseData, one step per iteration of its loop.                          *)
(***************************************************************************)
RejectEmpty ==
  /\ status = "run" /\ data = <<>>
  /\ status' = "fail"
  /\ UNCHANGED <<msgs, data, idx, pos, isStartDollar, out>>

ScanByte ==
  /\ status = "run" /\ data # <<>> /\ idx < Len(data)
  /\ ~IsDelimiter(data, idx)
  /\ idx' = idx + 1
  /\ UNCHANGED <<msgs, data, pos, isStartDollar, out, status>>

OpenFrame ==
  /\ status = "run" /\ data # <<>> /\ idx < Len(data)
  /\ IsDelimiter(data, idx) /\ isStartDollar
  /\ pos' = idx + 1 /\ isStartDollar' = FALSE /\ idx' = idx + 1
  /\ UNCHANGED <<msgs, data, out, status>>

CloseFrame ==
  /\ status = "run" /\ data # <<>> /\ idx < Len(data)
  /\ IsDelimiter(data, idx) /\ ~isStartDollar
  /\ LET subJson == ReplaceAllDistinct(SubSeq(data, pos + 1, idx))
     IN IF ParsesAsMessage(subJson)
        THEN /\ out' = Append(out, subJson)
             /\ isStartDollar' = TRUE /\ idx' = idx + 1
             /\ UNCHANGED status
        ELSE /\ status' = "fail"
             /\ UNCHANGED <<out, isStartDollar, idx>>
  /\ UNCHANGED <<msgs, data, pos>>

Finish ==
  /\ status = "run" /\ data # <<>> /\ idx = Len(data)
  /\ status' = "ok"
  /\ UNCHANGED <<msgs, data, idx, pos, isStartDollar, out>>

Terminated ==
  /\ status # "run"
  /\ UNCHANGED vars

Init ==
  /\ msgs \in Inputs
  /\ data = Encode(msgs)
  /\ idx = 0 /\ pos = 0 /\ isStartDollar = TRUE
  /\ out = <<>> /\ status = "run"

Next ==
  \/ RejectEmpty \/ ScanByte \/ OpenFrame \/ CloseFrame \/ Finish
  \/ Terminated

Spec == Init /\ [][Next]_vars

-----------------------------------------------------------------------------
TypeOK ==
  /\ idx \in 0..Len(data) /\ pos \in 0..Len(data)
  /\ isStartDollar \in BOOLEAN
  /\ out \in Seq(Texts)
  /\ status \in {"run", "ok", "fail"}

\* Every frame handed on is the text of a message sent, in the order sent,
\* only an empty input is rejected, and a scan that succeeds has handed on
\* every message: the escape of '$' as "#$", the '#' look-behind of the
\* delimiter test and ReplaceAllDistinct together lose, split or merge no
\* message.
FramesRoundTrip ==
  /\ IsPrefix(out, msgs)
  /\ status = "fail" => msgs = <<>>
  /\ status = "ok" => out = msgs

=============================================================================
