--------------------------- MODULE MC_PipeReader ---------------------------
(***************************************************************************)
(* Texts of up to four bytes ("#$#c", "$$$c", ...), one or two messages   *)
(* per stream (ParseData rejects an empty buffer, ReadFromPipe accepts an  *)
(* empty pipe), and reads of one to four bytes: a read boundary falls      *)
(* between every two bytes of a frame, '#' and its '$' included.           *)
(***************************************************************************)
EXTENDS PipeReader

MaxText == 4
MaxMsgs == 2

MCTexts == {t \in BoundedSeq({"c", "#", "$"}, MaxText) : t # <<>> /\ Last(t) = "c"}
MCInputs == BoundedSeq(MCTexts, MaxMsgs) \ {<<>>}
MCBufSize == 4

=============================================================================
