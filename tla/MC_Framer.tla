----------------------------- MODULE MC_Framer -----------------------------
(***************************************************************************)
(* Every message text of up to MaxText bytes that ends like a JSON object  *)
(* (not in '#'), and every sequence of up to MaxMsgs such messages, read   *)
(* by ParseData inside GenerateProgram, with opt levels 0 and 2 from the   *)
(* OPTIONS frame and from the command line.                                *)
(***************************************************************************)
EXTENDS Driver

MaxText == 4
MaxMsgs == 3

MCTexts == {t \in BoundedSeq({"c", "#", "$"}, MaxText) : t # <<>> /\ Last(t) = "c"}
MCInputs == BoundedSeq(MCTexts, MaxMsgs)

=============================================================================
