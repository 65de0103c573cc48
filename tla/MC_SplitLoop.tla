---------------------------- MODULE MC_SplitLoop ----------------------------
EXTENDS SplitLoop, TLC

(* Every string of up to six characters over the characters the splitter *)
(* tells apart, and one that it does not.                                  *)
MCInputs == SeqOf({"a", "<", ">", ",", " "}, 6)
=============================================================================
