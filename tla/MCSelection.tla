----------------------------- MODULE MCSelection -----------------------------
(***************************************************************************)
(* Instances of SelectionTransaction for TLC: two servers, the four        *)
(* restart tokens that can be in the files at once, and a choice of        *)
(* hazards per configuration.                                              *)
(***************************************************************************)
EXTENDS SelectionTransaction

MCSelections == {"amsterdam", "berlin"}
MCTokens == {"t1", "t2", "t3", "t4"}
==============================================================================
