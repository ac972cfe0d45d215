--------------------------- MODULE MCNativeConfigure ---------------------------
(***************************************************************************)
(* Instances of NativeConfigure for TLC.                                   *)
(***************************************************************************)
EXTENDS NativeConfigure

SomePackages == {1, 2, 3}
FirstOrNone == {Absent, 1}

(* A gateway of the first package goes on with the second, not the third.  *)
OneBreak == [v \in SomePackages |-> IF v = 3 THEN "later" ELSE "first"]
==============================================================================
