---------------------------- MODULE MCOpSupervisor ----------------------------
(***************************************************************************)
(* Instances of OpSupervisor for TLC: one descendant of the worker, and    *)
(* two helpers, one of which may be a command nobody waits for any more.   *)
(***************************************************************************)
EXTENDS OpSupervisor

OneChild == {"child"}
TwoHelpers == {"h1", "h2"}
==============================================================================
