---------------------------- MODULE MCServerCatalog ----------------------------
(***************************************************************************)
(* Instances of ServerCatalog for TLC.                                     *)
(***************************************************************************)
EXTENDS ServerCatalog, TLC

CONSTANTS c1, c2, a, b

TwoCommands == {c1, c2}
TwoServers  == {a, b}
TwoKinds    == {"rtt", "speed"}
Alike       == Permutations(TwoCommands) \cup Permutations(TwoServers)
================================================================================
