------------------------------ MODULE MCTuiBridge ------------------------------
(***************************************************************************)
(* Instances of TuiBridge for TLC: two requests, of every kind, in the     *)
(* pairs in which shared and exclusive ones meet at a gate.                *)
(***************************************************************************)
EXTENDS TuiBridge

SomeRequests == {"first", "second"}
SomeAsked ==
  {k \in [SomeRequests -> Kinds] :
     <<k["first"], k["second"]>> \in
       {<<"change", "status">>, <<"change", "select">>, <<"update", "probe">>,
        <<"setup", "status">>, <<"setup", "change">>, <<"profiles", "select">>,
        <<"select", "select">>, <<"status", "status">>}}
==============================================================================
