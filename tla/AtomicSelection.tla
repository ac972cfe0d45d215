---------------------------- MODULE AtomicSelection ----------------------------
(***************************************************************************)
(* What applying a server promises: the selection a user sees -- the node  *)
(* file, the link file and the outbound in the runtime configuration --    *)
(* changes as one, from one server to another one that was asked for, or   *)
(* not at all.  At most one change is under way.                           *)
(***************************************************************************)
CONSTANT Selections    \* the servers one may select

VARIABLES
  selected,  \* what node file, link file and configuration say
  wanted     \* the change under way, or Nothing

Nothing == "nothing"
Agreed(s) == [node |-> s, link |-> s, config |-> s]

Init == selected \in {Agreed(s) : s \in Selections} /\ wanted = Nothing

Request ==
  /\ wanted = Nothing /\ wanted' \in Selections
  /\ UNCHANGED selected

Publish ==
  /\ wanted # Nothing
  /\ selected' = Agreed(wanted) /\ wanted' = Nothing

Withdraw ==
  /\ wanted # Nothing /\ wanted' = Nothing
  /\ UNCHANGED selected

Next == Request \/ Publish \/ Withdraw

Spec == Init /\ [][Next]_<<selected, wanted>>
==============================================================================
