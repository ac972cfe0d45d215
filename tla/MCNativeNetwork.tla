--------------------------- MODULE MCNativeNetwork ---------------------------
(***************************************************************************)
(* Instances of NativeNetwork for TLC.                                     *)
(***************************************************************************)
EXTENDS NativeNetwork, TLC

CONSTANTS i1, i2

(* The whole plan of PlanNetwork. *)
FullBefore ==
  <<"Namespace", "Veth", "GuestMoved", "UnreachableRule", "HostAddress",
    "GuestAddress", "ConnectedRoute", "DefaultUplinkRoute", "EgressRule",
    "NFTTable", "ForwardEgress", "ForwardReturn", "RouteLocalnet">>
FullAfter ==
  <<"DisableIPv6All", "DisableIPv6Default", "HostUp", "LoopbackUp", "GuestUp",
    "GuestDefaultRoute">>

(* One effect of each sort: with identity, flappable, without teardown, in *)
(* conflict, a path, the barrier.                                          *)
SmallBefore ==
  <<"Namespace", "Veth", "GuestMoved", "UnreachableRule", "ConnectedRoute",
    "EgressRule">>
SmallAfter == <<"DisableIPv6All", "HostUp">>

OneId == {i1}
TwoIds == {i1, i2}
IdSymmetry == Permutations(TwoIds)
UplinkRoutesFull == uplinkRoutes
UplinkRoutesSmall == {"ConnectedRoute"}
==============================================================================
