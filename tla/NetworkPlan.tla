----------------------------- MODULE NetworkPlan -----------------------------
(***************************************************************************)
(* The data of the native network transaction, without its control: the    *)
(* closed list of kernel effects, the order in which they are created, the *)
(* ledger ("journal") that records them, the identities that tell an owned *)
(* resource from a namesake, and the checks the controller makes on them.  *)
(*                                                                         *)
(* internal/nativegateway/transaction_linux.go and network_linux.go.       *)
(***************************************************************************)
EXTENDS Integers, Sequences

CONSTANTS
  BeforeForwarding,  \* the planned effects that precede the forwarding sysctl
  AfterForwarding,   \* the planned effects that follow it
  Ids,               \* kernel identities (netns inodes, interface indexes)
  NoId,              \* the empty identity
  Uplinks            \* the physical underlays the host may have

Forwarding == "IPv4Forwarding"

(* Mutant: the links go up before the barrier is planned.                  *)
effectKindsUnbarred ==
  [forwarding \in BOOLEAN |->
     IF forwarding
       THEN AfterForwarding \o BeforeForwarding
       ELSE AfterForwarding \o <<Forwarding>> \o BeforeForwarding]

(* The effects in the order PlanNetwork creates them.  The global sysctl   *)
(* is planned only when the host did not already forward.                  *)
effectKinds ==
  [forwarding \in BOOLEAN |->
     IF forwarding
       THEN BeforeForwarding \o AfterForwarding
       ELSE BeforeForwarding \o <<Forwarding>> \o AfterForwarding]

planLength(forwarding) == Len(effectKinds[forwarding])

Slots == 1..planLength(FALSE)
EffectKind == {effectKinds[FALSE][i] : i \in Slots}

(* Every effect but the shared sysctl is exclusively the controller's.     *)
Exclusive == EffectKind \ {Forwarding}

identityKinds == {"Namespace", "Veth", "GuestMoved"}
uplinkRoutes  == {"ConnectedRoute", "DefaultUplinkRoute"}
guestPaths    == {"EgressRule", "GuestDefaultRoute", "HostUp", "GuestUp"}

(* What validateSnapshot refuses to find on a host without a ledger.       *)
snapshotKinds ==
  {"Namespace", "Veth", "GuestMoved", "UnreachableRule", "EgressRule",
   "NFTTable"} \cup uplinkRoutes

(* Effects with no teardown command: they go away with their owner, and    *)
(* the global sysctl is left as it is.                                     *)
noReverse == {"GuestMoved", "RouteLocalnet", "DisableIPv6All",
              "DisableIPv6Default", Forwarding}

(* What the proofs and the model need of the plan: it is a list without    *)
(* repetition, of every exclusive kind whether or not the sysctl is in it. *)
PlanAssumption ==
  /\ {"Namespace", "Veth", "GuestMoved", "UnreachableRule"} \subseteq EffectKind
  /\ planLength(FALSE) \in Nat
  /\ \A forwarding \in BOOLEAN :
       LET plan  == effectKinds[forwarding]
           kinds == {plan[i] : i \in 1..planLength(forwarding)} IN
       /\ planLength(forwarding) \in 1..planLength(FALSE)
       /\ \A i, j \in 1..planLength(forwarding) : plan[i] = plan[j] => i = j
       /\ Exclusive \subseteq kinds
       /\ kinds \subseteq EffectKind
       /\ Forwarding \in kinds <=> ~forwarding
ASSUME PlanShape == PlanAssumption

(* The plan begins with the namespace, the pair, its move into the         *)
(* namespace and the barrier, whatever is planned after them.              *)
ASSUME PlanBegins ==
  /\ BeforeForwarding \in Seq(EffectKind) /\ AfterForwarding \in Seq(EffectKind)
  /\ Len(BeforeForwarding) >= 4
  /\ BeforeForwarding[1] = "Namespace" /\ BeforeForwarding[2] = "Veth"
  /\ BeforeForwarding[3] = "GuestMoved" /\ BeforeForwarding[4] = "UnreachableRule"
ASSUME PlanIds == NoId \notin Ids

(***************************************************************************)
(* The ledger.  Its array is fixed-size; count says how much of it is in   *)
(* use.  The file is absent exactly when count is 0, a value no ledger on  *)
(* disk has.  A version 4 ledger is one whose boot is LegacyBoot.          *)
(***************************************************************************)
Phase == {"none", "intent", "applied", "removing", "removed", "relinquished"}
cleanupPhases == {"removing", "removed", "relinquished"}
retiredPhases == {"removed", "relinquished"}

Identity   == [ns : Ids \cup {NoId}, veth : Ids \cup {NoId}]
NoIdentity == [ns |-> NoId, veth |-> NoId]

JournalEffect == [phase : Phase, id : Identity]
ZeroEffect    == [phase |-> "none", id |-> NoIdentity]

LegacyBoot == 0

NetworkJournal ==
  [boot : Nat, uplink : Uplinks, forwarding : BOOLEAN,
   count : Slots \cup {0}, effects : [Slots -> JournalEffect]]

kindAt(j, i) == effectKinds[j.forwarding][i]
Entries(j)   == 1..j.count
Complete(j)  == j.count = planLength(j.forwarding)
AllApplied(j) == \A i \in Entries(j) : j.effects[i].phase = "applied"

(* The entry of an exclusive kind still claims it until it is retired.     *)
Claims(j, kind) ==
  \E i \in Entries(j) : /\ kindAt(j, i) = kind
                        /\ j.effects[i].phase \notin retiredPhases

EmptyJournal(u) ==
  [boot |-> LegacyBoot, uplink |-> u, forwarding |-> FALSE,
   count |-> 0, effects |-> [i \in Slots |-> ZeroEffect]]

FreshJournal(boot, u, forwarding) ==
  [boot |-> boot, uplink |-> u, forwarding |-> forwarding,
   count |-> 1,
   effects |-> [[i \in Slots |-> ZeroEffect] EXCEPT ![1].phase = "intent"]]

WithIntent(j) ==
  [j EXCEPT !.count = @ + 1,
            !.effects[j.count + 1] = [phase |-> "intent", id |-> NoIdentity]]

WithPhase(j, i, phase) == [j EXCEPT !.effects[i].phase = phase]

(***************************************************************************)
(* Identities.                                                             *)
(***************************************************************************)
identityFor(kind, id) ==
  [ns   |-> IF kind \in {"Namespace", "GuestMoved"} THEN id.ns ELSE NoId,
   veth |-> IF kind \in {"Veth", "GuestMoved"} THEN id.veth ELSE NoId]

identityEmpty(id) == id = NoIdentity

identityValidFor(kind, id) ==
  \/ identityEmpty(id)
  \/ /\ kind \in identityKinds
     /\ (id.ns # NoId) <=> (kind \in {"Namespace", "GuestMoved"})
     /\ (id.veth # NoId) <=> (kind \in {"Veth", "GuestMoved"})

(***************************************************************************)
(* validateJournal: what a ledger read from disk must satisfy before any   *)
(* of Start, Stop and Status looks further.                                *)
(***************************************************************************)
validateJournal(j) ==
  /\ j.count \in 1..planLength(j.forwarding)
  /\ \A i \in Entries(j) :
       LET e == j.effects[i] IN
       /\ e.phase # "none"
       /\ e.phase = "relinquished" => kindAt(j, i) = Forwarding
       /\ identityValidFor(kindAt(j, i), e.id)
       /\ (e.phase \in {"applied", "removing"} /\ kindAt(j, i) \in identityKinds)
            => ~identityEmpty(e.id)
       /\ e.phase = "intent" => i = j.count
       /\ e.phase \notin cleanupPhases
            => \A k \in 1..(i - 1) : j.effects[k].phase \notin cleanupPhases
  /\ \A i \in Slots \ Entries(j) : j.effects[i] = ZeroEffect
==============================================================================
