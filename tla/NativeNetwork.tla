---------------------------- MODULE NativeNetwork ----------------------------
(***************************************************************************)
(* The root service that owns the native gateway's kernel network:         *)
(* nativegateway.Controller (Start, Stop, Status), under the lifecycle of  *)
(* localvpn.RunNativeNetwork (startNativeNetwork, stopNativeNetwork).      *)
(*                                                                         *)
(* The journal's flock admits one such process at a time, so the process   *)
(* is one program counter.  Each of its steps ends where the code touches  *)
(* the host or the durable ledger; whatever it keeps in memory between two *)
(* of them equals the ledger it last saved.  The rest of the machine       *)
(* (kernel, administrators, link flaps, reboots, other processes inside    *)
(* the namespace) acts between any two steps, as far as Hazards lets it.   *)
(***************************************************************************)
EXTENDS NetworkPlan

CONSTANTS
  Hazards,      \* which of the environment's actions this instance has
  Flappable,    \* the effects the kernel drops by itself on a link flap
  Tamperable,   \* the effects other administrators are seen to touch
  MaxBoots      \* bound on the number of boots

ASSUME HazardShape ==
  /\ Flappable \subseteq Exclusive /\ Tamperable \subseteq Exclusive
  /\ (Flappable \cup Tamperable) \cap identityKinds = {}
  /\ MaxBoots \in Nat

VARIABLES
  host,      \* EffectKind -> ObservationState: what Inspect would report
  ident,     \* the kernel identities of the named namespace and veth pair
  holders,   \* some process runs inside the namespace
  uplink,    \* the physical underlay ProbeNetwork would discover
  bootId,    \* the current boot
  retired,   \* nobody starts the network or disturbs the host any more
  journal,   \* the durable ledger
  pc,        \* where the service process is; "idle" when there is none
  idx,       \* the effect it is working on
  runErr,    \* its last creation command reported an error
  existed,   \* startNativeNetwork's existed
  seen,      \* the uplink this Start was given
  todo,      \* the routes repairMissingUplinkRoutes still has to restore
  purpose,   \* why it is stopping, or "start"
  result     \* how the last process ended

hostVars    == <<host, ident, holders, uplink, bootId, retired>>
processVars == <<pc, idx, runErr, existed, seen, todo, purpose, result>>
vars        == <<hostVars, journal, processVars>>

ObservationState == {"absent", "exact", "conflict"}
NoUplink == "none"
Purpose  == {"none", "start", "stop", "recover", "rollback", "initFailed"}
Control  == {"idle", "start", "repair", "repaired", "resume", "advance", "run",
             "confirm", "initNs", "pids", "stopEnter", "stopLoop",
             "relinquish", "remove", "removed", "sweep"}

TypeOK ==
  /\ host \in [EffectKind -> ObservationState]
  /\ ident \in Identity
  /\ holders \in BOOLEAN /\ retired \in BOOLEAN
  /\ uplink \in Uplinks
  /\ bootId \in Nat \ {LegacyBoot}
  /\ journal \in NetworkJournal
  /\ pc \in Control
  /\ idx \in Slots \cup {0}
  /\ runErr \in BOOLEAN /\ existed \in BOOLEAN
  /\ seen \in Uplinks \cup {NoUplink}
  /\ todo \subseteq Slots
  /\ purpose \in Purpose
  /\ result \in {"none", "started", "stopped", "failed", "busy"}

(***************************************************************************)
(* The kernel: what disappears together with a resource.                   *)
(***************************************************************************)
namespaceScoped ==
  {"GuestMoved", "GuestAddress", "GuestUp", "LoopbackUp",
   "GuestDefaultRoute", "DisableIPv6All", "DisableIPv6Default"}
vethScoped ==
  {"GuestMoved", "HostAddress", "GuestAddress", "RouteLocalnet", "HostUp",
   "GuestUp", "GuestDefaultRoute"}

(* Administrators are seen to touch the host's shared tables, not what is  *)
(* inside the namespace or on the pair.                                    *)
ASSUME TamperShape ==
  Tamperable \cap (namespaceScoped \cup vethScoped) = {}

GoneWith(kind) ==
  {kind} \cup
  CASE kind = "Veth"      -> vethScoped
    [] kind = "Namespace" ->
         namespaceScoped \cup (IF host["GuestMoved"] = "exact"
                                 THEN {"Veth"} \cup vethScoped ELSE {})
    [] kind = "GuestUp"   -> {"GuestDefaultRoute"}
    [] OTHER              -> {}

Vanish(kinds) ==
  /\ host'  = [k \in EffectKind |-> IF k \in kinds THEN "absent" ELSE host[k]]
  /\ ident' = [ns   |-> IF "Namespace" \in kinds THEN NoId ELSE ident.ns,
               veth |-> IF "Veth" \in kinds THEN NoId ELSE ident.veth]

Appear(kind) ==
  /\ host[kind] = "absent"
  /\ host' = [host EXCEPT ![kind] = "exact"]
  /\ \E id \in Ids :
       ident' = [ns   |-> IF kind = "Namespace" THEN id ELSE ident.ns,
                 veth |-> IF kind = "Veth" THEN id ELSE ident.veth]

(***************************************************************************)
(* What the controller reads.                                              *)
(***************************************************************************)
Exists == journal.count > 0
Kind(i) == kindAt(journal, i)
Observed(i) == host[Kind(i)]
PriorBoot == journal.boot \notin {bootId, LegacyBoot}

exclusiveEffectsAbsent ==
  \A i \in 1..planLength(journal.forwarding) :
    Kind(i) # Forwarding => Observed(i) = "absent"

(* Mutant: ownership is decided by name alone.                             *)
identityMatchesByName(i) == i = i

identityMatches(i) ==
  journal.effects[i].id \in {NoIdentity, identityFor(Kind(i), ident)}

validateSnapshot ==
  \A k \in snapshotKinds \cap EffectKind : host[k] = "absent"

guestPathsDisabled ==
  \A k \in guestPaths \cap EffectKind : host[k] = "absent"

Ready ==
  /\ Exists /\ validateJournal(journal) /\ ~PriorBoot
  /\ Complete(journal) /\ AllApplied(journal)
  /\ \A i \in Entries(journal) : Observed(i) = "exact" /\ identityMatches(i)

(***************************************************************************)
(* reconcile: the verdict on each entry, the first bad one deciding.       *)
(***************************************************************************)
verdict(i) ==
  LET phase == journal.effects[i].phase IN
  IF phase = "removed"
    THEN IF Observed(i) = "absent" THEN "ok" ELSE "error"
  ELSE IF phase = "relinquished"
    THEN IF Observed(i) # "conflict" THEN "ok" ELSE "error"
  ELSE IF Observed(i) = "conflict" THEN "error"
  ELSE IF Observed(i) = "absent"
    THEN IF phase = "intent" THEN "ok" ELSE "cleanup"
  ELSE IF identityMatches(i) THEN "ok" ELSE "error"

ReconcileIs(v) ==
  IF v = "ok" THEN \A i \in Entries(journal) : verdict(i) = "ok"
  ELSE \E i \in Entries(journal) :
         verdict(i) = v /\ \A k \in 1..(i - 1) : verdict(k) = "ok"

reconciledEntry(i) ==
  LET e == journal.effects[i] IN
  IF i \in Entries(journal) /\ e.phase \notin retiredPhases
       /\ Observed(i) = "exact"
    THEN [phase |-> "applied", id |-> identityFor(Kind(i), ident)]
    ELSE e

Reconciled ==
  [journal EXCEPT !.effects = [i \in Slots |-> reconciledEntry(i)]]

missingUplinkRoutes ==
  {i \in Entries(journal) : Observed(i) = "absent" /\ Kind(i) \in uplinkRoutes}

Repairable ==
  /\ Complete(journal) /\ AllApplied(journal)
  /\ missingUplinkRoutes # {}
  /\ \A i \in Entries(journal) \ missingUplinkRoutes :
       Observed(i) = "exact"
       /\ journal.effects[i].id = identityFor(Kind(i), ident)

(***************************************************************************)
(* The process ends, whatever it was doing.                                *)
(***************************************************************************)
Finish(r) ==
  /\ pc' = "idle" /\ idx' = 0 /\ runErr' = FALSE /\ existed' = FALSE
  /\ seen' = NoUplink /\ todo' = {} /\ purpose' = "none" /\ result' = r

Goto(label) ==
  /\ pc' = label
  /\ UNCHANGED <<runErr, existed, seen, purpose, result>>

(* Start returned ErrNetworkNeedsCleanup: startNativeNetwork tears down    *)
(* and starts over once, if there was a ledger when it began.              *)
NeedsCleanup ==
  IF existed
    THEN /\ pc' = "pids" /\ purpose' = "recover" /\ idx' = 0 /\ todo' = {}
         /\ UNCHANGED <<runErr, existed, seen, result>>
    ELSE Finish("failed")

(***************************************************************************)
(* Start.                                                                  *)
(***************************************************************************)
(* Mutant: the start does not ask for the physical uplink.                 *)
BeginStartUndiscovered ==
  /\ pc = "idle" /\ ~retired
  /\ pc' = "start" /\ existed' = Exists
  /\ purpose' = "start" /\ result' = "none"
  /\ UNCHANGED <<hostVars, journal, idx, runErr, seen, todo>>

BeginStart ==
  /\ pc = "idle" /\ ~retired
  /\ pc' = "start" /\ existed' = Exists /\ seen' = uplink
  /\ purpose' = "start" /\ result' = "none"
  /\ UNCHANGED <<hostVars, journal, idx, runErr, todo>>

Obsolete ==
  (PriorBoot \/ journal.boot = LegacyBoot) /\ exclusiveEffectsAbsent

FromLedger ==
  /\ pc = "start" /\ Exists /\ validateJournal(journal)
  /\ ~Obsolete /\ ~PriorBoot /\ journal.uplink = seen

(* No ledger, or an obsolete one whose whole plan is gone: the first       *)
(* intent of a fresh plan replaces it before any command runs.             *)
StartFresh ==
  /\ pc = "start"
  /\ Exists => validateJournal(journal) /\ Obsolete
  /\ IF validateSnapshot
       THEN /\ journal' = FreshJournal(bootId, seen, host[Forwarding] = "exact")
            /\ idx' = 1 /\ Goto("run") /\ UNCHANGED <<hostVars, todo>>
       ELSE Finish("failed") /\ UNCHANGED <<hostVars, journal>>

StartRefuse ==
  /\ pc = "start" /\ Exists
  /\ ~(validateJournal(journal) /\ Obsolete)
  /\ FromLedger => ReconcileIs("error")
  /\ Finish("failed") /\ UNCHANGED <<hostVars, journal>>

StartReconcile ==
  /\ FromLedger /\ ReconcileIs("ok")
  /\ journal' = Reconciled
  /\ Goto("resume") /\ UNCHANGED <<hostVars, idx, todo>>

StartRepair ==
  /\ FromLedger /\ ReconcileIs("cleanup") /\ Repairable
  /\ todo' = missingUplinkRoutes
  /\ Goto("repair") /\ UNCHANGED <<hostVars, journal, idx>>

StartNeedsCleanup ==
  /\ FromLedger /\ ReconcileIs("cleanup") /\ ~Repairable
  /\ NeedsCleanup /\ UNCHANGED <<hostVars, journal>>

(* The command that creates a kind: it may report an error after it took   *)
(* effect, and may succeed over a resource that is already there.          *)
RunCreation(kind, failed) ==
  \/ Appear(kind)
  \/ (failed \/ host[kind] # "absent") /\ UNCHANGED <<host, ident>>

RepairRoute ==
  /\ pc = "repair"
  /\ \E i \in todo :
       /\ \A k \in todo : i <= k
       /\ \/ /\ RunCreation(Kind(i), FALSE)
             /\ todo' = todo \ {i} /\ Goto("repair") /\ UNCHANGED idx
          \/ RunCreation(Kind(i), TRUE) /\ Finish("failed")
  /\ UNCHANGED <<holders, uplink, bootId, retired, journal>>

RepairDone ==
  /\ pc = "repair" /\ todo = {}
  /\ Goto("repaired") /\ UNCHANGED <<hostVars, journal, idx, todo>>

ReconcileRepaired ==
  /\ pc = "repaired"
  /\ \/ /\ ReconcileIs("ok")
        /\ journal' = Reconciled /\ Goto("resume") /\ UNCHANGED <<idx, todo>>
     \/ ReconcileIs("error") /\ Finish("failed") /\ UNCHANGED journal
     \/ ReconcileIs("cleanup") /\ NeedsCleanup /\ UNCHANGED journal
  /\ UNCHANGED hostVars

(* An intact version 4 ledger is stamped with this boot.                   *)
StampLegacy ==
  /\ pc = "resume" /\ journal.boot = LegacyBoot
  /\ journal' = [journal EXCEPT !.boot = bootId]
  /\ Goto("resume") /\ UNCHANGED <<hostVars, idx, todo>>

lastIsIntent == journal.effects[journal.count].phase = "intent"
appliedBeforeLast ==
  \A i \in Entries(journal) :
    \/ journal.effects[i].phase = "applied"
    \/ i = journal.count /\ lastIsIntent

(* Mutant: a ledger with an entry for every effect counts as applied.      *)
ResumeCounted ==
  /\ pc = "resume" /\ journal.boot # LegacyBoot
  /\ IF Complete(journal)
       THEN idx' = journal.count /\ Goto("initNs") /\ UNCHANGED todo
       ELSE \/ ~appliedBeforeLast /\ NeedsCleanup
            \/ /\ appliedBeforeLast /\ idx' = journal.count
               /\ Goto(IF lastIsIntent THEN "run" ELSE "advance")
               /\ UNCHANGED todo
  /\ UNCHANGED <<hostVars, journal>>

Resume ==
  /\ pc = "resume" /\ journal.boot # LegacyBoot
  /\ \/ /\ Complete(journal) /\ AllApplied(journal)
        /\ idx' = journal.count /\ Goto("initNs") /\ UNCHANGED todo
     \/ ~appliedBeforeLast /\ NeedsCleanup
     \/ /\ appliedBeforeLast /\ lastIsIntent
        /\ idx' = journal.count /\ Goto("run") /\ UNCHANGED todo
     \/ /\ appliedBeforeLast /\ ~lastIsIntent /\ ~Complete(journal)
        /\ idx' = journal.count /\ Goto("advance") /\ UNCHANGED todo
  /\ UNCHANGED <<hostVars, journal>>

(* Mutant: the intent is in memory only when its command runs.             *)
SaveIntentLate ==
  /\ pc = "advance" /\ ~Complete(journal)
  /\ idx' = journal.count + 1
  /\ Goto("run") /\ UNCHANGED <<hostVars, journal, todo>>

(* The next effect: its intent is durable before its command runs.         *)
SaveIntent ==
  /\ pc = "advance" /\ ~Complete(journal)
  /\ journal' = WithIntent(journal) /\ idx' = journal.count + 1
  /\ Goto("run") /\ UNCHANGED <<hostVars, todo>>

PlanDone ==
  /\ pc = "advance" /\ Complete(journal)
  /\ Goto("initNs") /\ UNCHANGED <<hostVars, journal, idx, todo>>

Run ==
  /\ pc = "run"
  /\ runErr' \in BOOLEAN
  /\ RunCreation(Kind(idx), runErr')
  /\ pc' = "confirm"
  /\ UNCHANGED <<holders, uplink, bootId, retired, journal, idx, existed, seen,
                 todo, purpose, result>>

Rollback ==
  /\ pc' = "stopLoop" /\ purpose' = "rollback" /\ idx' = journal.count
  /\ runErr' = FALSE /\ UNCHANGED <<existed, seen, todo, result>>

(* The command's outcome is whatever the host now shows.                   *)
Confirm ==
  /\ pc = "confirm"
  /\ \/ /\ Observed(idx) = "exact"
        /\ journal' = [journal EXCEPT !.effects[idx] =
             [phase |-> "applied", id |-> identityFor(Kind(idx), ident)]]
        /\ IF runErr THEN Rollback
           ELSE Goto("advance") /\ UNCHANGED <<idx, todo>>
     \/ Observed(idx) = "absent" /\ runErr /\ Rollback /\ UNCHANGED journal
     \/ /\ Observed(idx) = "conflict" \/ (Observed(idx) = "absent" /\ ~runErr)
        /\ Finish("failed") /\ UNCHANGED journal
  /\ UNCHANGED hostVars

(* native-namespace-init, inside the namespace.  A start that found no     *)
(* ledger undoes itself when it fails.                                     *)
InitializeNamespace ==
  /\ pc = "initNs"
  /\ \/ Finish("started")
     \/ existed /\ Finish("failed")
     \/ /\ ~existed
        /\ pc' = "stopEnter" /\ purpose' = "initFailed"
        /\ UNCHANGED <<idx, runErr, existed, seen, todo, result>>
  /\ UNCHANGED <<hostVars, journal>>

(***************************************************************************)
(* Stop.                                                                   *)
(***************************************************************************)
BeginStop ==
  /\ pc = "idle"
  /\ IF Exists
       THEN /\ pc' = "pids" /\ purpose' = "stop" /\ result' = "none"
            /\ UNCHANGED <<idx, runErr, existed, seen, todo>>
       ELSE Finish("stopped")
  /\ UNCHANGED <<hostVars, journal>>

(* Mutant: stop does not look for processes.                               *)
ProveNothing ==
  /\ pc = "pids"
  /\ Goto("stopEnter") /\ UNCHANGED <<hostVars, journal, idx, todo>>

(* stopNativeNetwork proves that the namespace holds no process.           *)
ProveNoProcesses ==
  /\ pc = "pids"
  /\ IF host["Namespace"] # "absent" /\ holders
       THEN Finish("busy")
       ELSE Goto("stopEnter") /\ UNCHANGED <<idx, todo>>
  /\ UNCHANGED <<hostVars, journal>>

(* Mutant: preflight looks for replaced resources, not for altered ones.   *)
preflightIdentities ==
  \A i \in Entries(journal) :
    LET phase == journal.effects[i].phase IN
    /\ phase = "removed" => Observed(i) = "absent"
    /\ (phase \notin retiredPhases /\ Observed(i) = "exact") => identityMatches(i)

preflightStop ==
  \A i \in Entries(journal) :
    LET phase == journal.effects[i].phase IN
    /\ phase = "removed" => Observed(i) = "absent"
    /\ phase # "removed" => Observed(i) # "conflict"
    /\ (phase \notin retiredPhases /\ Observed(i) = "exact") => identityMatches(i)

Cleared ==
  /\ journal' = EmptyJournal(journal.uplink)
  /\ CASE purpose = "stop" -> Finish("stopped")
       [] purpose = "recover" ->
            /\ pc' = "start" /\ purpose' = "start" /\ existed' = FALSE
            /\ seen' = uplink /\ idx' = 0 /\ todo' = {}
            /\ UNCHANGED <<runErr, result>>
       [] OTHER -> Finish("failed")

StopPriorBoot ==
  /\ pc = "stopEnter" /\ validateJournal(journal) /\ PriorBoot
  /\ IF exclusiveEffectsAbsent
       THEN Cleared
       ELSE Finish("failed") /\ UNCHANGED journal
  /\ UNCHANGED hostVars

StopRefuse ==
  /\ pc = "stopEnter"
  /\ ~validateJournal(journal) \/ (~PriorBoot /\ ~preflightStop)
  /\ Finish("failed") /\ UNCHANGED <<hostVars, journal>>

StopPreflight ==
  /\ pc = "stopEnter" /\ validateJournal(journal) /\ ~PriorBoot /\ preflightStop
  /\ idx' = journal.count /\ Goto("stopLoop")
  /\ UNCHANGED <<hostVars, journal, todo>>

AtEntry(phases) ==
  /\ pc = "stopLoop" /\ idx > 0 /\ journal.effects[idx].phase \in phases

StopSkip ==
  /\ AtEntry(retiredPhases)
  /\ idx' = idx - 1 /\ Goto("stopLoop") /\ UNCHANGED <<hostVars, journal, todo>>

(* Mutant: an entry whose effect is gone is an error.                      *)
StopAbsentRefused ==
  /\ AtEntry(Phase \ retiredPhases) /\ Observed(idx) = "absent"
  /\ Finish("failed") /\ UNCHANGED <<hostVars, journal>>

StopAbsent ==
  /\ AtEntry(Phase \ retiredPhases) /\ Observed(idx) = "absent"
  /\ journal' = WithPhase(journal, idx, "removed")
  /\ idx' = idx - 1 /\ Goto("stopLoop") /\ UNCHANGED <<hostVars, todo>>

MayRemove(i) ==
  /\ Observed(i) = "exact" /\ identityMatches(i)
  /\ Kind(i) = "UnreachableRule" => guestPathsDisabled

identityMissing(i) ==
  Kind(i) \in identityKinds /\ identityEmpty(journal.effects[i].id)

StopUnsafe ==
  /\ AtEntry(Phase \ retiredPhases)
  /\ Observed(idx) # "absent" /\ ~MayRemove(idx)
  /\ Finish("failed") /\ UNCHANGED <<hostVars, journal>>

(* A creation interrupted before its identity was saved.                   *)
StopRecordIdentity ==
  /\ AtEntry(Phase \ retiredPhases) /\ MayRemove(idx) /\ identityMissing(idx)
  /\ journal' = [journal EXCEPT !.effects[idx] =
       [phase |-> "applied", id |-> identityFor(Kind(idx), ident)]]
  /\ Goto("stopLoop") /\ UNCHANGED <<hostVars, idx, todo>>

StopMarkRemoving ==
  /\ AtEntry(Phase \ retiredPhases) /\ MayRemove(idx) /\ ~identityMissing(idx)
  /\ journal' = WithPhase(journal, idx, "removing")
  /\ IF Kind(idx) \notin noReverse THEN Goto("remove") /\ UNCHANGED idx
     ELSE IF Kind(idx) = Forwarding THEN Goto("relinquish") /\ UNCHANGED idx
     ELSE Goto("stopLoop") /\ idx' = idx - 1
  /\ UNCHANGED <<hostVars, todo>>

StopRelinquish ==
  /\ pc = "relinquish"
  /\ journal' = WithPhase(journal, idx, "relinquished")
  /\ idx' = idx - 1 /\ Goto("stopLoop") /\ UNCHANGED <<hostVars, todo>>

RemoveSucceeds ==
  /\ pc = "remove"
  /\ Vanish(GoneWith(Kind(idx)))
  /\ Goto("removed")
  /\ UNCHANGED <<holders, uplink, bootId, retired, journal, idx, todo>>

RemoveFails ==
  /\ pc = "remove"
  /\ Goto("removed") /\ UNCHANGED <<hostVars, journal, idx, todo>>

(* Mutant: the removal is believed without an inspection.                  *)
StopRemovedUnchecked ==
  /\ pc = "removed"
  /\ journal' = WithPhase(journal, idx, "removed")
  /\ idx' = idx - 1 /\ Goto("stopLoop") /\ UNCHANGED <<hostVars, todo>>

StopRemoved ==
  /\ pc = "removed"
  /\ IF Observed(idx) = "absent"
       THEN /\ journal' = WithPhase(journal, idx, "removed")
            /\ idx' = idx - 1 /\ Goto("stopLoop") /\ UNCHANGED todo
       ELSE Finish("failed") /\ UNCHANGED journal
  /\ UNCHANGED hostVars

StopSweep ==
  /\ pc = "stopLoop" /\ idx = 0
  /\ Goto("sweep") /\ UNCHANGED <<hostVars, journal, idx, todo>>

(* The final inspection: what went away with its owner is retired too, and *)
(* nothing that is left lets the ledger be cleared.                        *)
swept(i) ==
  \/ journal.effects[i].phase = "relinquished"
  \/ journal.effects[i].phase = "removed" /\ Observed(i) = "absent"

Sweep ==
  /\ pc = "sweep"
  /\ \E i \in Entries(journal) :
       /\ ~swept(i) /\ \A k \in 1..(i - 1) : swept(k)
       /\ IF Observed(i) = "absent"
            THEN /\ journal' = WithPhase(journal, i, "removed")
                 /\ Goto("sweep") /\ UNCHANGED <<idx, todo>>
            ELSE Finish("failed") /\ UNCHANGED journal
  /\ UNCHANGED hostVars

StopClear ==
  /\ pc = "sweep" /\ \A i \in Entries(journal) : swept(i)
  /\ Cleared /\ UNCHANGED hostVars

(* Killed, cancelled, or unable to read the host or save the ledger.       *)
Crash ==
  /\ pc # "idle" /\ "crash" \in Hazards /\ ~retired
  /\ Finish("failed") /\ UNCHANGED <<hostVars, journal>>

Controller ==
  \/ StartFresh \/ StartRefuse \/ StartReconcile \/ StartRepair
  \/ StartNeedsCleanup \/ RepairRoute \/ RepairDone \/ ReconcileRepaired
  \/ StampLegacy \/ Resume \/ SaveIntent \/ PlanDone \/ Run \/ Confirm
  \/ InitializeNamespace
  \/ ProveNoProcesses \/ StopPriorBoot \/ StopRefuse \/ StopPreflight
  \/ StopSkip \/ StopAbsent \/ StopUnsafe \/ StopRecordIdentity
  \/ StopMarkRemoving \/ StopRelinquish \/ RemoveSucceeds \/ RemoveFails
  \/ StopRemoved \/ StopSweep \/ Sweep \/ StopClear

(***************************************************************************)
(* The rest of the machine.                                                *)
(***************************************************************************)
Hazard(h) == h \in Hazards /\ ~retired

Reboot ==
  /\ Hazard("reboot") /\ bootId < MaxBoots
  /\ bootId' = bootId + 1
  /\ \E forwarding \in BOOLEAN :
       host' = [k \in EffectKind |->
                  IF k = Forwarding /\ forwarding THEN "exact" ELSE "absent"]
  /\ ident' = NoIdentity /\ holders' = FALSE
  /\ IF pc = "idle" THEN UNCHANGED processVars ELSE Finish("failed")
  /\ UNCHANGED <<uplink, retired, journal>>

(* The physical link goes down, now or under a running command.            *)
LinkFlap ==
  /\ Hazard("flap")
  /\ \E k \in Flappable : host[k] = "exact" /\ Vanish({k})
  /\ UNCHANGED <<holders, uplink, bootId, retired, journal, processVars>>

UplinkChange ==
  /\ Hazard("uplink")
  /\ uplink' \in Uplinks \ {uplink}
  /\ UNCHANGED <<host, ident, holders, bootId, retired, journal, processVars>>

(* ip_forward is shared: another service may set it at any time.           *)
SetForwarding ==
  /\ Hazard("forwarding")
  /\ host' = [host EXCEPT ![Forwarding] =
                IF @ = "exact" THEN "absent" ELSE "exact"]
  /\ UNCHANGED <<ident, holders, uplink, bootId, retired, journal, processVars>>

(* Another administrator deletes an effect, turns it into something else,  *)
(* puts a namesake where there was none, or removes that again: between    *)
(* operations or under a start, not between a stop's checks and its acts.  *)
Tamper ==
  /\ Hazard("tamper") /\ purpose \notin {"stop", "recover"}
  /\ \E k \in Tamperable : \E s \in {"absent", "conflict"} \ {host[k]} :
       host' = [host EXCEPT ![k] = s]
  /\ UNCHANGED <<ident, holders, uplink, bootId, retired, journal, processVars>>

(* Somebody deletes the namespace or the pair and creates a namesake.      *)
Replace ==
  /\ Hazard("replace") /\ pc = "idle" /\ ~holders
  /\ \E kind \in {"Namespace", "Veth"}, id \in Ids :
       LET of    == IF kind = "Namespace" THEN ident.ns ELSE ident.veth
           again == GoneWith(kind) \ {kind} IN
       /\ host[kind] = "exact" /\ id # of
       /\ host' = [k \in EffectKind |->
                     IF k \in again THEN "absent" ELSE host[k]]
       /\ ident' = [ns   |-> IF kind = "Namespace" THEN id ELSE ident.ns,
                    veth |-> IF kind = "Veth" THEN id
                             ELSE IF "Veth" \in again THEN NoId ELSE ident.veth]
  /\ UNCHANGED <<holders, uplink, bootId, retired, journal, processVars>>

(* Between operations: nothing could keep a process from entering between  *)
(* stop's look at the namespace and its deletion.                          *)
HolderEnter ==
  /\ Hazard("holder") /\ pc = "idle" /\ host["Namespace"] # "absent"
  /\ ~holders /\ holders' = TRUE
  /\ UNCHANGED <<host, ident, uplink, bootId, retired, journal, processVars>>

HolderLeave ==
  /\ holders /\ holders' = FALSE
  /\ UNCHANGED <<host, ident, uplink, bootId, retired, journal, processVars>>

Retire ==
  /\ "retire" \in Hazards /\ ~retired /\ retired' = TRUE
  /\ UNCHANGED <<host, ident, holders, uplink, bootId, journal, processVars>>

Environment ==
  \/ Reboot \/ LinkFlap \/ UplinkChange \/ SetForwarding \/ Tamper \/ Replace
  \/ HolderEnter \/ HolderLeave \/ Retire

(***************************************************************************)
(* A host that never ran the service, or one upgraded with a version 4     *)
(* installation running, or with the ledger a reboot left of one.          *)
(***************************************************************************)
CompleteJournal(boot, u, forwarding, id) ==
  LET n == planLength(forwarding) IN
  [boot |-> boot, uplink |-> u, forwarding |-> forwarding, count |-> n,
   effects |-> [i \in Slots |->
     IF i <= n
       THEN [phase |-> "applied",
             id |-> identityFor(effectKinds[forwarding][i], id)]
       ELSE ZeroEffect]]

InitFresh(forwarding) ==
  /\ journal = EmptyJournal(uplink) /\ ident = NoIdentity
  /\ host = [k \in EffectKind |->
               IF k = Forwarding /\ forwarding THEN "exact" ELSE "absent"]

InitLegacy(forwarding) ==
  /\ "legacy" \in Hazards
  /\ \E n, v \in Ids :
       LET id == [ns |-> n, veth |-> v] IN
       /\ journal = CompleteJournal(LegacyBoot, uplink, forwarding, id)
       /\ \/ ident = id /\ host = [k \in EffectKind |-> "exact"]
          \/ /\ ident = NoIdentity
             /\ host = [k \in EffectKind |->
                  IF k = Forwarding /\ forwarding THEN "exact" ELSE "absent"]

Init ==
  /\ uplink \in Uplinks /\ bootId = 1 /\ holders = FALSE /\ retired = FALSE
  /\ \E forwarding \in BOOLEAN : InitFresh(forwarding) \/ InitLegacy(forwarding)
  /\ pc = "idle" /\ idx = 0 /\ runErr = FALSE /\ existed = FALSE
  /\ seen = NoUplink /\ todo = {} /\ purpose = "none" /\ result = "none"

Next == BeginStart \/ BeginStop \/ Controller \/ Crash \/ Environment

Spec == Init /\ [][Next]_vars

(***************************************************************************)
(* Safety.                                                                 *)
(***************************************************************************)

(* Every exclusive effect on the host is claimed by an entry of the        *)
(* durable ledger, written by this boot or by version 4: whatever the      *)
(* crash, there is a record from which Stop can find and remove it         *)
(* (Save of the intent before Run, of "removed" only after inspection,     *)
(* Clear only after the final one).                                        *)
OwnedEffectsAreLedgered ==
  \A k \in Exclusive :
    host[k] = "exact" => Claims(journal, k) /\ ~PriorBoot

(* Why the ledger can be trusted: where the process is tells which entry   *)
(* it may act on.                                                          *)
Claimed(i) == i \in Entries(journal) /\ journal.effects[i].phase \notin retiredPhases
ControlInv ==
  /\ pc \notin {"idle", "start", "pids", "stopEnter"} => ~PriorBoot
  /\ pc \in {"repair", "repaired", "resume"} => Exists
  /\ pc \in {"run", "confirm", "remove"} => Claimed(idx)
  /\ pc = "repair" => \A i \in todo : Claimed(i)
  /\ pc \in {"stopLoop", "relinquish", "removed"} => idx \in Entries(journal) \cup {0}
  /\ pc = "relinquish" => Kind(idx) = Forwarding
  /\ pc = "remove" => Kind(idx) \notin noReverse
ConflictsAreTampered ==
  \A k \in EffectKind : host[k] = "conflict" => k \in Tamperable
LedgerInv == OwnedEffectsAreLedgered /\ ConflictsAreTampered /\ ControlInv

(* The controller changes an effect only under a ledger entry that claims  *)
(* it, of a ledger this boot may act on; the ledger of an earlier boot     *)
(* authorizes no command (Start and Stop compare boot identities first).   *)
MutationsAreLedgered ==
  [][Controller => \A k \in EffectKind :
       host'[k] # host[k] => Claims(journal, k) /\ ~PriorBoot]_vars

(* Without a barrier in place, no step of the controller opens a path out  *)
(* of the guest, and no step removes the barrier while one is open         *)
(* (plan order, guestPathsDisabled).                                       *)
Barred == \A k \in guestPaths \cap EffectKind :
            host[k] = "exact" => host["UnreachableRule"] = "exact"
NeverUnbarred == [][Controller /\ Barred => Barred']_vars

(* A namespace or veth pair is removed only while the ledger holds the     *)
(* very identity it has: a namesake somebody put in its place is left      *)
(* alone (preflightStop, and the checks of stopJournal).                   *)
recordedIdentity(kind) ==
  {journal.effects[i].id : i \in {i \in Entries(journal) : Kind(i) = kind}}
ForeignIdentityUntouched ==
  [][Controller => \A k \in {"Namespace", "Veth"} :
       (host[k] = "exact" /\ host'[k] = "absent")
          => recordedIdentity(k) = {identityFor(k, ident)}]_vars

(* Stop removes nothing at all while an effect it would get to is not what *)
(* the ledger says: preflight is all or nothing.                           *)
ConflictFreezesCleanup ==
  [][RemoveSucceeds /\ purpose \in {"stop", "recover"} =>
       \A i \in Entries(journal) :
         /\ Kind(i) # Forwarding => Observed(i) # "conflict"
         /\ Observed(i) = "exact" => identityMatches(i)]_vars

(* A requested stop, or the recovery of a start, never deletes a namespace *)
(* in which a process runs (ip netns pids).                                *)
HeldNamespaceSurvivesStop ==
  [][(RemoveSucceeds /\ purpose \in {"stop", "recover"} /\ holders)
       => host'["Namespace"] = host["Namespace"]]_vars

(* A start that reports success leaves a network that Status calls ready,  *)
(* but for what the kernel and other services changed meanwhile.           *)
StartedIsReady ==
  [][(pc = "initNs" /\ pc' = "idle" /\ result' = "started") =>
       /\ validateJournal(journal) /\ ~PriorBoot
       /\ Complete(journal) /\ AllApplied(journal)
       /\ \A i \in Entries(journal) :
            Kind(i) \in Flappable \cup {Forwarding}
              \/ (Observed(i) = "exact" /\ identityMatches(i))]_vars

(* Every ledger the controller saves is one that Start, Stop and Status    *)
(* will accept when they read it back.                                     *)
JournalStaysValid == Exists => validateJournal(journal)

(***************************************************************************)
(* Liveness.  The process takes its next step; a removal that is tried     *)
(* again and again succeeds in the end; once the network is retired,       *)
(* stop is asked for until it succeeds.                                    *)
(***************************************************************************)
Fairness ==
  /\ WF_vars(Controller)
  /\ SF_vars(RemoveSucceeds)
  /\ WF_vars(retired /\ Exists /\ BeginStop)
  /\ WF_vars(HolderLeave)

FairSpec == Spec /\ Fairness

(* No start, recovery or stop runs for ever; and from any ledger a crash   *)
(* may leave, once the network is retired and nothing is in conflict,      *)
(* repeated stops give every effect back and clear the ledger.             *)
Removable ==
  /\ validateJournal(journal)
  /\ PriorBoot => exclusiveEffectsAbsent
  /\ ~PriorBoot => preflightStop
NetworkConverges ==
  /\ pc # "idle" ~> pc = "idle"
  /\ (retired /\ pc = "idle" /\ Exists /\ Removable)
       ~> (~Exists /\ \A k \in Exclusive : host[k] # "exact")
==============================================================================
