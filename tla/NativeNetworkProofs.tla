------------------------- MODULE NativeNetworkProofs -------------------------
(***************************************************************************)
(* Theorems about NativeNetwork, for every plan, every set of hazards and  *)
(* any number of boots.                                                    *)
(***************************************************************************)
EXTENDS NativeNetwork, TLAPS

-----------------------------------------------------------------------------
(* Facts about the plan and the ledger's operators.                        *)

(* Every slot a plan uses exists, and every plan has a first one.          *)
LEMMA PlanSlots ==
  ASSUME NEW f \in BOOLEAN
  PROVE  /\ planLength(f) \in Nat
         /\ 1..planLength(f) \subseteq Slots
         /\ 1 \in 1..planLength(f)
         /\ Slots \subseteq Nat \ {0}
<1>1. planLength(FALSE) \in Nat
  BY PlanShape DEF PlanAssumption
<1>2. planLength(f) \in 1..planLength(FALSE)
  BY PlanShape DEF PlanAssumption
<1>3. ASSUME NEW n \in Nat, NEW m \in 1..n
      PROVE  /\ m \in Nat /\ 1..m \subseteq 1..n
             /\ 1 \in 1..m /\ 1..n \subseteq Nat \ {0}
  OBVIOUS
<1> QED BY <1>1, <1>2, <1>3 DEF Slots

LEMMA SlotNumbers ==
  Slots \subseteq Nat \ {0} /\ 1 \in Slots /\ \A x \in Slots \cup {0} : x \in Nat
<1>1. \A n \in Nat : /\ 1..n \subseteq Nat \ {0}
                    /\ \A x \in (1..n) \cup {0} : x \in Nat
  OBVIOUS
<1>2. planLength(FALSE) \in Nat
  BY PlanSlots
<1>3. 1 \in Slots
  BY PlanSlots
<1> QED BY <1>1, <1>2, <1>3 DEF Slots

(* identityFor keeps the type of an identity.                              *)
LEMMA IdentityForType ==
  ASSUME NEW kind, NEW id \in Identity
  PROVE  identityFor(kind, id) \in Identity
BY DEF identityFor, Identity

LEMMA PhaseNames ==
  /\ {"none", "intent", "applied", "removing", "removed", "relinquished"} = Phase
  /\ retiredPhases = {"removed", "relinquished"}
  /\ NoIdentity \in Identity /\ ZeroEffect \in JournalEffect
BY DEF Phase, retiredPhases, NoIdentity, Identity, ZeroEffect, JournalEffect

-----------------------------------------------------------------------------
(* The ledger never holds more entries than its plan has effects, a start  *)
(* has discovered an uplink, and a removal works on some effect.           *)
PlanFits == journal.count <= planLength(journal.forwarding)
StartHasUplink == pc = "start" => seen \in Uplinks
AtEffect == {"relinquish", "remove", "removed"}
RemovalHasIndex == pc \in AtEffect => idx \in Slots

TypeInv == TypeOK /\ PlanFits /\ StartHasUplink /\ RemovalHasIndex

(* A ledger of the right type whose entries fit its plan.                  *)
Fitting(j) == j \in NetworkJournal /\ j.count <= planLength(j.forwarding)

LEMMA EmptyFits ==
  ASSUME NEW u \in Uplinks PROVE Fitting(EmptyJournal(u))
<1>1. [i \in Slots |-> ZeroEffect] \in [Slots -> JournalEffect]
  BY PhaseNames
<1>2. EmptyJournal(u) \in NetworkJournal
  BY <1>1 DEF EmptyJournal, NetworkJournal, LegacyBoot
<1>3. EmptyJournal(u).count = 0 /\ EmptyJournal(u).forwarding \in BOOLEAN
  BY DEF EmptyJournal
<1>4. \A f \in BOOLEAN : 0 <= planLength(f)
  BY PlanSlots
<1> QED BY <1>2, <1>3, <1>4 DEF Fitting

LEMMA FreshFits ==
  ASSUME NEW u \in Uplinks, NEW b \in Nat, NEW f \in BOOLEAN
  PROVE  Fitting(FreshJournal(b, u, f))
<1>1. 1 \in Slots /\ 1 <= planLength(f)
  BY PlanSlots
<1>2. [[i \in Slots |-> ZeroEffect] EXCEPT ![1].phase = "intent"]
        \in [Slots -> JournalEffect]
  BY <1>1, PhaseNames DEF JournalEffect
<1> QED BY <1>1, <1>2 DEF FreshJournal, Fitting, NetworkJournal

LEMMA IntentFits ==
  ASSUME NEW j, Fitting(j), ~Complete(j)
  PROVE  Fitting(WithIntent(j))
<1>1. /\ j.count + 1 \in Slots
      /\ j.count + 1 <= planLength(j.forwarding)
  BY PlanSlots DEF Fitting, NetworkJournal, Complete
<1>2. [phase |-> "intent", id |-> NoIdentity] \in JournalEffect
  BY PhaseNames DEF JournalEffect
<1> QED BY <1>1, <1>2 DEF WithIntent, Fitting, NetworkJournal

LEMMA EntryFits ==
  ASSUME NEW j, Fitting(j), NEW i, NEW e \in JournalEffect
  PROVE  Fitting([j EXCEPT !.effects[i] = e])
BY DEF Fitting, NetworkJournal

LEMMA PhaseFits ==
  ASSUME NEW j, Fitting(j), NEW i, NEW p \in Phase
  PROVE  Fitting(WithPhase(j, i, p))
BY DEF Fitting, NetworkJournal, WithPhase, JournalEffect

LEMMA CompleteFits ==
  ASSUME NEW u \in Uplinks, NEW b \in Nat, NEW f \in BOOLEAN, NEW id \in Identity
  PROVE  Fitting(CompleteJournal(b, u, f, id))
<1>1. planLength(f) \in Slots /\ planLength(f) <= planLength(f)
  BY PlanSlots
<1> DEFINE entry(i) == IF i <= planLength(f)
                         THEN [phase |-> "applied",
                               id |-> identityFor(effectKinds[f][i], id)]
                         ELSE ZeroEffect
<1>2. \A i \in Slots : entry(i) \in JournalEffect
  BY IdentityForType, PhaseNames DEF JournalEffect
<1>3. [i \in Slots |-> entry(i)] \in [Slots -> JournalEffect]
  BY <1>2
<1> HIDE DEF entry
<1>4. [boot |-> b, uplink |-> u, forwarding |-> f, count |-> planLength(f),
       effects |-> [i \in Slots |-> entry(i)]] \in NetworkJournal
  BY <1>1, <1>3 DEF NetworkJournal
<1> QED BY <1>1, <1>4 DEF CompleteJournal, Fitting, entry

LEMMA ReconciledFits ==
  ASSUME TypeInv PROVE Fitting(Reconciled)
<1>1. \A i \in Slots : reconciledEntry(i) \in JournalEffect
  BY IdentityForType, PhaseNames
     DEF reconciledEntry, TypeInv, TypeOK, JournalEffect, NetworkJournal
<1> QED BY <1>1 DEF Reconciled, TypeInv, TypeOK, PlanFits, Fitting, NetworkJournal

-----------------------------------------------------------------------------
(* Type correctness.                                                       *)

(* The part of the state the process keeps, and the part it does not.      *)
ProcessTypeOK ==
  /\ pc \in Control /\ idx \in Slots \cup {0}
  /\ runErr \in BOOLEAN /\ existed \in BOOLEAN
  /\ seen \in Uplinks \cup {NoUplink}
  /\ todo \subseteq Slots /\ purpose \in Purpose
  /\ result \in {"none", "started", "stopped", "failed", "busy"}
  /\ StartHasUplink /\ RemovalHasIndex

HostTypeOK ==
  /\ host \in [EffectKind -> ObservationState]
  /\ ident \in Identity
  /\ holders \in BOOLEAN /\ retired \in BOOLEAN
  /\ uplink \in Uplinks
  /\ bootId \in Nat \ {LegacyBoot}

LEMMA TypeInvParts == TypeInv <=> HostTypeOK /\ ProcessTypeOK /\ Fitting(journal)
BY DEF TypeInv, TypeOK, PlanFits, HostTypeOK, ProcessTypeOK, Fitting

LEMMA FinishType ==
  ASSUME NEW r \in {"none", "started", "stopped", "failed", "busy"}, Finish(r)
  PROVE  ProcessTypeOK'
BY DEF Finish, ProcessTypeOK, StartHasUplink, RemovalHasIndex, AtEffect, Control, Purpose

LEMMA GotoType ==
  ASSUME ProcessTypeOK, NEW label \in Control \ {"start"}, Goto(label),
         idx' \in Slots \cup {0}, todo' \subseteq Slots,
         label \in AtEffect => idx' \in Slots
  PROVE  ProcessTypeOK'
BY DEF Goto, ProcessTypeOK, StartHasUplink, RemovalHasIndex, AtEffect

LEMMA NeedsCleanupType ==
  ASSUME ProcessTypeOK, NeedsCleanup PROVE ProcessTypeOK'
BY FinishType DEF NeedsCleanup, ProcessTypeOK, StartHasUplink, RemovalHasIndex, AtEffect, Control, Purpose

LEMMA RollbackType ==
  ASSUME ProcessTypeOK, Fitting(journal), Rollback PROVE ProcessTypeOK'
BY DEF Rollback, ProcessTypeOK, StartHasUplink, RemovalHasIndex, AtEffect, Control, Purpose, Fitting, NetworkJournal

LEMMA ClearedType ==
  ASSUME HostTypeOK, ProcessTypeOK, Fitting(journal), Cleared
  PROVE  ProcessTypeOK' /\ Fitting(journal')
<1>1. Fitting(journal')
  BY EmptyFits DEF Cleared, Fitting, NetworkJournal
<1>2. ProcessTypeOK'
  BY FinishType DEF Cleared, ProcessTypeOK, StartHasUplink, RemovalHasIndex, AtEffect, HostTypeOK, Control, Purpose
<1> QED BY <1>1, <1>2

LEMMA KernelType ==
  ASSUME host \in [EffectKind -> ObservationState], ident \in Identity
  PROVE  /\ \A kinds : Vanish(kinds) =>
              host' \in [EffectKind -> ObservationState] /\ ident' \in Identity
         /\ \A kind, failed : RunCreation(kind, failed) =>
              host' \in [EffectKind -> ObservationState] /\ ident' \in Identity
BY DEF Vanish, RunCreation, Appear, Identity, ObservationState

LEMMA InitTypeInv == Init => TypeInv
<1> SUFFICES ASSUME Init PROVE TypeInv
  OBVIOUS
<1>1. ProcessTypeOK
  BY DEF Init, ProcessTypeOK, StartHasUplink, RemovalHasIndex, AtEffect, Control, Purpose
<1>2. uplink \in Uplinks /\ NoIdentity \in Identity /\ bootId \in Nat \ {LegacyBoot}
  BY PhaseNames DEF Init, LegacyBoot
<1>5. holders \in BOOLEAN /\ retired \in BOOLEAN
  BY Zenon DEF Init
<1>3. PICK forwarding \in BOOLEAN : InitFresh(forwarding) \/ InitLegacy(forwarding)
  BY DEF Init
<1>4. HostTypeOK /\ Fitting(journal)
  <2>1. CASE InitFresh(forwarding)
    <3>1. host \in [EffectKind -> ObservationState]
      BY <2>1 DEF InitFresh, ObservationState
    <3>2. ident \in Identity /\ Fitting(journal)
      BY <1>2, <2>1, EmptyFits DEF InitFresh
    <3> QED BY <1>2, <1>5, <3>1, <3>2 DEF HostTypeOK
  <2>2. CASE InitLegacy(forwarding)
    <3>1. PICK n \in Ids, v \in Ids :
            LET id == [ns |-> n, veth |-> v] IN
            /\ journal = CompleteJournal(LegacyBoot, uplink, forwarding, id)
            /\ ident \in {id, NoIdentity}
            /\ host \in [EffectKind -> ObservationState]
      BY <2>2 DEF InitLegacy, ObservationState
    <3>2. [ns |-> n, veth |-> v] \in Identity
      BY DEF Identity
    <3>3. Fitting(journal)
      BY <1>2, <3>1, <3>2, CompleteFits DEF LegacyBoot
    <3> QED BY <1>2, <1>5, <3>1, <3>2, <3>3 DEF HostTypeOK
  <2> QED BY <1>3, <2>1, <2>2
<1> QED BY <1>1, <1>4, TypeInvParts

(* What a step leaves alone keeps its type.                                *)
LEMMA HostUnchanged ==
  ASSUME HostTypeOK, UNCHANGED hostVars PROVE HostTypeOK'
BY DEF HostTypeOK, hostVars

LEMMA ProcessUnchanged ==
  ASSUME ProcessTypeOK, UNCHANGED processVars PROVE ProcessTypeOK'
BY DEF ProcessTypeOK, StartHasUplink, RemovalHasIndex, AtEffect, processVars

Typed == HostTypeOK /\ ProcessTypeOK /\ Fitting(journal)

LEMMA StartType ==
  ASSUME Typed,
         \/ BeginStart \/ StartFresh \/ StartRefuse \/ StartReconcile
         \/ StartRepair \/ StartNeedsCleanup
  PROVE  Typed'
<1> USE DEF Typed
<1>a. /\ idx \in Slots \cup {0} /\ todo \subseteq Slots /\ 1 \in Slots
      /\ bootId \in Nat /\ seen \in Uplinks \cup {NoUplink} /\ uplink \in Uplinks
  BY PlanSlots DEF HostTypeOK, ProcessTypeOK
<1>1. CASE BeginStart
  <2>1. HostTypeOK' /\ Fitting(journal')
    BY <1>1, HostUnchanged DEF BeginStart
  <2>2. ProcessTypeOK'
    BY <1>1, <1>a DEF BeginStart, ProcessTypeOK, StartHasUplink, RemovalHasIndex, AtEffect, Control, Purpose, Exists
  <2> QED BY <2>1, <2>2
<1>2. CASE StartFresh
  <2>1. HostTypeOK'
    BY <1>2, HostUnchanged DEF StartFresh, hostVars
  <2>2. CASE validateSnapshot
    <3>1. seen \in Uplinks /\ (host[Forwarding] = "exact") \in BOOLEAN
      BY <1>2 DEF StartFresh, ProcessTypeOK, StartHasUplink
    <3>2. Fitting(journal')
      BY <1>2, <2>2, <3>1, <1>a, FreshFits DEF StartFresh
    <3> QED BY <1>2, <2>1, <2>2, <3>2, <1>a, GotoType DEF StartFresh, Control, AtEffect
  <2>3. CASE ~validateSnapshot
    BY <1>2, <2>1, <2>3, FinishType DEF StartFresh
  <2> QED BY <2>2, <2>3
<1>3. CASE StartRefuse
  BY <1>3, HostUnchanged, FinishType DEF StartRefuse
<1>4. CASE StartReconcile
  <2>1. Fitting(journal')
    BY <1>4, ReconciledFits, TypeInvParts DEF StartReconcile
  <2>2. HostTypeOK' /\ ProcessTypeOK'
    BY <1>4, <1>a, HostUnchanged, GotoType DEF StartReconcile, Control, AtEffect
  <2> QED BY <2>1, <2>2
<1>5. CASE StartRepair
  <2>1. missingUplinkRoutes \subseteq Slots
    BY PlanSlots DEF missingUplinkRoutes, Entries, Fitting, NetworkJournal
  <2> QED BY <1>5, <2>1, <1>a, HostUnchanged, GotoType DEF StartRepair, Control, AtEffect
<1>6. CASE StartNeedsCleanup
  BY <1>6, HostUnchanged, NeedsCleanupType DEF StartNeedsCleanup
<1> QED BY <1>1, <1>2, <1>3, <1>4, <1>5, <1>6

LEMMA ResumeType ==
  ASSUME Typed,
         \/ RepairRoute \/ RepairDone \/ ReconcileRepaired \/ StampLegacy
         \/ Resume \/ SaveIntent \/ PlanDone \/ Run \/ Confirm
         \/ InitializeNamespace
  PROVE  Typed'
<1> USE DEF Typed
<1>a. /\ idx \in Slots \cup {0} /\ todo \subseteq Slots
      /\ bootId \in Nat /\ journal.count \in Slots \cup {0}
  BY DEF HostTypeOK, ProcessTypeOK, Fitting, NetworkJournal
<1>b. Fitting(Reconciled)
  BY ReconciledFits, TypeInvParts
<1>c. host \in [EffectKind -> ObservationState] /\ ident \in Identity
  BY DEF HostTypeOK
<1>d. \A i : [phase |-> "applied", id |-> identityFor(Kind(i), ident)]
               \in JournalEffect
  BY <1>c, IdentityForType, PhaseNames DEF JournalEffect
<1>1. CASE RepairRoute
  <2>1. PICK i \in todo :
          \/ RunCreation(Kind(i), FALSE) /\ todo' = todo \ {i} /\ Goto("repair")
             /\ UNCHANGED idx
          \/ RunCreation(Kind(i), TRUE) /\ Finish("failed")
    BY <1>1 DEF RepairRoute
  <2>2. HostTypeOK' /\ Fitting(journal')
    BY <1>1, <2>1, <1>c, KernelType DEF RepairRoute, HostTypeOK
  <2>3. ProcessTypeOK'
    BY <2>1, <1>a, GotoType, FinishType DEF Control, AtEffect
  <2> QED BY <2>2, <2>3
<1>2. CASE RepairDone
  BY <1>2, <1>a, HostUnchanged, GotoType DEF RepairDone, Control, AtEffect
<1>3. CASE ReconcileRepaired
  <2>1. HostTypeOK' /\ Fitting(journal')
    BY <1>3, <1>b, HostUnchanged DEF ReconcileRepaired
  <2>2. ProcessTypeOK'
    BY <1>3, <1>a, GotoType, FinishType, NeedsCleanupType
       DEF ReconcileRepaired, Control, AtEffect
  <2> QED BY <2>1, <2>2
<1>4. CASE StampLegacy
  <2>1. Fitting(journal')
    BY <1>4, <1>a DEF StampLegacy, Fitting, NetworkJournal
  <2> QED BY <1>4, <2>1, <1>a, HostUnchanged, GotoType DEF StampLegacy, Control, AtEffect
<1>5. CASE Resume
  <2>1. HostTypeOK' /\ Fitting(journal')
    BY <1>5, HostUnchanged DEF Resume
  <2>2. ProcessTypeOK'
    BY <1>5, <1>a, GotoType, NeedsCleanupType DEF Resume, Control, AtEffect
  <2> QED BY <2>1, <2>2
<1>6. CASE SaveIntent
  <2>1. Fitting(journal') /\ journal.count + 1 \in Slots
    <3>1. Fitting(journal')
      BY <1>6, IntentFits DEF SaveIntent
    <3>2. journal'.count = journal.count + 1
      BY <1>6 DEF SaveIntent, WithIntent, Fitting, NetworkJournal
    <3> QED BY <1>a, <3>1, <3>2, PlanSlots DEF Fitting, NetworkJournal
  <2> QED BY <1>6, <2>1, <1>a, HostUnchanged, GotoType DEF SaveIntent, Control, AtEffect
<1>7. CASE PlanDone
  BY <1>7, <1>a, HostUnchanged, GotoType DEF PlanDone, Control, AtEffect
<1>8. CASE Run
  <2>1. HostTypeOK' /\ Fitting(journal')
    BY <1>8, <1>c, KernelType DEF Run, HostTypeOK
  <2>2. ProcessTypeOK'
    BY <1>8 DEF Run, ProcessTypeOK, StartHasUplink, RemovalHasIndex, AtEffect, Control
  <2> QED BY <2>1, <2>2
<1>9. CASE Confirm
  <2>1. HostTypeOK'
    BY <1>9, HostUnchanged DEF Confirm
  <2>2. Fitting(journal')
    <3>1. \/ UNCHANGED journal
          \/ journal' = [journal EXCEPT !.effects[idx] =
               [phase |-> "applied", id |-> identityFor(Kind(idx), ident)]]
      BY <1>9 DEF Confirm
    <3>2. Fitting([journal EXCEPT !.effects[idx] =
               [phase |-> "applied", id |-> identityFor(Kind(idx), ident)]])
      BY <1>d, EntryFits
    <3> QED BY <3>1, <3>2
  <2>3. ProcessTypeOK'
    BY <1>9, <1>a, GotoType, FinishType, RollbackType DEF Confirm, Control, AtEffect
  <2> QED BY <2>1, <2>2, <2>3
<1>10. CASE InitializeNamespace
  <2>1. HostTypeOK' /\ Fitting(journal')
    BY <1>10, HostUnchanged DEF InitializeNamespace
  <2>2. ProcessTypeOK'
    BY <1>10, FinishType
       DEF InitializeNamespace, ProcessTypeOK, StartHasUplink, RemovalHasIndex, AtEffect, Control, Purpose
  <2> QED BY <2>1, <2>2
<1> QED BY <1>1, <1>2, <1>3, <1>4, <1>5, <1>6, <1>7, <1>8, <1>9, <1>10

LEMMA StopType ==
  ASSUME Typed,
         \/ BeginStop \/ ProveNoProcesses \/ StopPriorBoot \/ StopRefuse
         \/ StopPreflight \/ StopSkip \/ StopAbsent \/ StopUnsafe
         \/ StopRecordIdentity \/ StopMarkRemoving \/ StopRelinquish
         \/ RemoveSucceeds \/ RemoveFails \/ StopRemoved \/ StopSweep
         \/ Sweep \/ StopClear \/ Crash
  PROVE  Typed'
<1> USE DEF Typed
<1>a. /\ idx \in Slots \cup {0} /\ todo \subseteq Slots
      /\ journal.count \in Slots \cup {0}
      /\ idx \in Slots => idx - 1 \in Slots \cup {0}
      /\ idx > 0 => idx \in Slots
      /\ pc \in AtEffect => idx \in Slots
  <2>1. planLength(FALSE) \in Nat
    BY PlanSlots
  <2>2. \A n \in Nat : \A i \in (1..n) \cup {0} :
           (i \in 1..n => i - 1 \in (1..n) \cup {0}) /\ (i > 0 => i \in 1..n)
    OBVIOUS
  <2>3. idx \in Slots \cup {0} /\ (pc \in AtEffect => idx \in Slots)
    BY DEF ProcessTypeOK, RemovalHasIndex
  <2> QED BY <2>1, <2>2, <2>3 DEF Slots, ProcessTypeOK, Fitting, NetworkJournal
<1>b. {"removing", "removed", "relinquished"} \subseteq Phase
  BY DEF Phase
<1>c. \A i : [phase |-> "applied", id |-> identityFor(Kind(i), ident)]
               \in JournalEffect
  BY IdentityForType, PhaseNames DEF JournalEffect, HostTypeOK
<1>1. CASE BeginStop
  <2>1. HostTypeOK' /\ Fitting(journal')
    BY <1>1, HostUnchanged DEF BeginStop
  <2>2. ProcessTypeOK'
    BY <1>1, FinishType DEF BeginStop, ProcessTypeOK, StartHasUplink, RemovalHasIndex, AtEffect, Control, Purpose
  <2> QED BY <2>1, <2>2
<1>2. CASE ProveNoProcesses
  BY <1>2, <1>a, HostUnchanged, FinishType, GotoType DEF ProveNoProcesses, Control, AtEffect
<1>3. CASE StopPriorBoot
  BY <1>3, HostUnchanged, FinishType, ClearedType DEF StopPriorBoot
<1>4. CASE StopRefuse
  BY <1>4, HostUnchanged, FinishType DEF StopRefuse
<1>5. CASE StopPreflight
  BY <1>5, <1>a, HostUnchanged, GotoType DEF StopPreflight, Control, AtEffect
<1>6. CASE StopSkip
  BY <1>6, <1>a, HostUnchanged, GotoType DEF StopSkip, AtEntry, Control, AtEffect
<1>7. CASE StopAbsent
  <2>1. Fitting(journal')
    BY <1>7, <1>b, PhaseFits DEF StopAbsent
  <2> QED BY <1>7, <2>1, <1>a, HostUnchanged, GotoType
          DEF StopAbsent, AtEntry, Control, AtEffect
<1>8. CASE StopUnsafe
  BY <1>8, HostUnchanged, FinishType DEF StopUnsafe
<1>9. CASE StopRecordIdentity
  <2>1. Fitting(journal')
    BY <1>9, <1>c, EntryFits DEF StopRecordIdentity
  <2> QED BY <1>9, <2>1, <1>a, HostUnchanged, GotoType
          DEF StopRecordIdentity, Control, AtEffect
<1>10. CASE StopMarkRemoving
  <2>1. Fitting(journal')
    BY <1>10, <1>b, PhaseFits DEF StopMarkRemoving
  <2>2. idx' \in Slots \cup {0} /\ todo' \subseteq Slots
    BY <1>10, <1>a DEF StopMarkRemoving, AtEntry
  <2>3. ProcessTypeOK'
    <3>1. idx \in Slots
      BY <1>10, <1>a DEF StopMarkRemoving, AtEntry
    <3>2. \/ Goto("remove") /\ UNCHANGED idx
          \/ Goto("relinquish") /\ UNCHANGED idx
          \/ Goto("stopLoop")
      BY <1>10 DEF StopMarkRemoving
    <3> QED BY <3>1, <3>2, <2>2, GotoType DEF Control, AtEffect
  <2> QED BY <1>10, <2>1, <2>3, HostUnchanged DEF StopMarkRemoving
<1>11. CASE StopRelinquish
  <2>1. Fitting(journal')
    BY <1>11, <1>b, PhaseFits DEF StopRelinquish
  <2> QED BY <1>11, <2>1, <1>a, HostUnchanged, GotoType
          DEF StopRelinquish, Control, AtEffect
<1>12. CASE RemoveSucceeds
  <2>1. HostTypeOK' /\ Fitting(journal')
    BY <1>12, KernelType DEF RemoveSucceeds, HostTypeOK
  <2>2. ProcessTypeOK'
    BY <1>12, <1>a, GotoType DEF RemoveSucceeds, Control, AtEffect
  <2> QED BY <2>1, <2>2
<1>13. CASE RemoveFails
  BY <1>13, <1>a, HostUnchanged, GotoType DEF RemoveFails, Control, AtEffect
<1>14. CASE StopRemoved
  <2>1. HostTypeOK' /\ Fitting(journal')
    BY <1>14, <1>b, PhaseFits, HostUnchanged DEF StopRemoved
  <2>2. ProcessTypeOK'
    BY <1>14, <1>a, FinishType, GotoType DEF StopRemoved, Control, AtEffect
  <2> QED BY <2>1, <2>2
<1>15. CASE StopSweep
  BY <1>15, <1>a, HostUnchanged, GotoType DEF StopSweep, Control, AtEffect
<1>16. CASE Sweep
  <2>1. PICK i \in Entries(journal) :
          IF Observed(i) = "absent"
            THEN /\ journal' = WithPhase(journal, i, "removed")
                 /\ Goto("sweep") /\ UNCHANGED <<idx, todo>>
            ELSE Finish("failed") /\ UNCHANGED journal
    BY <1>16 DEF Sweep
  <2>2. HostTypeOK' /\ Fitting(journal')
    BY <1>16, <2>1, <1>b, PhaseFits, HostUnchanged DEF Sweep
  <2>3. ProcessTypeOK'
    BY <2>1, <1>a, FinishType, GotoType DEF Control, AtEffect
  <2> QED BY <2>2, <2>3
<1>17. CASE StopClear
  BY <1>17, HostUnchanged, ClearedType DEF StopClear
<1>18. CASE Crash
  BY <1>18, HostUnchanged, FinishType DEF Crash
<1> QED BY <1>1, <1>2, <1>3, <1>4, <1>5, <1>6, <1>7, <1>8, <1>9, <1>10,
           <1>11, <1>12, <1>13, <1>14, <1>15, <1>16, <1>17, <1>18

LEMMA EnvironmentType ==
  ASSUME Typed, Environment PROVE Typed'
<1> USE DEF Typed
<1>a. host \in [EffectKind -> ObservationState] /\ ident \in Identity
      /\ NoIdentity \in Identity /\ bootId \in Nat \ {LegacyBoot}
  BY PhaseNames DEF HostTypeOK
<1>1. CASE Reboot
  <2>1. HostTypeOK'
    <3>1. host' \in [EffectKind -> ObservationState]
      BY <1>1 DEF Reboot, ObservationState
    <3>2. bootId' \in Nat \ {LegacyBoot}
      BY <1>1, <1>a DEF Reboot, LegacyBoot
    <3> QED BY <1>1, <1>a, <3>1, <3>2 DEF Reboot, HostTypeOK
  <2>2. ProcessTypeOK' /\ Fitting(journal')
    BY <1>1, FinishType, ProcessUnchanged DEF Reboot
  <2> QED BY <2>1, <2>2
<1>2. CASE \/ LinkFlap \/ UplinkChange \/ SetForwarding \/ Tamper \/ Replace
           \/ HolderEnter \/ HolderLeave \/ Retire
  <2>1. ProcessTypeOK' /\ Fitting(journal')
    BY <1>2, ProcessUnchanged
       DEF LinkFlap, UplinkChange, SetForwarding, Tamper, Replace,
           HolderEnter, HolderLeave, Retire
  <2>2. host' \in [EffectKind -> ObservationState]
    BY <1>2, <1>a, KernelType
       DEF LinkFlap, UplinkChange, SetForwarding, Tamper, Replace,
           HolderEnter, HolderLeave, Retire, ObservationState
  <2>3. ident' \in Identity
    <3>1. CASE LinkFlap
      BY <3>1, <1>a, KernelType DEF LinkFlap
    <3>2. CASE Replace
      BY <3>2, <1>a DEF Replace, Identity
    <3>3. CASE ~(LinkFlap \/ Replace)
      BY <1>2, <3>3, <1>a
         DEF UplinkChange, SetForwarding, Tamper, HolderEnter, HolderLeave, Retire
    <3> QED BY <3>1, <3>2, <3>3
  <2>4. UNCHANGED bootId /\ uplink' \in Uplinks
    BY <1>2
       DEF LinkFlap, UplinkChange, SetForwarding, Tamper, Replace,
           HolderEnter, HolderLeave, Retire, HostTypeOK
  <2>5. holders' \in BOOLEAN /\ retired' \in BOOLEAN
    BY <1>2
       DEF LinkFlap, UplinkChange, SetForwarding, Tamper, Replace,
           HolderEnter, HolderLeave, Retire, HostTypeOK
  <2> QED BY <1>a, <2>1, <2>2, <2>3, <2>4, <2>5 DEF HostTypeOK
<1> QED BY <1>1, <1>2 DEF Environment

LEMMA NextType == ASSUME Typed, [Next]_vars PROVE Typed'
<1>1. CASE UNCHANGED vars
  BY <1>1, HostUnchanged, ProcessUnchanged DEF vars, Typed
<1> QED BY <1>1, StartType, ResumeType, StopType, EnvironmentType
        DEF Next, Controller

(* Every variable keeps its type, whatever the plan and the hazards: no    *)
(* index runs off the ledger's fixed array (EffectCount, MaxNetworkEffects *)
(* in Start's loop).                                                       *)
THEOREM TypeCorrect == Spec => []TypeOK
<1>1. Init => Typed
  BY InitTypeInv, TypeInvParts DEF Typed
<1>2. Typed /\ [Next]_vars => Typed'
  BY NextType
<1>3. Typed => TypeOK
  BY TypeInvParts DEF Typed, TypeInv
<1> QED BY <1>1, <1>2, <1>3, PTL DEF Spec
=============================================================================
