-------------------------- MODULE NativeLedgerProofs --------------------------
(***************************************************************************)
(* The ledger theorem: every exclusive effect on the host is claimed by an *)
(* entry of the durable ledger, and the controller changes nothing else.   *)
(* From it, what a start and a stop may rely on between their checks and   *)
(* their acts: Identified, StartInv and StopInv, and the properties of     *)
(* steps that follow from them.                                            *)
(***************************************************************************)
EXTENDS NativeNetworkProofs

Inv == Typed /\ LedgerInv

-----------------------------------------------------------------------------
(* Facts about claims.                                                     *)

(* A fact about the plan, without its definition: it has every exclusive   *)
(* kind.                                                                   *)
LEMMA PlanKinds ==
  ASSUME NEW j, Fitting(j)
  PROVE  /\ \A k \in Exclusive : \E i \in 1..planLength(j.forwarding) : kindAt(j, i) = k
         /\ \A i \in Entries(j) : kindAt(j, i) \in EffectKind
         /\ Entries(j) \subseteq 1..planLength(j.forwarding)
         /\ Entries(j) \subseteq Slots
<1>1. j.forwarding \in BOOLEAN /\ j.count \in Slots \cup {0}
      /\ j.count <= planLength(j.forwarding)
  BY DEF Fitting, NetworkJournal
<1>2. /\ planLength(j.forwarding) \in Nat
      /\ 1..planLength(j.forwarding) \subseteq Slots
      /\ Slots \subseteq Nat \ {0}
  BY <1>1, PlanSlots
<1>3. Entries(j) \subseteq 1..planLength(j.forwarding)
  <2>1. \A n, m \in Nat : n <= m => 1..n \subseteq 1..m
    OBVIOUS
  <2>2. j.count \in Nat
    <3>1. \A x \in Slots \cup {0} : x \in Nat
      BY SlotNumbers
    <3> QED BY <1>1, <3>1
  <2> QED BY <1>1, <1>2, <2>1, <2>2 DEF Entries
<1>4. /\ Exclusive \subseteq {effectKinds[j.forwarding][i] :
                                i \in 1..planLength(j.forwarding)}
      /\ {effectKinds[j.forwarding][i] : i \in 1..planLength(j.forwarding)}
           \subseteq EffectKind
  BY <1>1, PlanShape DEF PlanAssumption
<1> QED BY <1>2, <1>3, <1>4 DEF kindAt

(* A claim survives any change of the ledger that keeps its plan and its   *)
(* entries and does not retire that kind.                                  *)
LEMMA ClaimKept ==
  ASSUME NEW j, NEW h, NEW k,
         h.forwarding = j.forwarding, Entries(j) \subseteq Entries(h),
         \A i \in Entries(j) :
           kindAt(j, i) = k /\ j.effects[i].phase \notin retiredPhases
             => h.effects[i].phase \notin retiredPhases,
         Claims(j, k)
  PROVE  Claims(h, k)
BY DEF Claims, kindAt

LEMMA ClaimedClaims ==
  ASSUME NEW i, Claimed(i) PROVE Claims(journal, Kind(i))
BY DEF Claimed, Claims, Kind

(* A change of one entry's phase changes no other entry.                   *)
LEMMA PhaseChange ==
  ASSUME NEW j, Fitting(j), NEW i \in Slots, NEW p
  PROVE  LET h == WithPhase(j, i, p) IN
         /\ h.forwarding = j.forwarding /\ h.boot = j.boot /\ h.count = j.count
         /\ h.effects[i].phase = p
         /\ \A n \in Slots \ {i} : h.effects[n] = j.effects[n]
BY DEF WithPhase, Fitting, NetworkJournal, JournalEffect

LEMMA EntryChange ==
  ASSUME NEW j, Fitting(j), NEW i \in Slots, NEW e
  PROVE  LET h == [j EXCEPT !.effects[i] = e] IN
         /\ h.forwarding = j.forwarding /\ h.boot = j.boot /\ h.count = j.count
         /\ h.effects[i] = e
         /\ \A n \in Slots \ {i} : h.effects[n] = j.effects[n]
BY DEF Fitting, NetworkJournal

-----------------------------------------------------------------------------
(* Preservation, by what a step does to the host and the ledger.           *)

(* Nothing new on the host, the ledger as it was.                          *)
LEMMA OwnedQuiet ==
  ASSUME OwnedEffectsAreLedgered, UNCHANGED <<journal, bootId>>,
         \A k \in Exclusive : host'[k] = "exact" => host[k] = "exact"
  PROVE  OwnedEffectsAreLedgered'
BY DEF OwnedEffectsAreLedgered, PriorBoot, Claims, Entries, kindAt

(* Nothing new on the host, a ledger of the same boot that keeps the       *)
(* claims of what is there.                                                *)
LEMMA OwnedSaved ==
  ASSUME OwnedEffectsAreLedgered, UNCHANGED bootId,
         \A k \in Exclusive : host'[k] = "exact" => host[k] = "exact",
         journal'.boot = journal.boot,
         \A k \in Exclusive :
           host[k] = "exact" /\ Claims(journal, k) => Claims(journal', k)
  PROVE  OwnedEffectsAreLedgered'
BY DEF OwnedEffectsAreLedgered, PriorBoot

(* One more effect, which the ledger claims.                               *)
LEMMA OwnedCreated ==
  ASSUME Typed, OwnedEffectsAreLedgered, UNCHANGED <<journal, bootId>>,
         NEW i, NEW failed, Claimed(i), ~PriorBoot, RunCreation(Kind(i), failed)
  PROVE  OwnedEffectsAreLedgered'
<1>1. \A k \in Exclusive : host'[k] = "exact" => host[k] = "exact" \/ k = Kind(i)
  BY DEF RunCreation, Appear, Typed, HostTypeOK, Exclusive
<1>2. Claims(journal, Kind(i))
  BY ClaimedClaims
<1>3. \A k \in Exclusive : host'[k] = "exact" => Claims(journal, k) /\ ~PriorBoot
  BY <1>1, <1>2 DEF OwnedEffectsAreLedgered
<1> QED BY <1>3 DEF OwnedEffectsAreLedgered, PriorBoot, Claims, Entries, kindAt

(* Setting a phase that still claims, or retiring what is absent.          *)
LEMMA OwnedPhase ==
  ASSUME Typed, OwnedEffectsAreLedgered, UNCHANGED <<host, bootId>>,
         NEW i \in Slots, NEW p, journal' = WithPhase(journal, i, p),
         p \notin retiredPhases \/ Observed(i) # "exact" \/ Kind(i) = Forwarding
  PROVE  OwnedEffectsAreLedgered'
<1>1. /\ journal'.forwarding = journal.forwarding /\ journal'.boot = journal.boot
      /\ journal'.count = journal.count /\ journal'.effects[i].phase = p
      /\ \A n \in Slots \ {i} : journal'.effects[n] = journal.effects[n]
  BY PhaseChange DEF Typed
<1>2. Entries(journal) = Entries(journal') /\ Entries(journal) \subseteq Slots
  BY <1>1, PlanKinds DEF Entries, Typed
<1>3. ASSUME NEW k \in Exclusive, host[k] = "exact", Claims(journal, k)
      PROVE  Claims(journal', k)
  <2>1. \A n \in Entries(journal) :
          kindAt(journal, n) = k /\ journal.effects[n].phase \notin retiredPhases
            => journal'.effects[n].phase \notin retiredPhases
    BY <1>1, <1>2, <1>3 DEF Observed, Kind, Exclusive
  <2> QED BY <1>1, <1>2, <1>3, <2>1, ClaimKept
<1> QED BY <1>1, <1>3, OwnedSaved

(* Replacing an entry by one that claims.                                  *)
LEMMA OwnedEntry ==
  ASSUME Typed, OwnedEffectsAreLedgered, UNCHANGED <<host, bootId>>,
         NEW i \in Slots, NEW e, journal' = [journal EXCEPT !.effects[i] = e],
         e.phase \notin retiredPhases
  PROVE  OwnedEffectsAreLedgered'
<1>1. /\ journal'.forwarding = journal.forwarding /\ journal'.boot = journal.boot
      /\ journal'.count = journal.count /\ journal'.effects[i] = e
      /\ \A n \in Slots \ {i} : journal'.effects[n] = journal.effects[n]
  BY EntryChange DEF Typed
<1>2. Entries(journal) = Entries(journal') /\ Entries(journal) \subseteq Slots
  BY <1>1, PlanKinds DEF Entries, Typed
<1>3. ASSUME NEW k, Claims(journal, k) PROVE Claims(journal', k)
  <2>1. \A n \in Entries(journal) :
          journal.effects[n].phase \notin retiredPhases
            => journal'.effects[n].phase \notin retiredPhases
    BY <1>1, <1>2
  <2> QED BY <1>1, <1>2, <1>3, <2>1, ClaimKept
<1> QED BY <1>1, <1>3, OwnedSaved

(* With no exclusive effect left, any ledger will do.                      *)
LEMMA OwnedNothing ==
  ASSUME UNCHANGED host, \A k \in Exclusive : host[k] # "exact"
  PROVE  OwnedEffectsAreLedgered'
BY DEF OwnedEffectsAreLedgered

LEMMA WholePlanAbsent ==
  ASSUME Typed, exclusiveEffectsAbsent
  PROVE  \A k \in Exclusive : host[k] # "exact"
BY PlanKinds DEF Typed, exclusiveEffectsAbsent, Kind, Observed, Exclusive

LEMMA NoClaimsLeft ==
  ASSUME OwnedEffectsAreLedgered,
         \A i \in Entries(journal) : journal.effects[i].phase \in retiredPhases
  PROVE  \A k \in Exclusive : host[k] # "exact"
BY DEF OwnedEffectsAreLedgered, Claims

LEMMA OwnedReconciled ==
  ASSUME Typed, OwnedEffectsAreLedgered, UNCHANGED <<host, bootId>>,
         journal' = Reconciled
  PROVE  OwnedEffectsAreLedgered'
<1>1. /\ journal'.forwarding = journal.forwarding /\ journal'.boot = journal.boot
      /\ journal'.count = journal.count
      /\ \A i \in Slots : journal'.effects[i] = reconciledEntry(i)
  BY DEF Reconciled, Typed, Fitting, NetworkJournal
<1>2. Entries(journal) = Entries(journal') /\ Entries(journal) \subseteq Slots
  BY <1>1, PlanKinds DEF Entries, Typed
<1>3. \A i \in Entries(journal) :
        journal.effects[i].phase \notin retiredPhases
          => journal'.effects[i].phase \notin retiredPhases
  <2>1. \A i : reconciledEntry(i) = journal.effects[i]
               \/ reconciledEntry(i).phase = "applied"
    BY DEF reconciledEntry
  <2>2. "applied" \notin retiredPhases
    BY DEF retiredPhases
  <2> QED BY <1>1, <1>2, <2>1, <2>2
<1>4. ASSUME NEW k, Claims(journal, k) PROVE Claims(journal', k)
  BY <1>1, <1>2, <1>3, <1>4, ClaimKept
<1> QED BY <1>1, <1>4, OwnedSaved

LEMMA OwnedIntent ==
  ASSUME Typed, OwnedEffectsAreLedgered, UNCHANGED <<host, bootId>>,
         ~Complete(journal), journal' = WithIntent(journal)
  PROVE  /\ OwnedEffectsAreLedgered' /\ journal'.boot = journal.boot
         /\ Entries(journal') = 1..(journal.count + 1)
         /\ journal.count + 1 \in Entries(journal')
         /\ journal'.effects[journal.count + 1].phase = "intent"
<1>1. Fitting(journal')
  BY IntentFits DEF Typed
<1>2. /\ journal'.forwarding = journal.forwarding /\ journal'.boot = journal.boot
      /\ journal'.count = journal.count + 1
  BY DEF WithIntent, Typed, Fitting, NetworkJournal
<1>3. journal.count \in Nat /\ journal.count + 1 \in Slots
  <2>1. \A x \in Slots \cup {0} : x \in Nat
    BY SlotNumbers
  <2>2. journal.count \in Slots \cup {0} /\ journal'.count \in Slots \cup {0}
    BY <1>1 DEF Typed, Fitting, NetworkJournal
  <2> QED BY <1>2, <2>1, <2>2
<1>4. /\ journal'.effects[journal.count + 1].phase = "intent"
      /\ \A i \in Slots \ {journal.count + 1} : journal'.effects[i] = journal.effects[i]
  BY <1>3 DEF WithIntent, Typed, Fitting, NetworkJournal
<1>5. /\ Entries(journal) = 1..journal.count
      /\ Entries(journal') = 1..(journal.count + 1)
      /\ Entries(journal) \subseteq Entries(journal')
      /\ Entries(journal) \subseteq Slots \ {journal.count + 1}
      /\ journal.count + 1 \in Entries(journal')
  BY <1>2, <1>3, PlanKinds DEF Entries, Typed
<1>6. ASSUME NEW k, Claims(journal, k) PROVE Claims(journal', k)
  <2>1. \A i \in Entries(journal) :
          journal.effects[i].phase \notin retiredPhases
            => journal'.effects[i].phase \notin retiredPhases
    BY <1>4, <1>5
  <2> QED BY <1>2, <1>5, <1>6, <2>1, ClaimKept
<1>7. OwnedEffectsAreLedgered'
  BY <1>2, <1>6, OwnedSaved
<1> QED BY <1>2, <1>4, <1>5, <1>7

-----------------------------------------------------------------------------
(* The control part of the invariant.                                      *)

LEMMA IdleControl ==
  ASSUME pc' \in {"idle", "start", "pids", "stopEnter"} PROVE ControlInv'
BY DEF ControlInv

(* Labels that ask nothing but a current ledger.                           *)
LEMMA PlainControl ==
  ASSUME ~PriorBoot, UNCHANGED bootId, journal'.boot = journal.boot,
         pc' \in {"repaired", "resume", "advance", "initNs", "sweep"},
         pc' \in {"repaired", "resume"} => Exists /\ journal'.count = journal.count
  PROVE  ControlInv'
BY DEF ControlInv, PriorBoot, Exists

LEMMA FinishControl == ASSUME NEW r, Finish(r) PROVE ControlInv'
BY IdleControl DEF Finish

LEMMA NeedsCleanupControl == ASSUME NeedsCleanup PROVE ControlInv'
BY IdleControl, FinishControl DEF NeedsCleanup

(* The cleanup loop moves on to an entry or to the end.                    *)
LEMMA LoopControl ==
  ASSUME ~PriorBoot, UNCHANGED bootId, journal'.boot = journal.boot,
         journal'.count = journal.count, pc' = "stopLoop",
         idx' \in Entries(journal) \cup {0}
  PROVE  ControlInv'
BY DEF ControlInv, PriorBoot, Entries

LEMMA ClearedControl == ASSUME Cleared PROVE ControlInv'
BY IdleControl, FinishControl DEF Cleared

LEMMA EntriesStep ==
  ASSUME Typed
  PROVE  /\ journal.count \in Entries(journal) \cup {0}
         /\ \A i \in Entries(journal) : i - 1 \in Entries(journal) \cup {0}
         /\ \A i \in Entries(journal) \cup {0} : i > 0 => i \in Entries(journal)
         /\ Entries(journal) \subseteq Slots
<1>1. \A x \in Slots \cup {0} : x \in Nat
  BY SlotNumbers
<1>2. journal.count \in Nat
  BY <1>1 DEF Typed, Fitting, NetworkJournal
<1> QED BY <1>2, PlanKinds DEF Entries, Typed

(* The cleanup loop retires an entry and moves on.                         *)
LEMMA RetiredStep ==
  ASSUME Typed, OwnedEffectsAreLedgered, UNCHANGED <<host, bootId>>, ~PriorBoot,
         idx \in Entries(journal), NEW p, journal' = WithPhase(journal, idx, p),
         Observed(idx) = "absent" \/ Kind(idx) = Forwarding,
         pc' = "stopLoop", idx' = idx - 1
  PROVE  OwnedEffectsAreLedgered' /\ ControlInv'
<1>1. idx \in Slots
  BY EntriesStep
<1>2. journal'.boot = journal.boot /\ journal'.count = journal.count
  BY <1>1, PhaseChange DEF Typed
<1>3. OwnedEffectsAreLedgered'
  BY <1>1, OwnedPhase
<1> QED BY <1>2, <1>3, LoopControl, EntriesStep

-----------------------------------------------------------------------------
(* One step per action.                                                    *)

LEMMA InitLedger == Init => LedgerInv
<1> SUFFICES ASSUME Init PROVE LedgerInv
  OBVIOUS
<1>1. Typed
  BY InitTypeInv, TypeInvParts DEF Typed
<1>2. ControlInv
  BY DEF Init, ControlInv
<1>3. PICK forwarding \in BOOLEAN : InitFresh(forwarding) \/ InitLegacy(forwarding)
  BY DEF Init
<1>4. ConflictsAreTampered
  BY <1>3 DEF InitFresh, InitLegacy, ConflictsAreTampered
<1>5. OwnedEffectsAreLedgered
  <2>1. CASE \A k \in Exclusive : host[k] = "absent"
    BY <2>1 DEF OwnedEffectsAreLedgered
  <2>2. CASE \E k \in Exclusive : host[k] # "absent"
    <3>1. PICK n \in Ids, v \in Ids :
            journal = CompleteJournal(LegacyBoot, uplink, forwarding,
                                      [ns |-> n, veth |-> v])
      BY <1>3, <2>2 DEF InitFresh, InitLegacy, Exclusive
    <3>2. /\ journal.boot = LegacyBoot /\ journal.forwarding = forwarding
          /\ journal.count = planLength(forwarding)
          /\ \A i \in Slots :
               i <= planLength(forwarding) => journal.effects[i].phase = "applied"
      BY <3>1 DEF CompleteJournal
    <3>3. planLength(forwarding) \in Nat /\ 1..planLength(forwarding) \subseteq Slots
      BY PlanSlots
    <3>4. \A i \in 1..planLength(forwarding) : journal.effects[i].phase \notin retiredPhases
      BY <3>2, <3>3 DEF retiredPhases
    <3>5. \A k \in Exclusive : Claims(journal, k)
      BY <1>1, <3>2, <3>4, PlanKinds DEF Claims, Entries, Typed
    <3> QED BY <3>2, <3>5 DEF OwnedEffectsAreLedgered, PriorBoot
  <2> QED BY <2>1, <2>2 DEF Exclusive
<1> QED BY <1>2, <1>4, <1>5 DEF LedgerInv

LEMMA StartLedger ==
  ASSUME Inv,
         \/ BeginStart \/ StartFresh \/ StartRefuse \/ StartReconcile
         \/ StartRepair \/ StartNeedsCleanup
  PROVE  OwnedEffectsAreLedgered' /\ ControlInv'
<1> USE DEF Inv, LedgerInv
<1>1. CASE BeginStart \/ StartRefuse \/ StartNeedsCleanup
  <2>1. OwnedEffectsAreLedgered'
    BY <1>1, OwnedQuiet DEF BeginStart, StartRefuse, StartNeedsCleanup, hostVars
  <2>2. ControlInv'
    BY <1>1, IdleControl, FinishControl, NeedsCleanupControl
       DEF BeginStart, StartRefuse, StartNeedsCleanup
  <2> QED BY <2>1, <2>2
<1>2. CASE StartFresh
  <2>1. UNCHANGED <<host, bootId>>
    BY <1>2 DEF StartFresh, hostVars
  <2>2. CASE validateSnapshot
    <3>1. \A k \in Exclusive : host[k] # "exact"
      <4>1. CASE Exists
        BY <1>2, <4>1, WholePlanAbsent DEF StartFresh, Obsolete
      <4>2. CASE ~Exists
        <5>1. Entries(journal) = {}
          <6>1. journal.count \in Nat
            BY SlotNumbers DEF Typed, Fitting, NetworkJournal
          <6> QED BY <4>2, <6>1 DEF Exists, Entries
        <5> QED BY <5>1, NoClaimsLeft
      <4> QED BY <4>1, <4>2
    <3>2. OwnedEffectsAreLedgered'
      BY <2>1, <3>1, OwnedNothing
    <3>3. pc' = "run" /\ idx' = 1 /\ journal'.boot = bootId
          /\ journal'.count = 1 /\ journal'.effects[1].phase = "intent"
      BY <1>2, <2>2, SlotNumbers DEF StartFresh, Goto, FreshJournal, ZeroEffect
    <3>4. Claimed(idx)' /\ ~PriorBoot'
      BY <2>1, <3>3 DEF Claimed, Entries, PriorBoot, retiredPhases
    <3> QED BY <3>2, <3>3, <3>4 DEF ControlInv
  <2>3. CASE ~validateSnapshot
    BY <1>2, <2>1, <2>3, OwnedQuiet, FinishControl DEF StartFresh
  <2> QED BY <2>2, <2>3
<1>3. CASE StartReconcile
  <2>1. UNCHANGED <<host, bootId>> /\ journal' = Reconciled /\ pc' = "resume"
        /\ ~PriorBoot
    BY <1>3 DEF StartReconcile, hostVars, Goto, FromLedger
  <2>2. OwnedEffectsAreLedgered'
    BY <2>1, OwnedReconciled
  <2>3. journal'.boot = journal.boot /\ journal'.count = journal.count /\ Exists
    BY <1>3, <2>1 DEF StartReconcile, FromLedger, Reconciled, Typed, Fitting, NetworkJournal
  <2> QED BY <2>1, <2>2, <2>3, PlainControl
<1>4. CASE StartRepair
  <2>1. UNCHANGED <<host, bootId, journal>> /\ ~PriorBoot /\ pc' = "repair"
        /\ todo' = missingUplinkRoutes /\ AllApplied(journal) /\ Exists
    BY <1>4 DEF StartRepair, hostVars, Goto, FromLedger, Repairable
  <2>2. \A i \in todo' : Claimed(i)
    BY <2>1 DEF missingUplinkRoutes, AllApplied, Claimed, retiredPhases
  <2>3. \A i \in todo' : Claimed(i)'
    BY <2>1, <2>2 DEF Claimed, Entries
  <2>4. ControlInv'
    BY <2>1, <2>3 DEF ControlInv, PriorBoot, Exists
  <2> QED BY <2>1, <2>4, OwnedQuiet
<1> QED BY <1>1, <1>2, <1>3, <1>4

LEMMA ResumeLedger ==
  ASSUME Inv,
         \/ RepairRoute \/ RepairDone \/ ReconcileRepaired \/ StampLegacy
         \/ Resume \/ SaveIntent \/ PlanDone \/ Run \/ Confirm
         \/ InitializeNamespace
  PROVE  OwnedEffectsAreLedgered' /\ ControlInv'
<1> USE DEF Inv, LedgerInv
<1>a. ~PriorBoot
  BY DEF ControlInv, RepairRoute, RepairDone, ReconcileRepaired, StampLegacy,
         Resume, SaveIntent, PlanDone, Run, Confirm, InitializeNamespace
<1>1. CASE RepairRoute
  <2>1. UNCHANGED <<bootId, journal>> /\ Exists /\ \A n \in todo : Claimed(n)
    BY <1>1 DEF RepairRoute, ControlInv
  <2>2. PICK i \in todo :
          \/ RunCreation(Kind(i), FALSE) /\ todo' = todo \ {i} /\ Goto("repair")
          \/ RunCreation(Kind(i), TRUE) /\ Finish("failed")
    BY <1>1 DEF RepairRoute
  <2>3. OwnedEffectsAreLedgered'
    BY <1>a, <2>1, <2>2, OwnedCreated
  <2>4. CASE Goto("repair") /\ todo' = todo \ {i}
    <3>1. \A n \in todo' : Claimed(n)'
      BY <2>1, <2>4 DEF Claimed, Entries
    <3> QED BY <1>a, <2>1, <2>3, <2>4, <3>1 DEF ControlInv, Goto, PriorBoot, Exists
  <2> QED BY <2>2, <2>3, <2>4, FinishControl
<1>2. CASE RepairDone \/ PlanDone
  <2>1. /\ UNCHANGED <<host, bootId, journal>> /\ pc' \in {"repaired", "initNs"}
        /\ pc' = "repaired" => Exists
    BY <1>2 DEF RepairDone, PlanDone, Goto, hostVars, ControlInv
  <2> QED BY <1>a, <2>1, OwnedQuiet, PlainControl
<1>3. CASE ReconcileRepaired
  <2>1. UNCHANGED <<host, bootId>>
    BY <1>3 DEF ReconcileRepaired, hostVars
  <2>2. CASE UNCHANGED journal /\ (Finish("failed") \/ NeedsCleanup)
    BY <2>1, <2>2, OwnedQuiet, FinishControl, NeedsCleanupControl
  <2>3. CASE journal' = Reconciled /\ Goto("resume")
    <3>1. journal'.boot = journal.boot /\ journal'.count = journal.count /\ Exists
      BY <1>3, <2>3
         DEF ReconcileRepaired, ControlInv, Reconciled, Typed, Fitting, NetworkJournal
    <3> QED BY <1>a, <2>1, <2>3, <3>1, OwnedReconciled, PlainControl DEF Goto
  <2> QED BY <1>3, <2>2, <2>3 DEF ReconcileRepaired
<1>4. CASE StampLegacy
  <2>1. /\ UNCHANGED <<host, bootId>> /\ pc' = "resume"
        /\ journal'.boot = bootId /\ journal'.forwarding = journal.forwarding
        /\ journal'.count = journal.count /\ journal'.effects = journal.effects
    BY <1>4 DEF StampLegacy, Goto, hostVars, Typed, Fitting, NetworkJournal
  <2>2. \A k : Claims(journal, k) => Claims(journal', k)
    BY <2>1 DEF Claims, Entries, kindAt
  <2>3. Exists
    BY <1>4 DEF StampLegacy, ControlInv
  <2> QED BY <2>1, <2>2, <2>3 DEF OwnedEffectsAreLedgered, ControlInv, PriorBoot, Exists
<1>5. CASE Resume
  <2>1. UNCHANGED <<host, bootId, journal>> /\ Exists
    BY <1>5 DEF Resume, hostVars, ControlInv
  <2>2. CASE NeedsCleanup
    BY <2>1, <2>2, OwnedQuiet, NeedsCleanupControl
  <2>3. CASE Goto("initNs") \/ Goto("advance")
    BY <1>a, <2>1, <2>3, OwnedQuiet, PlainControl DEF Goto
  <2>4. CASE lastIsIntent /\ idx' = journal.count /\ Goto("run")
    <3>1. Claimed(journal.count)
      <4>1. journal.effects[journal.count].phase \notin retiredPhases
        BY <2>4 DEF lastIsIntent, retiredPhases
      <4>2. journal.count \in Entries(journal)
        BY <2>1, EntriesStep DEF Exists
      <4> QED BY <4>1, <4>2 DEF Claimed
    <3>2. Claimed(idx)'
      BY <2>1, <2>4, <3>1 DEF Claimed, Entries
    <3> QED BY <1>a, <2>1, <2>4, <3>2, OwnedQuiet DEF Goto, ControlInv, PriorBoot
  <2> QED BY <1>5, <2>2, <2>3, <2>4 DEF Resume
<1>6. CASE SaveIntent
  <2>1. /\ UNCHANGED <<host, bootId>> /\ ~Complete(journal) /\ pc' = "run"
        /\ journal' = WithIntent(journal) /\ idx' = journal.count + 1
    BY <1>6 DEF SaveIntent, hostVars, Goto
  <2>2. /\ OwnedEffectsAreLedgered' /\ journal'.boot = journal.boot
        /\ journal.count + 1 \in Entries(journal')
        /\ journal'.effects[journal.count + 1].phase = "intent"
    BY <2>1, OwnedIntent
  <2>3. Claimed(idx)'
    BY <2>1, <2>2 DEF Claimed, retiredPhases
  <2> QED BY <1>a, <2>1, <2>2, <2>3 DEF ControlInv, PriorBoot
<1>7. CASE Run
  <2>1. /\ Claimed(idx) /\ RunCreation(Kind(idx), runErr')
        /\ UNCHANGED <<bootId, journal, idx>> /\ pc' = "confirm"
    BY <1>7 DEF Run, ControlInv
  <2>2. OwnedEffectsAreLedgered'
    BY <1>a, <2>1, OwnedCreated
  <2>3. Claimed(idx)'
    BY <2>1 DEF Claimed, Entries
  <2> QED BY <1>a, <2>1, <2>2, <2>3 DEF ControlInv, PriorBoot
<1>8. CASE Confirm
  <2>1. Claimed(idx) /\ UNCHANGED <<host, bootId>> /\ idx \in Slots
    BY <1>8, EntriesStep DEF Confirm, ControlInv, hostVars, Claimed
  <2>2. CASE journal' = [journal EXCEPT !.effects[idx] =
               [phase |-> "applied", id |-> identityFor(Kind(idx), ident)]]
    <3> DEFINE e == [phase |-> "applied", id |-> identityFor(Kind(idx), ident)]
    <3>0. e.phase \notin retiredPhases
      BY DEF retiredPhases
    <3>1. OwnedEffectsAreLedgered'
      BY <2>1, <2>2, <3>0, OwnedEntry
    <3>2. journal'.boot = journal.boot /\ journal'.count = journal.count
      BY <2>1, <2>2, EntryChange DEF Typed
    <3>3. CASE Rollback
      BY <1>a, <2>1, <3>1, <3>2, <3>3, EntriesStep, LoopControl DEF Rollback
    <3>4. CASE Goto("advance")
      BY <1>a, <2>1, <3>1, <3>2, <3>4, PlainControl DEF Goto
    <3>5. CASE Finish("failed")
      BY <3>1, <3>5, FinishControl
    <3> QED BY <1>8, <3>3, <3>4, <3>5 DEF Confirm
  <2>3. CASE UNCHANGED journal
    <3>1. OwnedEffectsAreLedgered'
      BY <2>1, <2>3, OwnedQuiet
    <3>2. CASE Rollback
      BY <1>a, <2>1, <2>3, <3>1, <3>2, EntriesStep, LoopControl DEF Rollback
    <3>3. CASE Goto("advance")
      BY <1>a, <2>1, <2>3, <3>1, <3>3, PlainControl DEF Goto
    <3>4. CASE Finish("failed")
      BY <3>1, <3>4, FinishControl
    <3> QED BY <1>8, <3>2, <3>3, <3>4 DEF Confirm
  <2> QED BY <1>8, <2>2, <2>3 DEF Confirm
<1>9. CASE InitializeNamespace
  <2>1. UNCHANGED <<host, bootId, journal>> /\ pc' \in {"idle", "stopEnter"}
    BY <1>9 DEF InitializeNamespace, hostVars, Finish
  <2> QED BY <2>1, OwnedQuiet, IdleControl
<1> QED BY <1>1, <1>2, <1>3, <1>4, <1>5, <1>6, <1>7, <1>8, <1>9

LEMMA StopLedger ==
  ASSUME Inv,
         \/ BeginStop \/ ProveNoProcesses \/ StopPriorBoot \/ StopRefuse
         \/ StopPreflight \/ StopSkip \/ StopAbsent \/ StopUnsafe
         \/ StopRecordIdentity \/ StopMarkRemoving \/ StopRelinquish
         \/ RemoveSucceeds \/ RemoveFails \/ StopRemoved \/ StopSweep
         \/ Sweep \/ StopClear \/ Crash
  PROVE  OwnedEffectsAreLedgered' /\ ControlInv'
<1> USE DEF Inv, LedgerInv
<1>1. CASE BeginStop \/ ProveNoProcesses \/ StopRefuse \/ StopUnsafe \/ Crash
  <2>1. UNCHANGED <<host, bootId, journal>>
    BY <1>1 DEF BeginStop, ProveNoProcesses, StopRefuse, StopUnsafe, Crash, hostVars
  <2>2. ControlInv'
    BY <1>1, IdleControl, FinishControl
       DEF BeginStop, ProveNoProcesses, StopRefuse, StopUnsafe, Crash, Goto
  <2> QED BY <2>1, <2>2, OwnedQuiet
<1>2. CASE StopPriorBoot
  <2>1. UNCHANGED <<host, bootId>>
    BY <1>2 DEF StopPriorBoot, hostVars
  <2>2. CASE exclusiveEffectsAbsent
    <3>1. OwnedEffectsAreLedgered'
      BY <2>1, <2>2, OwnedNothing, WholePlanAbsent
    <3>2. ControlInv'
      BY <1>2, <2>2, ClearedControl DEF StopPriorBoot
    <3> QED BY <3>1, <3>2
  <2>3. CASE ~exclusiveEffectsAbsent
    BY <1>2, <2>1, <2>3, OwnedQuiet, FinishControl DEF StopPriorBoot
  <2> QED BY <2>2, <2>3
<1>3. CASE StopPreflight
  <2>1. /\ UNCHANGED <<host, bootId, journal>> /\ ~PriorBoot
        /\ pc' = "stopLoop" /\ idx' = journal.count
    BY <1>3 DEF StopPreflight, hostVars, Goto
  <2> QED BY <2>1, OwnedQuiet, LoopControl, EntriesStep
<1>4. CASE StopSkip
  <2>1. /\ UNCHANGED <<host, bootId, journal>> /\ ~PriorBoot
        /\ pc' = "stopLoop" /\ idx' = idx - 1 /\ idx \in Entries(journal)
    BY <1>4, EntriesStep DEF StopSkip, AtEntry, hostVars, Goto, ControlInv
  <2> QED BY <2>1, OwnedQuiet, LoopControl, EntriesStep
<1>5. CASE StopAbsent
  <2>1. /\ UNCHANGED <<host, bootId>> /\ ~PriorBoot /\ Observed(idx) = "absent"
        /\ journal' = WithPhase(journal, idx, "removed") /\ idx \in Entries(journal)
        /\ pc' = "stopLoop" /\ idx' = idx - 1
    BY <1>5, EntriesStep DEF StopAbsent, AtEntry, hostVars, Goto, ControlInv
  <2> QED BY <2>1, RetiredStep
<1>6. CASE StopRecordIdentity
  <2> DEFINE e == [phase |-> "applied", id |-> identityFor(Kind(idx), ident)]
  <2>1. /\ UNCHANGED <<host, bootId>> /\ ~PriorBoot /\ idx \in Entries(journal)
        /\ journal' = [journal EXCEPT !.effects[idx] = e]
        /\ pc' = "stopLoop" /\ idx' = idx
    BY <1>6, EntriesStep DEF StopRecordIdentity, AtEntry, hostVars, Goto, ControlInv
  <2>2. e.phase \notin retiredPhases /\ idx \in Slots
    BY <2>1, EntriesStep DEF retiredPhases
  <2>3. journal'.boot = journal.boot /\ journal'.count = journal.count
    BY <2>1, <2>2, EntryChange DEF Typed
  <2> QED BY <2>1, <2>2, <2>3, OwnedEntry, LoopControl
<1>7. CASE StopMarkRemoving
  <2>1. /\ UNCHANGED <<host, bootId>> /\ ~PriorBoot /\ idx \in Entries(journal)
        /\ journal' = WithPhase(journal, idx, "removing")
    BY <1>7, EntriesStep DEF StopMarkRemoving, AtEntry, hostVars, ControlInv
  <2>2. idx \in Slots /\ "removing" \notin retiredPhases
    BY <2>1, EntriesStep DEF retiredPhases
  <2>3. /\ journal'.boot = journal.boot /\ journal'.count = journal.count
        /\ journal'.forwarding = journal.forwarding
        /\ journal'.effects[idx].phase = "removing"
    BY <2>1, <2>2, PhaseChange DEF Typed
  <2>4. OwnedEffectsAreLedgered'
    BY <2>1, <2>2, OwnedPhase
  <2>5. ~PriorBoot' /\ (Claimed(idx)' \/ idx' # idx)
    BY <2>1, <2>2, <2>3 DEF PriorBoot, Claimed, Entries
  <2>6. CASE Kind(idx) \notin noReverse
    BY <1>7, <2>1, <2>3, <2>5, <2>4, <2>6
       DEF StopMarkRemoving, Goto, ControlInv, PriorBoot, Claimed, Entries, Kind, kindAt
  <2>7. CASE Kind(idx) \in noReverse /\ Kind(idx) = Forwarding
    BY <1>7, <2>1, <2>3, <2>4, <2>7
       DEF StopMarkRemoving, Goto, ControlInv, PriorBoot, Entries, Kind, kindAt
  <2>8. CASE Kind(idx) \in noReverse /\ Kind(idx) # Forwarding
    <3>1. pc' = "stopLoop" /\ idx' = idx - 1
      BY <1>7, <2>8 DEF StopMarkRemoving, Goto
    <3> QED BY <2>1, <2>3, <2>4, <3>1, LoopControl, EntriesStep
  <2> QED BY <2>6, <2>7, <2>8
<1>8. CASE StopRelinquish
  <2>1. /\ UNCHANGED <<host, bootId>> /\ ~PriorBoot /\ Kind(idx) = Forwarding
        /\ journal' = WithPhase(journal, idx, "relinquished")
        /\ idx \in Entries(journal)
        /\ pc' = "stopLoop" /\ idx' = idx - 1
    <3>1. idx \in Slots /\ idx \in Entries(journal) \cup {0}
      BY <1>8 DEF StopRelinquish, ControlInv, Typed, ProcessTypeOK, RemovalHasIndex, AtEffect
    <3>2. idx \in Entries(journal)
      BY <3>1, SlotNumbers
    <3> QED BY <1>8, <3>2 DEF StopRelinquish, hostVars, Goto, ControlInv
  <2> QED BY <2>1, RetiredStep
<1>9. CASE RemoveSucceeds \/ RemoveFails
  <2>1. /\ UNCHANGED <<bootId, journal, idx>> /\ ~PriorBoot /\ Claimed(idx)
        /\ pc' = "removed"
    BY <1>9 DEF RemoveSucceeds, RemoveFails, ControlInv, hostVars, Goto
  <2>2. \A k \in Exclusive : host'[k] = "exact" => host[k] = "exact"
    BY <1>9 DEF RemoveSucceeds, RemoveFails, Vanish, hostVars, Exclusive
  <2>3. OwnedEffectsAreLedgered'
    BY <2>1, <2>2, OwnedQuiet
  <2>4. ControlInv'
    BY <2>1 DEF ControlInv, PriorBoot, Claimed, Entries
  <2> QED BY <2>3, <2>4
<1>10. CASE StopRemoved
  <2>1. UNCHANGED <<host, bootId>> /\ ~PriorBoot
    BY <1>10 DEF StopRemoved, hostVars, ControlInv
  <2>2. CASE Observed(idx) = "absent"
    <3>1. idx \in Slots /\ idx \in Entries(journal) \cup {0}
      BY <1>10 DEF StopRemoved, ControlInv, Typed, ProcessTypeOK, RemovalHasIndex, AtEffect
    <3>2. idx \in Entries(journal)
      BY <3>1, SlotNumbers
    <3>3. journal' = WithPhase(journal, idx, "removed") /\ pc' = "stopLoop"
          /\ idx' = idx - 1
      BY <1>10, <2>2 DEF StopRemoved, Goto
    <3> QED BY <2>1, <2>2, <3>2, <3>3, RetiredStep
  <2>3. CASE Observed(idx) # "absent"
    BY <1>10, <2>1, <2>3, OwnedQuiet, FinishControl DEF StopRemoved
  <2> QED BY <2>2, <2>3
<1>11. CASE StopSweep
  <2>1. UNCHANGED <<host, bootId, journal>> /\ ~PriorBoot /\ pc' = "sweep"
    BY <1>11 DEF StopSweep, hostVars, Goto, ControlInv
  <2> QED BY <2>1, OwnedQuiet, PlainControl
<1>12. CASE Sweep
  <2>1. UNCHANGED <<host, bootId>> /\ ~PriorBoot
    BY <1>12 DEF Sweep, hostVars, ControlInv
  <2>2. PICK i \in Entries(journal) :
          \/ /\ Observed(i) = "absent" /\ pc' = "sweep"
             /\ journal' = WithPhase(journal, i, "removed")
          \/ Finish("failed") /\ UNCHANGED journal
    BY <1>12 DEF Sweep, Goto
  <2>3. i \in Slots
    BY EntriesStep
  <2>4. CASE Finish("failed") /\ UNCHANGED journal
    BY <2>1, <2>4, OwnedQuiet, FinishControl
  <2>5. CASE /\ Observed(i) = "absent" /\ pc' = "sweep"
             /\ journal' = WithPhase(journal, i, "removed")
    <3>1. journal'.boot = journal.boot /\ journal'.count = journal.count
      BY <2>3, <2>5, PhaseChange DEF Typed
    <3>2. OwnedEffectsAreLedgered'
      BY <2>1, <2>3, <2>5, OwnedPhase
    <3> QED BY <2>1, <2>5, <3>1, <3>2, PlainControl
  <2> QED BY <2>2, <2>4, <2>5
<1>13. CASE StopClear
  <2>1. UNCHANGED <<host, bootId>> /\ Cleared
    BY <1>13 DEF StopClear, hostVars
  <2>2. \A i \in Entries(journal) : journal.effects[i].phase \in retiredPhases
    BY <1>13 DEF StopClear, swept, retiredPhases
  <2> QED BY <2>1, <2>2, NoClaimsLeft, OwnedNothing, ClearedControl
<1> QED BY <1>1, <1>2, <1>3, <1>4, <1>5, <1>6, <1>7, <1>8, <1>9, <1>10, <1>11,
           <1>12, <1>13

LEMMA EnvironmentLedger ==
  ASSUME Inv, Environment
  PROVE  OwnedEffectsAreLedgered' /\ ControlInv'
<1> USE DEF Inv, LedgerInv
<1>1. CASE Reboot
  <2>1. \A k \in Exclusive : host'[k] # "exact"
    BY <1>1 DEF Reboot, Exclusive
  <2>2. ControlInv'
    BY <1>1, IdleControl, FinishControl DEF Reboot, processVars
  <2> QED BY <2>1, <2>2 DEF OwnedEffectsAreLedgered
<1>2. CASE \/ LinkFlap \/ UplinkChange \/ SetForwarding \/ Tamper \/ Replace
           \/ HolderEnter \/ HolderLeave \/ Retire
  <2>1. UNCHANGED <<journal, bootId, pc, idx, todo>>
    BY <1>2 DEF LinkFlap, UplinkChange, SetForwarding, Tamper, Replace,
                HolderEnter, HolderLeave, Retire, processVars
  <2>2. \A k \in Exclusive : host'[k] = "exact" => host[k] = "exact"
    BY <1>2 DEF LinkFlap, UplinkChange, SetForwarding, Tamper, Replace, HolderEnter,
                HolderLeave, Retire, Vanish, Exclusive, Typed, HostTypeOK
  <2>3. ControlInv'
    BY <2>1 DEF ControlInv, PriorBoot, Exists, Claimed, Entries, Kind, kindAt
  <2> QED BY <2>1, <2>2, <2>3, OwnedQuiet
<1> QED BY <1>1, <1>2 DEF Environment

LEMMA ConflictsStep ==
  ASSUME Inv, [Next]_vars PROVE ConflictsAreTampered'
<1> USE DEF Inv, LedgerInv
<1>1. SUFFICES ASSUME NEW k \in EffectKind, k \notin Tamperable,
                      host[k] # "conflict"
               PROVE  host'[k] # "conflict"
  BY DEF ConflictsAreTampered
<1>2. CASE UNCHANGED host
  BY <1>1, <1>2
<1>3. ASSUME NEW n, NEW failed, RunCreation(n, failed) PROVE host'[k] # "conflict"
  BY <1>1, <1>3 DEF RunCreation, Appear, Typed, HostTypeOK
<1>4. CASE RepairRoute \/ Run
  BY <1>3, <1>4 DEF RepairRoute, Run
<1>5. CASE RemoveSucceeds \/ LinkFlap
  BY <1>1, <1>5 DEF RemoveSucceeds, LinkFlap, Vanish
<1>6. CASE Reboot \/ SetForwarding \/ Tamper \/ Replace
  BY <1>1, <1>6 DEF Reboot, SetForwarding, Tamper, Replace, Typed, HostTypeOK
<1>7. CASE \/ BeginStart \/ StartFresh \/ StartRefuse \/ StartReconcile
           \/ StartRepair \/ StartNeedsCleanup \/ RepairDone
           \/ ReconcileRepaired \/ StampLegacy \/ Resume \/ SaveIntent
           \/ PlanDone \/ Confirm \/ InitializeNamespace
  BY <1>2, <1>7 DEF BeginStart, StartFresh, StartRefuse, StartReconcile,
     StartRepair, StartNeedsCleanup, RepairDone, ReconcileRepaired,
     StampLegacy, Resume, SaveIntent, PlanDone, Confirm, InitializeNamespace,
     hostVars
<1>8. CASE \/ BeginStop \/ ProveNoProcesses \/ StopPriorBoot \/ StopRefuse
           \/ StopPreflight \/ StopSkip \/ StopAbsent \/ StopUnsafe
           \/ StopRecordIdentity \/ StopMarkRemoving \/ StopRelinquish
           \/ RemoveFails \/ StopRemoved \/ StopSweep \/ Sweep \/ StopClear
           \/ Crash
  BY <1>2, <1>8 DEF BeginStop, ProveNoProcesses, StopPriorBoot, StopRefuse,
     StopPreflight, StopSkip, StopAbsent, StopUnsafe, StopRecordIdentity,
     StopMarkRemoving, StopRelinquish, RemoveFails, StopRemoved, StopSweep,
     Sweep, StopClear, Crash, hostVars
<1>9. CASE UplinkChange \/ HolderEnter \/ HolderLeave \/ Retire
  BY <1>2, <1>9 DEF UplinkChange, HolderEnter, HolderLeave, Retire
<1>10. CASE UNCHANGED vars
  BY <1>2, <1>10 DEF vars, hostVars
<1> QED BY <1>4, <1>5, <1>6, <1>7, <1>8, <1>9, <1>10
        DEF Next, Controller, Environment

LEMMA NextLedger == Inv /\ [Next]_vars => LedgerInv'
<1> SUFFICES ASSUME Inv, [Next]_vars PROVE LedgerInv'
  OBVIOUS
<1>1. ConflictsAreTampered'
  BY ConflictsStep
<1>2. OwnedEffectsAreLedgered' /\ ControlInv'
  <2>1. CASE UNCHANGED vars
    BY <2>1 DEF vars, hostVars, processVars, Inv, LedgerInv, OwnedEffectsAreLedgered,
       ControlInv, PriorBoot, Claims, Claimed, Entries, Exists, Kind, kindAt
  <2>2. CASE Next
    BY <2>2, StartLedger, ResumeLedger, StopLedger, EnvironmentLedger
       DEF Next, Controller
  <2> QED BY <2>1, <2>2
<1> QED BY <1>1, <1>2 DEF LedgerInv

-----------------------------------------------------------------------------
(* The invariant of the runs: wherever the service is, every exclusive     *)
(* effect on the host is claimed by the durable ledger, conflicts are      *)
(* others' doing, and the entry the service works on is its own            *)
(* (transaction_linux.go: Save of the intent before Run, of "removed"      *)
(* after inspection, Clear after the final one).                           *)
THEOREM LedgerCorrect == Spec => []LedgerInv
<1>1. Init => Inv
  BY InitTypeInv, InitLedger, TypeInvParts DEF Inv, Typed
<1>2. Inv /\ [Next]_vars => Inv'
  BY NextType, NextLedger DEF Inv
<1>3. Inv => LedgerInv
  BY DEF Inv
<1> QED BY <1>1, <1>2, <1>3, PTL DEF Spec

(* No effect of this service is ever left on the host without a record     *)
(* from which Stop can find it, whatever crashes, reboots and other        *)
(* administrators do in between.                                           *)
THEOREM LedgerCoversHost == Spec => []OwnedEffectsAreLedgered
<1>1. LedgerInv => OwnedEffectsAreLedgered
  BY DEF LedgerInv
<1> QED BY <1>1, LedgerCorrect, PTL

-----------------------------------------------------------------------------
(* What goes away with an effect is the controller's, and exact.           *)
LEMMA GoneShape ==
  ASSUME NEW kind
  PROVE  GoneWith(kind) \subseteq {kind, "Veth"} \cup namespaceScoped \cup vethScoped
BY DEF GoneWith, vethScoped

LEMMA MutationLedgered ==
  ASSUME Inv, Controller, NEW k \in EffectKind, host'[k] # host[k]
  PROVE  Claims(journal, k) /\ ~PriorBoot
<1> USE DEF Inv, LedgerInv
<1>1. CASE RepairRoute \/ Run
  <2>1. ASSUME NEW i, Claimed(i), NEW failed, RunCreation(Kind(i), failed)
        PROVE  Claims(journal, k)
    <3>1. k = Kind(i)
      BY <2>1 DEF RunCreation, Appear, Typed, HostTypeOK
    <3> QED BY <2>1, <3>1, ClaimedClaims
  <2>2. CASE RepairRoute
    BY <2>1, <2>2 DEF RepairRoute, ControlInv
  <2>3. CASE Run
    BY <2>1, <2>3 DEF Run, ControlInv
  <2> QED BY <1>1, <2>2, <2>3
<1>2. CASE RemoveSucceeds
  <2>1. Claimed(idx) /\ ~PriorBoot
    BY <1>2 DEF RemoveSucceeds, ControlInv
  <2>2. k \in GoneWith(Kind(idx)) /\ host[k] # "absent"
    BY <1>2 DEF RemoveSucceeds, Vanish, Typed, HostTypeOK
  <2>3. CASE k = Kind(idx)
    BY <2>1, <2>3, ClaimedClaims
  <2>4. CASE k \in {"Veth"} \cup namespaceScoped \cup vethScoped
    <3>1. host[k] # "conflict"
      BY <2>4, TamperShape, HazardShape DEF ConflictsAreTampered, identityKinds
    <3>2. host[k] = "exact"
      BY <2>2, <3>1 DEF Typed, HostTypeOK, ObservationState
    <3>3. k # Forwarding
      BY <2>4 DEF namespaceScoped, vethScoped, Forwarding
    <3> QED BY <3>2, <3>3 DEF OwnedEffectsAreLedgered, Exclusive
  <2> QED BY <2>1, <2>2, <2>3, <2>4, GoneShape
<1>3. CASE \/ StartFresh \/ StartRefuse \/ StartReconcile
           \/ StartRepair \/ StartNeedsCleanup \/ RepairDone
           \/ ReconcileRepaired \/ StampLegacy \/ Resume \/ SaveIntent
           \/ PlanDone \/ Confirm \/ InitializeNamespace
  BY <1>3 DEF StartFresh, StartRefuse, StartReconcile,
     StartRepair, StartNeedsCleanup, RepairDone, ReconcileRepaired,
     StampLegacy, Resume, SaveIntent, PlanDone, Confirm, InitializeNamespace,
     hostVars
<1>4. CASE \/ ProveNoProcesses \/ StopPriorBoot \/ StopRefuse
           \/ StopPreflight \/ StopSkip \/ StopAbsent \/ StopUnsafe
           \/ StopRecordIdentity \/ StopMarkRemoving \/ StopRelinquish
           \/ RemoveFails \/ StopRemoved \/ StopSweep \/ Sweep \/ StopClear
  BY <1>4 DEF ProveNoProcesses, StopPriorBoot, StopRefuse,
     StopPreflight, StopSkip, StopAbsent, StopUnsafe, StopRecordIdentity,
     StopMarkRemoving, StopRelinquish, RemoveFails, StopRemoved, StopSweep,
     Sweep, StopClear, hostVars
<1> QED BY <1>1, <1>2, <1>3, <1>4 DEF Controller

(* The controller creates and removes only what its current ledger claims: *)
(* neither a command of Start nor one of Stop, nor what the kernel removes *)
(* along with its target, touches an effect that has no live entry, or any *)
(* effect under the ledger of an earlier boot.                             *)
THEOREM MutationsLedgered == Spec => MutationsAreLedgered
<1>1. Init => Inv
  BY InitTypeInv, InitLedger, TypeInvParts DEF Inv, Typed
<1>2. Inv /\ [Next]_vars => Inv'
  BY NextType, NextLedger DEF Inv
<1>3. Inv /\ [Next]_vars =>
        [Controller => \A k \in EffectKind :
           host'[k] # host[k] => Claims(journal, k) /\ ~PriorBoot]_vars
  BY MutationLedgered
<1> QED BY <1>1, <1>2, <1>3, PTL DEF Spec, MutationsAreLedgered

-----------------------------------------------------------------------------
(* What the service may rely on while it starts and while it stops.        *)

(* A resource that is there has an identity, and the moved pair has both.  *)
Identified ==
  /\ host["Namespace"] = "exact" => ident.ns # NoId
  /\ host["Veth"] = "exact" => ident.veth # NoId
  /\ host["GuestMoved"] = "exact" => host["Namespace"] = "exact" /\ host["Veth"] = "exact"

(* Nobody but the service changes an effect of this kind.                  *)
Steady(k) ==
  k \notin Flappable \cup {Forwarding} /\ ("tamper" \in Hazards => k \notin Tamperable)

Sound(e, kind) ==
  /\ e.phase # "none" /\ identityValidFor(kind, e.id)
  /\ (e.phase \in {"applied", "removing"} /\ kind \in identityKinds) => ~identityEmpty(e.id)
EntriesSound ==
  /\ Exists
  /\ \A i \in Entries(journal) : Sound(journal.effects[i], Kind(i))
  /\ \A i \in Slots \ Entries(journal) : journal.effects[i] = ZeroEffect

(* Applied entries are of what stands on the host, as it stands.           *)
Standing ==
  \A i \in Entries(journal) :
    journal.effects[i].phase = "applied" /\ Steady(Kind(i))
      => Observed(i) = "exact" /\ journal.effects[i].id = identityFor(Kind(i), ident)

OnlyLastOpen ==
  /\ idx = journal.count /\ journal.effects[idx].phase = "intent"
  /\ \A i \in Entries(journal) \ {idx} : journal.effects[i].phase = "applied"

Starting == {"resume", "advance", "run", "confirm", "initNs"}
StartInv ==
  /\ pc \in {"repair", "repaired"} => validateJournal(journal)
  /\ pc = "repair" => \A i \in todo : Kind(i) \in uplinkRoutes
  /\ pc \in Starting => EntriesSound /\ Standing
  /\ pc \in {"run", "confirm"} => OnlyLastOpen
  /\ pc \in {"advance", "initNs"} => AllApplied(journal)
  /\ pc = "initNs" => Complete(journal)

(* What preflight found holds until the end of the loop, and the pair is   *)
(* gone before the namespace is removed.                                   *)
Cleaning == {"stopLoop", "relinquish", "remove", "removed"}
Asked == purpose \in {"stop", "recover"}
Unheld == ~holders \/ host["Namespace"] = "absent"
Frozen ==
  \A i \in Entries(journal) :
    /\ Kind(i) # Forwarding => Observed(i) # "conflict"
    /\ Observed(i) = "exact" \/ Kind(i) = Forwarding => identityMatches(i)
PairGone ==
  2 \in Entries(journal) /\ (journal.effects[2].phase \in retiredPhases \/ idx < 2)
    => host["Veth"] = "absent"
Removing ==
  /\ (Kind(idx) \in {"Namespace", "Veth"} /\ Observed(idx) = "exact")
       => journal.effects[idx].id = identityFor(Kind(idx), ident)
  /\ Kind(idx) = "UnreachableRule" => \A k \in guestPaths \cap EffectKind : host[k] # "exact"

StopInv ==
  /\ (pc \in Cleaning \cup {"stopEnter"} /\ Asked) => Unheld
  /\ (pc \in Cleaning /\ Asked) => Frozen
  /\ pc \in Cleaning => PairGone
  /\ pc = "remove" => Removing

-----------------------------------------------------------------------------
(* Where the first effects of the plan are.                                *)

Begins == <<"Namespace", "Veth", "GuestMoved", "UnreachableRule">>

LEMMA Lengthened ==
  ASSUME NEW S, NEW s \in Seq(S), NEW e \in S
  PROVE  /\ s \o <<e>> \in Seq(S) /\ Len(s \o <<e>>) = Len(s) + 1
         /\ \A n \in 1..Len(s) : (s \o <<e>>)[n] = s[n]
<1>1. <<e>> \in Seq(S) /\ Len(<<e>>) = 1
  OBVIOUS
<1> QED BY <1>1

LEMMA PlanPrefix ==
  ASSUME NEW f \in BOOLEAN
  PROVE  /\ planLength(f) \in Nat /\ planLength(f) >= 4
         /\ \A n \in 1..4 : effectKinds[f][n] = Begins[n]
<1> DEFINE B == BeforeForwarding
           A == AfterForwarding
<1>1. B \in Seq(EffectKind) /\ A \in Seq(EffectKind) /\ Len(B) >= 4
  BY PlanBegins
<1>2. Len(B) \in Nat /\ Len(A) \in Nat /\ \A n \in 1..4 : B[n] = Begins[n]
  BY <1>1, PlanBegins DEF Begins
<1>3. CASE f
  <2>1. effectKinds[f] = B \o A
    BY <1>3 DEF effectKinds
  <2>2. Len(B \o A) = Len(B) + Len(A) /\ \A n \in 1..4 : (B \o A)[n] = B[n]
    BY <1>1, <1>2
  <2> QED BY <1>1, <1>2, <2>1, <2>2 DEF planLength
<1>4. CASE ~f
  <2>1. effectKinds[f] = (B \o <<Forwarding>>) \o A
    BY <1>4 DEF effectKinds
  <2>2. /\ B \o <<Forwarding>> \in Seq(EffectKind)
        /\ Len(B \o <<Forwarding>>) = Len(B) + 1
        /\ \A n \in 1..4 : (B \o <<Forwarding>>)[n] = B[n]
    <3>1. Forwarding \in EffectKind
      BY PlanShape DEF PlanAssumption
    <3>2. /\ B \o <<Forwarding>> \in Seq(EffectKind)
          /\ Len(B \o <<Forwarding>>) = Len(B) + 1
          /\ \A n \in 1..Len(B) : (B \o <<Forwarding>>)[n] = B[n]
      BY <1>1, <3>1, Lengthened
    <3>3. \A n \in 1..4 : n \in 1..Len(B)
      BY <1>1, <1>2
    <3> QED BY <3>2, <3>3
  <2>3. /\ Len((B \o <<Forwarding>>) \o A) = Len(B) + 1 + Len(A)
        /\ \A n \in 1..4 : ((B \o <<Forwarding>>) \o A)[n] = B[n]
    BY <1>1, <1>2, <2>2
  <2> QED BY <1>1, <1>2, <2>1, <2>3 DEF planLength
<1> QED BY <1>3, <1>4

(* Each kind is at one place of the plan, the first four at theirs.        *)
LEMMA KindPlaces ==
  ASSUME NEW j, Fitting(j)
  PROVE  /\ \A i, n \in Entries(j) : kindAt(j, i) = kindAt(j, n) => i = n
         /\ \A n \in 1..4 : n \in 1..planLength(j.forwarding) /\ kindAt(j, n) = Begins[n]
         /\ \A i \in Entries(j), n \in 1..4 : kindAt(j, i) = Begins[n] => i = n
         /\ \A i \in Entries(j), n \in 1..4 : i >= n => n \in Entries(j)
<1>1. j.forwarding \in BOOLEAN
  BY DEF Fitting, NetworkJournal
<1>2. \A i, n \in 1..planLength(j.forwarding) : kindAt(j, i) = kindAt(j, n) => i = n
  BY <1>1, PlanShape DEF PlanAssumption, kindAt
<1>3. \A n \in 1..4 : n \in 1..planLength(j.forwarding) /\ kindAt(j, n) = Begins[n]
  BY <1>1, PlanPrefix DEF kindAt
<1>4. Entries(j) \subseteq 1..planLength(j.forwarding)
  BY PlanKinds
<1>5. \A i \in Entries(j), n \in 1..4 : i >= n => n \in Entries(j)
  <2>1. \A x \in Slots \cup {0} : x \in Nat
    BY SlotNumbers
  <2>2. j.count \in Nat
    BY <2>1 DEF Fitting, NetworkJournal
  <2> QED BY <2>2 DEF Entries
<1> QED BY <1>2, <1>3, <1>4, <1>5

-----------------------------------------------------------------------------
(* Identities.                                                             *)

LEMMA IdentityKinds ==
  /\ identityKinds \subseteq EffectKind
  /\ {"Namespace", "Veth", "GuestMoved", "UnreachableRule"} \subseteq Exclusive
  /\ \A k \in identityKinds : k \notin Flappable \cup Tamperable /\ Steady(k)
<1>1. {"Namespace", "Veth", "GuestMoved", "UnreachableRule"} \subseteq EffectKind
  BY PlanShape DEF PlanAssumption
<1>2. {"Namespace", "Veth", "GuestMoved", "UnreachableRule"} \subseteq Exclusive
  BY <1>1 DEF Exclusive, Forwarding
<1>3. \A k \in identityKinds : k \notin Flappable \cup Tamperable
  BY HazardShape
<1> QED BY <1>1, <1>2, <1>3 DEF identityKinds, Steady, Forwarding

LEMMA SoundIdentity ==
  ASSUME Typed, Identified, NEW k, host[k] = "exact"
  PROVE  /\ identityValidFor(k, identityFor(k, ident))
         /\ k \in identityKinds => ~identityEmpty(identityFor(k, ident))
BY DEF Typed, HostTypeOK, Identity, Identified, identityValidFor, identityFor,
       identityEmpty, identityKinds, NoIdentity

(* Identities of other resources do not depend on what comes or goes.      *)
LEMMA IdentityOfOthers ==
  ASSUME NEW k, NEW a \in Identity, NEW b \in Identity,
         k \in {"Namespace", "GuestMoved"} => a.ns = b.ns,
         k \in {"Veth", "GuestMoved"} => a.veth = b.veth
  PROVE  identityFor(k, a) = identityFor(k, b)
BY DEF identityFor

(* What a command or the kernel does to one resource.                      *)
LEMMA Created ==
  ASSUME Typed, NEW kind, NEW failed, RunCreation(kind, failed)
  PROVE  /\ \A k \in EffectKind \ {kind} : host'[k] = host[k]
         /\ host' # host => host' = [host EXCEPT ![kind] = "exact"]
         /\ ident' \in Identity
         /\ kind # "Namespace" => ident'.ns = ident.ns
         /\ kind # "Veth" => ident'.veth = ident.veth
         /\ ident'.ns \in Ids \cup {ident.ns} /\ ident'.veth \in Ids \cup {ident.veth}
         /\ kind = "Namespace" /\ host' # host => ident'.ns \in Ids
         /\ kind = "Veth" /\ host' # host => ident'.veth \in Ids
BY DEF RunCreation, Appear, Typed, HostTypeOK, Identity

LEMMA Vanished ==
  ASSUME Typed, NEW kinds, Vanish(kinds)
  PROVE  /\ \A k \in EffectKind : host'[k] = IF k \in kinds THEN "absent" ELSE host[k]
         /\ ident' \in Identity
         /\ "Namespace" \notin kinds => ident'.ns = ident.ns
         /\ "Veth" \notin kinds => ident'.veth = ident.veth
BY DEF Vanish, Typed, HostTypeOK, Identity

(* The pair's far end goes with either.                                    *)
LEMMA GoneTogether ==
  ASSUME NEW kind
  PROVE  /\ kind \in GoneWith(kind)
         /\ "Namespace" \in GoneWith(kind) => kind = "Namespace"
         /\ "UnreachableRule" \in GoneWith(kind) => kind = "UnreachableRule"
         /\ "Veth" \in GoneWith(kind) => kind \in {"Namespace", "Veth"}
         /\ {"Namespace", "Veth"} \cap GoneWith(kind) # {} => "GuestMoved" \in GoneWith(kind)
         /\ Forwarding \in GoneWith(kind) => kind = Forwarding
BY DEF GoneWith, namespaceScoped, vethScoped, Forwarding

(* The entry where the service works on a resource of the first four.      *)
LEMMA WorksAt ==
  ASSUME Inv, pc \in {"run", "confirm", "remove"}
  PROVE  /\ idx \in Entries(journal) /\ Kind(idx) \in EffectKind
         /\ \A n \in 1..4 : Kind(idx) = Begins[n] => idx = n
         /\ \A n \in 1..4 : idx >= n => n \in Entries(journal) /\ Kind(n) = Begins[n]
<1>1. idx \in Entries(journal)
  BY DEF Inv, LedgerInv, ControlInv, Claimed
<1> QED BY <1>1, KindPlaces, PlanKinds DEF Inv, Typed, Kind

(* While it runs an effect, the earlier of the first four stand.           *)
LEMMA EarlierStand ==
  ASSUME Inv, StartInv, pc = "run", NEW n \in 1..4, idx > n
  PROVE  Steady(Begins[n]) => host[Begins[n]] = "exact"
<1>1. idx \in Nat /\ idx >= n /\ idx # n
  <2>1. idx \in Slots \cup {0}
    BY DEF Inv, Typed, ProcessTypeOK
  <2> QED BY <2>1, SlotNumbers
<1>2. n \in Entries(journal) \ {idx} /\ Kind(n) = Begins[n]
  BY <1>1, WorksAt
<1>3. OnlyLastOpen /\ Standing
  BY DEF StartInv, Starting
<1> QED BY <1>2, <1>3 DEF OnlyLastOpen, Standing, Observed

LEMMA NextIdentified ==
  ASSUME Inv, Identified, StartInv, [Next]_vars
  PROVE  Identified'
<1>1. CASE UNCHANGED <<host, ident>>
  BY <1>1 DEF Identified
<1>2. ASSUME NEW kind \in EffectKind, NEW failed, RunCreation(kind, failed),
             kind = "GuestMoved" => host["Namespace"] = "exact" /\ host["Veth"] = "exact"
      PROVE  Identified'
  <2>1. /\ \A k \in EffectKind \ {kind} : host'[k] = host[k]
        /\ host' # host => host' = [host EXCEPT ![kind] = "exact"]
        /\ kind # "Namespace" => ident'.ns = ident.ns
        /\ kind # "Veth" => ident'.veth = ident.veth
        /\ ident'.ns \in Ids \cup {ident.ns} /\ ident'.veth \in Ids \cup {ident.veth}
        /\ kind = "Namespace" /\ host' # host => ident'.ns \in Ids
        /\ kind = "Veth" /\ host' # host => ident'.veth \in Ids
    BY <1>2, Created DEF Inv
  <2>2. {"Namespace", "Veth", "GuestMoved"} \subseteq EffectKind
    BY IdentityKinds DEF identityKinds
  <2> QED BY <1>2, <2>1, <2>2, PlanIds DEF Identified, Inv, Typed, HostTypeOK
<1>3. ASSUME NEW kinds, Vanish(kinds),
             {"Namespace", "Veth"} \cap kinds # {} => "GuestMoved" \in kinds
      PROVE  Identified'
  <2>1. {"Namespace", "Veth", "GuestMoved"} \subseteq EffectKind
    BY IdentityKinds DEF identityKinds
  <2> QED BY <1>3, <2>1, Vanished DEF Identified, Inv
<1>4. CASE RepairRoute
  <2>1. PICK i \in todo, failed \in BOOLEAN : RunCreation(Kind(i), failed)
    BY <1>4 DEF RepairRoute
  <2>2. Kind(i) \in EffectKind /\ Kind(i) # "GuestMoved"
    BY <1>4, PlanKinds DEF RepairRoute, StartInv, uplinkRoutes, Inv, Typed, LedgerInv,
                           ControlInv, Claimed, Kind
  <2> QED BY <1>2, <2>1, <2>2
<1>5. CASE Run
  <2>1. pc = "run" /\ RunCreation(Kind(idx), runErr')
    BY <1>5 DEF Run
  <2>2. Kind(idx) \in EffectKind /\ (Kind(idx) = "GuestMoved" => idx = 3)
    BY <2>1, WorksAt DEF Begins
  <2>3. Kind(idx) = "GuestMoved" => host["Namespace"] = "exact" /\ host["Veth"] = "exact"
    <3>1. Steady("Namespace") /\ Steady("Veth")
      BY IdentityKinds DEF identityKinds
    <3>2. ASSUME idx = 3 PROVE host[Begins[1]] = "exact" /\ host[Begins[2]] = "exact"
      BY <2>1, <3>1, <3>2, EarlierStand DEF Begins
    <3> QED BY <2>2, <3>2 DEF Begins
  <2> QED BY <1>2, <2>1, <2>2, <2>3
<1>6. CASE RemoveSucceeds
  BY <1>3, <1>6, GoneTogether DEF RemoveSucceeds
<1>7. CASE LinkFlap
  BY <1>3, <1>7, IdentityKinds DEF LinkFlap, identityKinds
<1>8. CASE SetForwarding \/ Tamper
  <2>1. UNCHANGED ident /\ \A k \in identityKinds : host'[k] = host[k]
    BY <1>8, IdentityKinds DEF SetForwarding, Tamper, identityKinds, Forwarding, Inv,
                               Typed, HostTypeOK
  <2> QED BY <2>1 DEF Identified, identityKinds
<1>9. CASE Reboot
  BY <1>9, IdentityKinds DEF Reboot, Identified, identityKinds, Forwarding
<1>10. CASE Replace
  <2>1. PICK kind \in {"Namespace", "Veth"}, id \in Ids :
          LET again == GoneWith(kind) \ {kind} IN
          /\ host' = [k \in EffectKind |-> IF k \in again THEN "absent" ELSE host[k]]
          /\ ident' = [ns |-> IF kind = "Namespace" THEN id ELSE ident.ns,
                       veth |-> IF kind = "Veth" THEN id
                                ELSE IF "Veth" \in again THEN NoId ELSE ident.veth]
    BY <1>10 DEF Replace
  <2>2. "GuestMoved" \in GoneWith(kind) \ {kind} /\ "Namespace" \notin GoneWith(kind) \ {kind}
    BY GoneTogether
  <2> QED BY <2>1, <2>2, IdentityKinds, PlanIds DEF Identified, identityKinds
<1>11. CASE \/ BeginStart \/ StartFresh \/ StartRefuse \/ StartReconcile
            \/ StartRepair \/ StartNeedsCleanup \/ RepairDone
            \/ ReconcileRepaired \/ StampLegacy \/ Resume \/ SaveIntent
            \/ PlanDone \/ Confirm \/ InitializeNamespace
  BY <1>1, <1>11 DEF BeginStart, StartFresh, StartRefuse, StartReconcile,
     StartRepair, StartNeedsCleanup, RepairDone, ReconcileRepaired,
     StampLegacy, Resume, SaveIntent, PlanDone, Confirm, InitializeNamespace,
     hostVars
<1>12. CASE \/ BeginStop \/ ProveNoProcesses \/ StopPriorBoot \/ StopRefuse
            \/ StopPreflight \/ StopSkip \/ StopAbsent \/ StopUnsafe
            \/ StopRecordIdentity \/ StopMarkRemoving \/ StopRelinquish
            \/ RemoveFails \/ StopRemoved \/ StopSweep \/ Sweep \/ StopClear
            \/ Crash
  BY <1>1, <1>12 DEF BeginStop, ProveNoProcesses, StopPriorBoot, StopRefuse,
     StopPreflight, StopSkip, StopAbsent, StopUnsafe, StopRecordIdentity,
     StopMarkRemoving, StopRelinquish, RemoveFails, StopRemoved, StopSweep,
     Sweep, StopClear, Crash, hostVars
<1>13. CASE UplinkChange \/ HolderEnter \/ HolderLeave \/ Retire
  BY <1>1, <1>13 DEF UplinkChange, HolderEnter, HolderLeave, Retire
<1>14. CASE UNCHANGED vars
  BY <1>1, <1>14 DEF vars, hostVars
<1> QED BY <1>4, <1>5, <1>6, <1>7, <1>8, <1>9, <1>10, <1>11, <1>12, <1>13, <1>14
        DEF Next, Controller, Environment

-----------------------------------------------------------------------------
(* A start.                                                                *)

LEMMA LeavesStart ==
  ASSUME pc' \notin Starting \cup {"repair", "repaired"} PROVE StartInv'
BY DEF StartInv, Starting

LEMMA FinishLeaves ==
  ASSUME NEW r, Finish(r)
  PROVE  pc' = "idle" /\ purpose' = "none" /\ StartInv'
BY LeavesStart DEF Finish, Starting

LEMMA CleanupLeaves ==
  ASSUME NeedsCleanup PROVE pc' \in {"idle", "pids"} /\ StartInv'
BY LeavesStart DEF NeedsCleanup, Finish, Starting

LEMMA ClearedLeaves ==
  ASSUME Cleared PROVE pc' \in {"idle", "start"} /\ StartInv'
BY LeavesStart DEF Cleared, Finish, Starting

(* The ledger's entries, and those beyond.                                 *)
LEMMA EntryNumbers ==
  ASSUME Typed
  PROVE  /\ journal.count \in Nat /\ Entries(journal) = 1..journal.count
         /\ Entries(journal) \subseteq Slots /\ Slots \subseteq Nat \ {0}
         /\ Exists => journal.count \in Entries(journal)
         /\ \A i \in Entries(journal) : Kind(i) \in EffectKind
         /\ \A i, n \in Entries(journal) : Kind(i) = Kind(n) => i = n
<1>1. journal.count \in Nat
  BY SlotNumbers DEF Typed, Fitting, NetworkJournal
<1> QED BY <1>1, PlanKinds, KindPlaces, SlotNumbers DEF Typed, Entries, Exists, Kind

(* A valid ledger has sound entries.                                       *)
LEMMA ValidSound ==
  ASSUME Typed, validateJournal(journal) PROVE EntriesSound
<1>1. Exists
  BY EntryNumbers, PlanSlots DEF validateJournal, Exists, Typed, Fitting, NetworkJournal
<1>2. \A i \in Entries(journal) : Sound(journal.effects[i], Kind(i))
  BY DEF validateJournal, Sound, Kind
<1>3. \A i \in Slots \ Entries(journal) : journal.effects[i] = ZeroEffect
  BY DEF validateJournal
<1> QED BY <1>1, <1>2, <1>3 DEF EntriesSound

(* A ledger whose entries are sound and all applied is valid.              *)
LEMMA AppliedValid ==
  ASSUME Typed, EntriesSound, AllApplied(journal)
  PROVE  validateJournal(journal)
<1>1. journal.count \in 1..planLength(journal.forwarding)
  BY EntryNumbers, PlanSlots DEF EntriesSound, Exists, Typed, Fitting, NetworkJournal
<1>2. ASSUME NEW i \in Entries(journal)
      PROVE  LET e == journal.effects[i] IN
             /\ e.phase = "applied" /\ identityValidFor(kindAt(journal, i), e.id)
             /\ kindAt(journal, i) \in identityKinds => ~identityEmpty(e.id)
  BY <1>2 DEF EntriesSound, Sound, AllApplied, Kind
<1>3. \A i \in Entries(journal) : \A k \in 1..(i - 1) : k \in Entries(journal)
  BY EntryNumbers
<1> QED BY <1>1, <1>2, <1>3 DEF validateJournal, EntriesSound, cleanupPhases

(* What stands goes on standing while nobody else may touch it.            *)
LEMMA StandingKept ==
  ASSUME Typed, Standing, UNCHANGED journal,
         \A k \in EffectKind : Steady(k) /\ host[k] = "exact"
           => host'[k] = "exact" /\ identityFor(k, ident') = identityFor(k, ident)
  PROVE  Standing'
<1>1. \A i \in Entries(journal) : Kind(i) \in EffectKind
  BY EntryNumbers
<1> QED BY <1>1 DEF Standing, Entries, Kind, kindAt, Observed

LEMMA LedgerKept ==
  ASSUME UNCHANGED journal
  PROVE  /\ EntriesSound' <=> EntriesSound
         /\ validateJournal(journal') <=> validateJournal(journal)
         /\ AllApplied(journal') <=> AllApplied(journal)
         /\ Complete(journal') <=> Complete(journal)
         /\ Exists' <=> Exists
         /\ \A i : Kind(i)' = Kind(i)
BY DEF EntriesSound, Exists, Kind, kindAt, Entries

LEMMA HostKept ==
  ASSUME UNCHANGED <<journal, host, ident>>
  PROVE  Standing' <=> Standing
BY DEF Standing, Entries, Kind, kindAt, Observed

(* What reconciliation accepts is sound and stands.                        *)
LEMMA ReconciledStands ==
  ASSUME Typed, Identified, validateJournal(journal), ReconcileIs("ok"),
         UNCHANGED <<host, ident>>, journal' = Reconciled
  PROVE  EntriesSound' /\ Standing'
<1>1. /\ journal'.forwarding = journal.forwarding /\ journal'.count = journal.count
      /\ \A i \in Slots : journal'.effects[i] = reconciledEntry(i)
  BY DEF Reconciled, Typed, Fitting, NetworkJournal
<1>2. /\ Entries(journal') = Entries(journal) /\ Entries(journal) \subseteq Slots
      /\ \A i : Kind(i)' = Kind(i)
  BY <1>1, EntryNumbers DEF Entries, Kind, kindAt
<1>3. EntriesSound
  BY ValidSound
<1>4. ASSUME NEW i \in Entries(journal)
      PROVE  /\ Sound(reconciledEntry(i), Kind(i))
             /\ (reconciledEntry(i).phase = "applied"
                   => Observed(i) = "exact"
                      /\ reconciledEntry(i).id = identityFor(Kind(i), ident))
  <2>1. Kind(i) \in EffectKind /\ Sound(journal.effects[i], Kind(i)) /\ verdict(i) = "ok"
    BY <1>3, EntryNumbers DEF EntriesSound, ReconcileIs
  <2>2. host[Kind(i)] \in ObservationState
    BY <2>1 DEF Typed, HostTypeOK
  <2>3. CASE journal.effects[i].phase \notin retiredPhases /\ Observed(i) = "exact"
    <3>1. reconciledEntry(i) = [phase |-> "applied", id |-> identityFor(Kind(i), ident)]
      BY <2>3 DEF reconciledEntry
    <3> QED BY <2>3, <3>1, SoundIdentity DEF Sound, Observed
  <2>4. CASE ~(journal.effects[i].phase \notin retiredPhases /\ Observed(i) = "exact")
    <3>1. reconciledEntry(i) = journal.effects[i]
      BY <2>4 DEF reconciledEntry
    <3>2. journal.effects[i].phase # "applied"
      BY <2>1, <2>2, <2>4 DEF verdict, Observed, ObservationState, retiredPhases
    <3> QED BY <2>1, <3>1, <3>2
  <2> QED BY <2>3, <2>4
<1>5. \A i \in Slots \ Entries(journal) : reconciledEntry(i) = ZeroEffect
  BY <1>3 DEF reconciledEntry, EntriesSound
<1>6. EntriesSound'
  BY <1>1, <1>2, <1>3, <1>4, <1>5 DEF EntriesSound, Exists
<1>7. Standing'
  BY <1>1, <1>2, <1>4 DEF Standing, Observed
<1> QED BY <1>6, <1>7

LEMMA BeginsStarting ==
  ASSUME Inv, Identified, StartInv,
         \/ BeginStart \/ StartFresh \/ StartRefuse \/ StartReconcile
         \/ StartRepair \/ StartNeedsCleanup
  PROVE  StartInv'
<1>1. CASE BeginStart
  BY <1>1, LeavesStart DEF BeginStart, Starting
<1>2. CASE StartRefuse \/ StartNeedsCleanup
  BY <1>2, FinishLeaves, CleanupLeaves DEF StartRefuse, StartNeedsCleanup
<1>3. CASE StartFresh
  <2>1. CASE Finish("failed")
    BY <2>1, FinishLeaves
  <2>2. CASE ~Finish("failed")
    <3>1. /\ journal' = FreshJournal(bootId, seen, host[Forwarding] = "exact")
          /\ idx' = 1 /\ pc' = "run"
      BY <1>3, <2>2 DEF StartFresh, Goto
    <3>2. /\ journal'.count = 1 /\ journal'.effects[1] = [phase |-> "intent", id |-> NoIdentity]
          /\ \A i \in Slots \ {1} : journal'.effects[i] = ZeroEffect
      BY <3>1, SlotNumbers DEF FreshJournal, ZeroEffect
    <3>3. Entries(journal') = {1} /\ Exists'
      BY <3>2 DEF Entries, Exists
    <3>4. EntriesSound' /\ Standing'
      BY <3>2, <3>3 DEF EntriesSound, Standing, Sound, identityValidFor, identityEmpty
    <3>5. OnlyLastOpen'
      BY <3>1, <3>2, <3>3 DEF OnlyLastOpen
    <3> QED BY <3>1, <3>4, <3>5 DEF StartInv
  <2> QED BY <2>1, <2>2
<1>4. CASE StartReconcile
  <2>1. /\ validateJournal(journal) /\ ReconcileIs("ok") /\ UNCHANGED <<host, ident>>
        /\ journal' = Reconciled /\ pc' = "resume"
    BY <1>4 DEF StartReconcile, FromLedger, Goto, hostVars
  <2>2. EntriesSound' /\ Standing'
    BY <2>1, ReconciledStands DEF Inv
  <2> QED BY <2>1, <2>2 DEF StartInv
<1>5. CASE StartRepair
  <2>1. /\ validateJournal(journal) /\ UNCHANGED journal /\ todo' = missingUplinkRoutes
        /\ pc' = "repair"
    BY <1>5 DEF StartRepair, FromLedger, Goto
  <2>2. \A i \in todo' : Kind(i)' \in uplinkRoutes
    BY <2>1, LedgerKept DEF missingUplinkRoutes
  <2> QED BY <2>1, <2>2, LedgerKept DEF StartInv, Starting
<1> QED BY <1>1, <1>2, <1>3, <1>4, <1>5

LEMMA RepairsStarting ==
  ASSUME Inv, Identified, StartInv, RepairRoute \/ RepairDone \/ ReconcileRepaired
  PROVE  StartInv'
<1>1. CASE RepairRoute
  <2>1. CASE Finish("failed")
    BY <2>1, FinishLeaves
  <2>2. CASE ~Finish("failed")
    <3>1. UNCHANGED journal /\ pc = "repair" /\ pc' = "repair" /\ todo' \subseteq todo
      BY <1>1, <2>2 DEF RepairRoute, Goto
    <3> QED BY <3>1, LedgerKept DEF StartInv, Starting
  <2> QED BY <2>1, <2>2
<1>2. CASE RepairDone
  <2>1. UNCHANGED journal /\ pc = "repair" /\ pc' = "repaired"
    BY <1>2 DEF RepairDone, Goto
  <2> QED BY <2>1, LedgerKept DEF StartInv, Starting
<1>3. CASE ReconcileRepaired
  <2>1. CASE Finish("failed") \/ NeedsCleanup
    BY <2>1, FinishLeaves, CleanupLeaves
  <2>2. CASE ~(Finish("failed") \/ NeedsCleanup)
    <3>1. /\ validateJournal(journal) /\ ReconcileIs("ok") /\ UNCHANGED <<host, ident>>
          /\ journal' = Reconciled /\ pc' = "resume"
      BY <1>3, <2>2 DEF ReconcileRepaired, Goto, StartInv, hostVars
    <3>2. EntriesSound' /\ Standing'
      BY <3>1, ReconciledStands DEF Inv
    <3> QED BY <3>1, <3>2 DEF StartInv
  <2> QED BY <2>1, <2>2
<1> QED BY <1>1, <1>2, <1>3

LEMMA ResumesStarting ==
  ASSUME Inv, Identified, StartInv, StampLegacy \/ Resume \/ PlanDone \/ InitializeNamespace
  PROVE  StartInv'
<1>1. CASE StampLegacy
  <2>1. /\ pc = "resume" /\ pc' = "resume" /\ UNCHANGED <<host, ident>>
        /\ journal'.count = journal.count /\ journal'.forwarding = journal.forwarding
        /\ journal'.effects = journal.effects
    BY <1>1 DEF StampLegacy, Goto, hostVars, Inv, Typed, Fitting, NetworkJournal
  <2>2. EntriesSound /\ Standing
    BY <2>1 DEF StartInv, Starting
  <2>3. EntriesSound' /\ Standing'
    BY <2>1, <2>2 DEF EntriesSound, Standing, Exists, Kind, kindAt, Entries, Observed
  <2> QED BY <2>1, <2>3 DEF StartInv
<1>2. CASE Resume
  <2>1. CASE NeedsCleanup
    BY <2>1, CleanupLeaves
  <2>2. CASE ~NeedsCleanup
    <3>1. /\ UNCHANGED <<journal, host, ident>> /\ pc = "resume"
          /\ idx' = journal.count
          /\ \/ pc' = "initNs" /\ Complete(journal) /\ AllApplied(journal)
             \/ pc' = "run" /\ appliedBeforeLast /\ lastIsIntent
             \/ pc' = "advance" /\ appliedBeforeLast /\ ~lastIsIntent
      BY <1>2, <2>2 DEF Resume, Goto, hostVars
    <3>2. EntriesSound' /\ Standing'
      BY <3>1, LedgerKept, HostKept DEF StartInv, Starting
    <3>3. pc' = "run" => OnlyLastOpen'
      BY <3>1 DEF OnlyLastOpen, appliedBeforeLast, lastIsIntent, Entries
    <3>4. pc' = "advance" => AllApplied(journal')
      BY <3>1 DEF AllApplied, appliedBeforeLast, lastIsIntent, Entries
    <3> QED BY <3>1, <3>2, <3>3, <3>4 DEF StartInv
  <2> QED BY <2>1, <2>2
<1>3. CASE PlanDone
  <2>1. /\ UNCHANGED <<journal, host, ident>> /\ pc = "advance" /\ pc' = "initNs"
        /\ Complete(journal)
    BY <1>3 DEF PlanDone, Goto, hostVars
  <2>2. EntriesSound /\ Standing /\ AllApplied(journal)
    BY <2>1 DEF StartInv, Starting
  <2> QED BY <2>1, <2>2, LedgerKept, HostKept DEF StartInv
<1>4. CASE InitializeNamespace
  <2>1. pc' \in {"idle", "stopEnter"}
    BY <1>4 DEF InitializeNamespace, Finish
  <2> QED BY <2>1, LeavesStart DEF Starting
<1> QED BY <1>1, <1>2, <1>3, <1>4

LEMMA SaveIntentStarting ==
  ASSUME Inv, Identified, StartInv, SaveIntent
  PROVE  StartInv'
<1>1. /\ UNCHANGED <<host, ident>> /\ pc = "advance" /\ pc' = "run"
      /\ ~Complete(journal) /\ journal' = WithIntent(journal) /\ idx' = journal.count + 1
  BY DEF SaveIntent, Goto, hostVars
<1>2. /\ EntriesSound /\ Standing /\ AllApplied(journal)
      /\ Typed /\ OwnedEffectsAreLedgered /\ UNCHANGED bootId
  BY <1>1 DEF StartInv, Starting, Inv, LedgerInv, SaveIntent, hostVars
<1> DEFINE n == journal.count + 1
<1>3. journal.count \in Nat /\ Entries(journal) = 1..journal.count
      /\ Entries(journal') = 1..n /\ n \in Entries(journal')
      /\ n \in Slots /\ Entries(journal') \subseteq Slots
  <2>1. Entries(journal') = 1..n /\ n \in Entries(journal')
    BY <1>1, <1>2, OwnedIntent
  <2>2. Entries(journal') \subseteq Slots
    BY <1>1, <1>2, IntentFits, PlanKinds DEF Typed
  <2> QED BY <1>2, <2>1, <2>2, EntryNumbers
<1>4. /\ journal'.forwarding = journal.forwarding
      /\ journal'.count = n
      /\ journal'.effects[n] = [phase |-> "intent", id |-> NoIdentity]
      /\ \A i \in Slots \ {n} : journal'.effects[i] = journal.effects[i]
  BY <1>1, <1>2, <1>3 DEF WithIntent, Typed, Fitting, NetworkJournal
<1>5. /\ \A i \in Entries(journal') \ {n} : i \in Entries(journal)
      /\ \A i \in Slots \ Entries(journal') : i \in Slots \ Entries(journal) /\ i # n
      /\ \A i : Kind(i)' = Kind(i)
      /\ n > 0
  BY <1>3, <1>4, SlotNumbers DEF Kind, kindAt
<1>6. EntriesSound'
  <2>1. \A i \in Entries(journal') : Sound(journal'.effects[i], Kind(i)')
    BY <1>2, <1>3, <1>4, <1>5 DEF EntriesSound, Sound, identityValidFor, identityEmpty
  <2>2. \A i \in Slots \ Entries(journal') : journal'.effects[i] = ZeroEffect
    BY <1>2, <1>4, <1>5 DEF EntriesSound
  <2>3. Exists'
    BY <1>4, <1>5 DEF Exists
  <2> QED BY <2>1, <2>2, <2>3 DEF EntriesSound
<1>7. Standing'
  BY <1>1, <1>2, <1>3, <1>4, <1>5 DEF Standing, Observed
<1>8. OnlyLastOpen'
  BY <1>1, <1>2, <1>3, <1>4, <1>5 DEF OnlyLastOpen, AllApplied
<1> QED BY <1>1, <1>6, <1>7, <1>8 DEF StartInv

LEMMA RunStarting ==
  ASSUME Inv, Identified, StartInv, Run
  PROVE  StartInv'
<1>1. /\ UNCHANGED <<journal, idx>> /\ pc = "run" /\ pc' = "confirm"
      /\ RunCreation(Kind(idx), runErr')
  BY DEF Run
<1>2. EntriesSound /\ Standing /\ OnlyLastOpen /\ Typed
  BY <1>1 DEF StartInv, Starting, Inv
<1>3. OnlyLastOpen'
  BY <1>1, <1>2 DEF OnlyLastOpen, Entries
<1>4. Standing'
  <2>1. SUFFICES ASSUME NEW i \in Entries(journal), journal.effects[i].phase = "applied",
                        Steady(Kind(i))
                 PROVE  /\ host'[Kind(i)] = "exact"
                        /\ journal.effects[i].id = identityFor(Kind(i), ident')
    BY <1>1, LedgerKept DEF Standing, Observed, Entries
  <2>2. i # idx /\ idx = journal.count /\ idx \in Entries(journal)
    BY <1>1, <1>2, <2>1, WorksAt DEF OnlyLastOpen
  <2>3. Kind(i) # Kind(idx) /\ Kind(i) \in EffectKind
    BY <1>2, <2>2, EntryNumbers
  <2>4. /\ host[Kind(i)] = "exact" /\ host'[Kind(i)] = host[Kind(i)]
        /\ journal.effects[i].id = identityFor(Kind(i), ident)
    BY <1>1, <1>2, <2>1, <2>3, Created DEF Standing, Observed
  <2>5. i \in Nat /\ idx \in Nat /\ i >= 1 /\ i < idx
    BY <1>2, <2>2, EntryNumbers
  <2>6. /\ Kind(idx) = "Namespace" => Kind(i) \notin {"Namespace", "GuestMoved"}
        /\ Kind(idx) = "Veth" => Kind(i) \notin {"Veth", "GuestMoved"}
    <3>1. Kind(idx) = "Namespace" => idx = 1
      BY <1>1, WorksAt DEF Begins
    <3>2. Kind(idx) = "Veth" => idx = 2
      BY <1>1, WorksAt DEF Begins
    <3>3. Kind(idx) = "Veth" => i = 1 /\ Kind(1) = "Namespace"
      BY <1>1, <2>5, <3>2, WorksAt DEF Begins
    <3> QED BY <2>5, <3>1, <3>3
  <2>7. identityFor(Kind(i), ident') = identityFor(Kind(i), ident)
    <3>1. ident \in Identity /\ ident' \in Identity
      BY <1>1, <1>2, Created DEF Typed, HostTypeOK
    <3>2. /\ Kind(idx) # "Namespace" => ident'.ns = ident.ns
          /\ Kind(idx) # "Veth" => ident'.veth = ident.veth
      BY <1>1, <1>2, Created
    <3> QED BY <2>6, <3>1, <3>2, IdentityOfOthers
  <2> QED BY <2>4, <2>7
<1> QED BY <1>1, <1>2, <1>3, <1>4, LedgerKept DEF StartInv

LEMMA ConfirmStarting ==
  ASSUME Inv, Identified, StartInv, Confirm
  PROVE  StartInv'
<1>1. CASE pc' # "advance"
  <2>1. pc' \in {"stopLoop", "idle"}
    BY <1>1 DEF Confirm, Rollback, Finish, Goto
  <2> QED BY <2>1, LeavesStart DEF Starting
<1>2. CASE pc' = "advance"
  <2>1. /\ UNCHANGED <<host, ident, idx>> /\ pc = "confirm" /\ Observed(idx) = "exact"
        /\ journal' = [journal EXCEPT !.effects[idx] =
                         [phase |-> "applied", id |-> identityFor(Kind(idx), ident)]]
    BY <1>2 DEF Confirm, Rollback, Finish, Goto, hostVars
  <2>2. EntriesSound /\ Standing /\ OnlyLastOpen /\ Typed /\ idx \in Entries(journal)
    BY <2>1, WorksAt DEF StartInv, Starting, Inv
  <2>3. idx \in Slots
    BY <2>2, EntryNumbers
  <2>4. /\ journal'.forwarding = journal.forwarding /\ journal'.count = journal.count
        /\ journal'.effects[idx] = [phase |-> "applied", id |-> identityFor(Kind(idx), ident)]
        /\ \A n \in Slots \ {idx} : journal'.effects[n] = journal.effects[n]
    BY <2>1, <2>2, <2>3, EntryChange DEF Typed
  <2>5. /\ Entries(journal') = Entries(journal) /\ Entries(journal) \subseteq Slots
        /\ \A i : Kind(i)' = Kind(i)
    BY <2>2, <2>4, EntryNumbers DEF Entries, Kind, kindAt
  <2>6. Sound(journal'.effects[idx], Kind(idx))
    BY <2>1, <2>2, <2>4, SoundIdentity DEF Sound, Observed
  <2>7. EntriesSound'
    BY <2>2, <2>4, <2>5, <2>6 DEF EntriesSound, Exists
  <2>8. Standing'
    BY <2>1, <2>2, <2>4, <2>5 DEF Standing, Observed
  <2>9. AllApplied(journal')
    BY <2>2, <2>4, <2>5 DEF AllApplied, OnlyLastOpen
  <2> QED BY <1>2, <2>7, <2>8, <2>9 DEF StartInv
<1> QED BY <1>1, <1>2

LEMMA EnvironmentStarting ==
  ASSUME Inv, Identified, StartInv, Environment
  PROVE  StartInv'
<1>1. CASE Reboot
  <2>1. pc' = "idle"
    BY <1>1, FinishLeaves DEF Reboot, processVars
  <2> QED BY <2>1, LeavesStart DEF Starting
<1>2. CASE Replace
  <2>1. pc' = "idle"
    BY <1>2 DEF Replace, processVars
  <2> QED BY <2>1, LeavesStart DEF Starting
<1>3. CASE LinkFlap \/ UplinkChange \/ SetForwarding \/ Tamper \/ HolderEnter \/ HolderLeave \/ Retire
  <2>1. UNCHANGED <<journal, pc, idx, todo>>
    BY <1>3 DEF LinkFlap, UplinkChange, SetForwarding, Tamper, HolderEnter, HolderLeave,
                Retire, processVars
  <2>2. ASSUME NEW k \in EffectKind, Steady(k), host[k] = "exact"
        PROVE  host'[k] = "exact" /\ identityFor(k, ident') = identityFor(k, ident)
    <3>1. CASE LinkFlap
      <4>1. PICK f \in Flappable : Vanish({f})
        BY <3>1 DEF LinkFlap
      <4>2. f \notin {"Namespace", "Veth"} /\ k # f
        BY <2>2, <4>1, IdentityKinds DEF Steady, identityKinds
      <4>3. host'[k] = host[k] /\ ident' \in Identity /\ ident'.ns = ident.ns
            /\ ident'.veth = ident.veth
        BY <4>1, <4>2, Vanished DEF Inv
      <4> QED BY <2>2, <4>3, IdentityOfOthers DEF Inv, Typed, HostTypeOK
    <3>2. CASE SetForwarding
      BY <2>2, <3>2 DEF SetForwarding, Steady, Inv, Typed, HostTypeOK
    <3>3. CASE Tamper
      BY <2>2, <3>3 DEF Tamper, Steady, Hazard, Inv, Typed, HostTypeOK
    <3>4. CASE UplinkChange \/ HolderEnter \/ HolderLeave \/ Retire
      BY <2>2, <3>4 DEF UplinkChange, HolderEnter, HolderLeave, Retire
    <3> QED BY <1>3, <3>1, <3>2, <3>3, <3>4
  <2>3. Standing => Standing'
    BY <2>1, <2>2, StandingKept DEF Inv
  <2>4. OnlyLastOpen => OnlyLastOpen'
    BY <2>1 DEF OnlyLastOpen, Entries
  <2> QED BY <2>1, <2>3, <2>4, LedgerKept DEF StartInv
<1> QED BY <1>1, <1>2, <1>3 DEF Environment

LEMMA StopsStarting ==
  ASSUME Inv, StartInv,
         \/ BeginStop \/ ProveNoProcesses \/ StopPriorBoot \/ StopRefuse
         \/ StopPreflight \/ StopSkip \/ StopAbsent \/ StopUnsafe
         \/ StopRecordIdentity \/ StopMarkRemoving \/ StopRelinquish
         \/ RemoveSucceeds \/ RemoveFails \/ StopRemoved \/ StopSweep \/ Sweep
         \/ StopClear \/ Crash
  PROVE  StartInv'
<1>1. CASE \/ BeginStop \/ ProveNoProcesses \/ StopRefuse
           \/ StopPreflight \/ StopSkip \/ StopAbsent \/ StopUnsafe
           \/ StopRecordIdentity \/ StopMarkRemoving \/ StopRelinquish
           \/ RemoveSucceeds \/ RemoveFails \/ StopRemoved \/ StopSweep \/ Sweep \/ Crash
  <2>1. pc' \in {"idle", "pids", "stopEnter", "stopLoop", "relinquish", "remove",
                 "removed", "sweep"}
    BY <1>1 DEF BeginStop, ProveNoProcesses, StopRefuse, StopPreflight, StopSkip,
       StopAbsent, StopUnsafe, StopRecordIdentity, StopMarkRemoving, StopRelinquish,
       RemoveSucceeds, RemoveFails, StopRemoved, StopSweep, Sweep, Crash, Goto, Finish
  <2> QED BY <2>1, LeavesStart DEF Starting
<1>2. CASE StopPriorBoot \/ StopClear
  BY <1>2, FinishLeaves, ClearedLeaves DEF StopPriorBoot, StopClear
<1> QED BY <1>1, <1>2

LEMMA NextStarting ==
  ASSUME Inv, Identified, StartInv, [Next]_vars
  PROVE  StartInv'
<1>1. CASE UNCHANGED vars
  <2>1. UNCHANGED <<journal, host, ident, pc, idx, todo>>
    BY <1>1 DEF vars, hostVars, processVars
  <2>2. OnlyLastOpen => OnlyLastOpen'
    BY <2>1 DEF OnlyLastOpen, Entries
  <2> QED BY <2>1, <2>2, LedgerKept, HostKept DEF StartInv
<1>2. CASE Next
  BY <1>2, BeginsStarting, RepairsStarting, ResumesStarting, SaveIntentStarting,
     RunStarting, ConfirmStarting, EnvironmentStarting, StopsStarting DEF Next, Controller
<1> QED BY <1>1, <1>2

-----------------------------------------------------------------------------
(* A stop.                                                                 *)

LEMMA LeavesStop ==
  ASSUME pc' \notin Cleaning \cup {"stopEnter"} PROVE StopInv'
BY DEF StopInv, Cleaning

LEMMA PhaseKeepsIds ==
  ASSUME Typed, NEW i \in Slots, NEW p, journal' = WithPhase(journal, i, p)
  PROVE  /\ journal'.forwarding = journal.forwarding /\ journal'.count = journal.count
         /\ journal'.effects[i].phase = p
         /\ \A n \in Slots \ {i} : journal'.effects[n] = journal.effects[n]
         /\ \A n \in Slots : journal'.effects[n].id = journal.effects[n].id
BY DEF WithPhase, Typed, Fitting, NetworkJournal, JournalEffect

(* The entry the cleanup is at.                                            *)
LEMMA CleansAt ==
  ASSUME Inv, pc \in Cleaning, pc = "stopLoop" => idx > 0
  PROVE  /\ idx \in Entries(journal) /\ idx \in Slots /\ idx \in Nat \ {0}
         /\ Kind(idx) \in EffectKind
         /\ \A n \in 1..4 : Kind(idx) = Begins[n] => idx = n
         /\ \A n \in 1..4 : idx >= n => n \in Entries(journal) /\ Kind(n) = Begins[n]
<1> USE DEF Inv, LedgerInv
<1>1. idx \in Entries(journal)
  <2>1. CASE pc = "stopLoop"
    BY <2>1, EntriesStep DEF ControlInv
  <2>2. CASE pc # "stopLoop"
    BY <2>2, SlotNumbers
       DEF Cleaning, AtEffect, Typed, ProcessTypeOK, RemovalHasIndex, ControlInv, Claimed
  <2> QED BY <2>1, <2>2
<1> QED BY <1>1, KindPlaces, PlanKinds, SlotNumbers DEF Typed, Kind

(* The pair's entry.                                                       *)
LEMMA PairPlace ==
  ASSUME Typed, 2 \in Entries(journal)
  PROVE  Kind(2) = "Veth" /\ Observed(2) = host["Veth"] /\ journal.count >= 2
<1>1. Begins[2] = "Veth" /\ 2 \in 1..4
  BY DEF Begins
<1> QED BY <1>1, KindPlaces, EntryNumbers DEF Typed, Kind, Observed

(* A step of the cleanup that leaves the host alone.                       *)
LEMMA LoopKept ==
  ASSUME Inv, StopInv, pc \in Cleaning, pc' \in Cleaning,
         UNCHANGED <<host, ident, holders, purpose>>,
         journal'.forwarding = journal.forwarding, journal'.count = journal.count,
         \A i \in Entries(journal) :
           journal'.effects[i].id \in {journal.effects[i].id, identityFor(Kind(i), ident)},
         2 \in Entries(journal) /\ (journal'.effects[2].phase \in retiredPhases \/ idx' < 2)
           => journal.effects[2].phase \in retiredPhases \/ idx < 2 \/ host["Veth"] = "absent",
         pc' = "remove" => Removing'
  PROVE  StopInv'
<1>1. /\ Entries(journal') = Entries(journal)
      /\ \A i : Kind(i)' = Kind(i) /\ Observed(i)' = Observed(i)
  BY DEF Entries, Kind, kindAt, Observed
<1>2. Unheld => Unheld'
  BY DEF Unheld
<1>3. Frozen => Frozen'
  BY <1>1 DEF Frozen, identityMatches
<1>4. PairGone => PairGone'
  BY <1>1 DEF PairGone
<1>5. Asked' = Asked
  BY DEF Asked
<1> QED BY <1>2, <1>3, <1>4, <1>5 DEF StopInv

LEMMA StepsStopping ==
  ASSUME Inv, StopInv,
         StopSkip \/ StopAbsent \/ StopRecordIdentity \/ StopMarkRemoving
         \/ StopRelinquish \/ RemoveFails \/ StopRemoved
  PROVE  StopInv'
<1> DEFINE Past(j, n) == j.effects[2].phase \in retiredPhases \/ n < 2
<1>1. CASE StopSkip
  <2>1. /\ UNCHANGED <<journal, host, ident, holders, purpose>>
        /\ pc = "stopLoop" /\ pc' = "stopLoop" /\ idx > 0 /\ idx' = idx - 1
        /\ journal.effects[idx].phase \in retiredPhases
    BY <1>1 DEF StopSkip, AtEntry, Goto, hostVars
  <2>2. idx \in Nat
    BY <2>1, CleansAt DEF Cleaning
  <2>3. Past(journal, idx') => Past(journal, idx)
    BY <2>1, <2>2
  <2> QED BY <2>1, <2>3, LoopKept DEF Cleaning
<1>2. ASSUME pc \in Cleaning, pc = "stopLoop" => idx > 0,
             UNCHANGED <<host, ident, holders, purpose>>, pc' = "stopLoop", idx' = idx - 1,
             NEW p, journal' = WithPhase(journal, idx, p),
             Kind(idx) # "Veth" \/ Observed(idx) = "absent"
      PROVE  StopInv'
  <2>1. /\ idx \in Slots /\ idx \in Nat /\ idx \in Entries(journal)
        /\ Entries(journal) \subseteq Slots
    BY <1>2, CleansAt, EntryNumbers DEF Inv
  <2>2. /\ journal'.forwarding = journal.forwarding /\ journal'.count = journal.count
        /\ \A n \in Slots \ {idx} : journal'.effects[n] = journal.effects[n]
        /\ \A n \in Slots : journal'.effects[n].id = journal.effects[n].id
    BY <1>2, <2>1, PhaseKeepsIds DEF Inv
  <2>3. ASSUME 2 \in Entries(journal), Past(journal', idx')
        PROVE  Past(journal, idx) \/ host["Veth"] = "absent"
    <3>1. CASE idx = 2
      BY <1>2, <2>3, <3>1, PairPlace DEF Inv
    <3>2. CASE idx # 2
      BY <1>2, <2>1, <2>2, <2>3, <3>2
    <3> QED BY <3>1, <3>2
  <2> QED BY <1>2, <2>1, <2>2, <2>3, LoopKept DEF Cleaning
<1>3. CASE StopAbsent
  BY <1>2, <1>3 DEF StopAbsent, AtEntry, Goto, hostVars, Cleaning
<1>4. CASE StopRelinquish
  <2>1. Kind(idx) = Forwarding /\ "Veth" # Forwarding
    BY <1>4 DEF StopRelinquish, Inv, LedgerInv, ControlInv, Forwarding
  <2> QED BY <1>2, <1>4, <2>1 DEF StopRelinquish, Goto, hostVars, Cleaning
<1>5. CASE StopRemoved
  <2>1. CASE Finish("failed")
    BY <2>1, LeavesStop DEF Finish, Cleaning
  <2>2. CASE ~Finish("failed")
    BY <1>2, <1>5, <2>2 DEF StopRemoved, Goto, hostVars, Cleaning
  <2> QED BY <2>1, <2>2
<1>6. CASE RemoveFails
  <2>1. /\ UNCHANGED <<journal, host, ident, holders, purpose, idx>>
        /\ pc = "remove" /\ pc' = "removed"
    BY <1>6 DEF RemoveFails, Goto, hostVars
  <2> QED BY <2>1, LoopKept DEF Cleaning
<1>7. CASE StopRecordIdentity
  <2>1. /\ UNCHANGED <<host, ident, holders, purpose, idx>>
        /\ pc = "stopLoop" /\ pc' = "stopLoop" /\ idx > 0
        /\ journal' = [journal EXCEPT !.effects[idx] =
                         [phase |-> "applied", id |-> identityFor(Kind(idx), ident)]]
    BY <1>7 DEF StopRecordIdentity, AtEntry, Goto, hostVars
  <2>2. /\ idx \in Slots /\ Entries(journal) \subseteq Slots
    BY <2>1, CleansAt, EntryNumbers DEF Inv, Cleaning
  <2>3. /\ journal'.forwarding = journal.forwarding /\ journal'.count = journal.count
        /\ journal'.effects[idx] = [phase |-> "applied", id |-> identityFor(Kind(idx), ident)]
        /\ \A n \in Slots \ {idx} : journal'.effects[n] = journal.effects[n]
    BY <2>1, <2>2, EntryChange DEF Inv, Typed
  <2>4. 2 \in Entries(journal) /\ Past(journal', idx') => Past(journal, idx)
    BY <2>1, <2>2, <2>3 DEF retiredPhases
  <2> QED BY <2>1, <2>2, <2>3, <2>4, LoopKept DEF Cleaning
<1>8. CASE StopMarkRemoving
  <2>1. /\ UNCHANGED <<host, ident, holders, purpose>>
        /\ pc = "stopLoop" /\ idx > 0 /\ MayRemove(idx) /\ ~identityMissing(idx)
        /\ journal' = WithPhase(journal, idx, "removing")
        /\ \/ pc' \in {"remove", "relinquish"} /\ idx' = idx
           \/ pc' = "stopLoop" /\ idx' = idx - 1 /\ Kind(idx) \in noReverse
    BY <1>8 DEF StopMarkRemoving, AtEntry, Goto, hostVars
  <2>2. "Veth" \notin noReverse
    BY DEF noReverse, Forwarding
  <2>3. CASE pc' = "stopLoop"
    BY <1>2, <2>1, <2>2, <2>3 DEF Cleaning
  <2>4. CASE pc' # "stopLoop"
    <3>1. idx \in Slots /\ idx \in Entries(journal) /\ Entries(journal) \subseteq Slots
      BY <2>1, CleansAt, EntryNumbers DEF Inv, Cleaning
    <3>2. /\ journal'.forwarding = journal.forwarding /\ journal'.count = journal.count
          /\ journal'.effects[idx].phase = "removing"
          /\ \A n \in Slots \ {idx} : journal'.effects[n] = journal.effects[n]
          /\ \A n \in Slots : journal'.effects[n].id = journal.effects[n].id
      BY <2>1, <3>1, PhaseKeepsIds DEF Inv
    <3>3. 2 \in Entries(journal) /\ Past(journal', idx') => Past(journal, idx)
      BY <2>1, <2>4, <3>1, <3>2 DEF retiredPhases
    <3>4. Removing'
      <4>1. Kind(idx)' = Kind(idx) /\ idx' = idx
        BY <2>1, <2>4, <3>2 DEF Kind, kindAt
      <4>2. Kind(idx) \in {"Namespace", "Veth"}
              => journal.effects[idx].id = identityFor(Kind(idx), ident)
        BY <2>1 DEF MayRemove, identityMissing, identityMatches, identityKinds, identityEmpty
      <4>3. Kind(idx) = "UnreachableRule" => \A k \in guestPaths \cap EffectKind : host[k] # "exact"
        BY <2>1 DEF MayRemove, guestPathsDisabled
      <4> QED BY <2>1, <3>1, <3>2, <4>1, <4>2, <4>3 DEF Removing
    <3> QED BY <2>1, <2>4, <3>1, <3>2, <3>3, <3>4, LoopKept DEF Cleaning
  <2> QED BY <2>3, <2>4
<1> QED BY <1>1, <1>3, <1>4, <1>5, <1>6, <1>7, <1>8

(* What nobody does to the host under a cleanup.                           *)
LEMMA CalmKept ==
  ASSUME Inv, StopInv, pc \in Cleaning \cup {"stopEnter"},
         UNCHANGED <<journal, pc, idx, purpose>>, holders' => holders,
         \A k \in EffectKind \ {Forwarding} :
           host'[k] # host[k] => ~Asked \/ host'[k] = "absent",
         \A k \in EffectKind \ {Forwarding} : host'[k] # "exact" \/ host[k] = "exact",
         \A k \in identityKinds : host'[k] = host[k],
         \A k \in EffectKind : identityFor(k, ident') = identityFor(k, ident)
  PROVE  StopInv'
<1>1. /\ Entries(journal') = Entries(journal) /\ Asked' = Asked
      /\ \A i : Kind(i)' = Kind(i) /\ Observed(i)' = host'[Kind(i)]
      /\ \A i \in Entries(journal) : Kind(i) \in EffectKind
  BY EntryNumbers DEF Entries, Kind, kindAt, Observed, Asked, Inv
<1>2. {"Namespace", "Veth"} \subseteq identityKinds /\ Forwarding \notin guestPaths
  BY DEF identityKinds, guestPaths, Forwarding
<1>3. Unheld => Unheld'
  BY <1>2 DEF Unheld
<1>4. Asked /\ Frozen => Frozen'
  BY <1>1 DEF Frozen, identityMatches, Observed
<1>5. PairGone => PairGone'
  BY <1>1, <1>2 DEF PairGone
<1>6. pc = "remove" /\ Removing => Removing'
  <2>1. SUFFICES ASSUME pc = "remove", Removing PROVE Removing'
    OBVIOUS
  <2>2. Kind(idx) \in EffectKind
    BY <2>1, CleansAt DEF Cleaning
  <2>3. Kind(idx)' = Kind(idx) /\ Observed(idx)' = host'[Kind(idx)]
    BY <1>1
  <2>4. Kind(idx) = "UnreachableRule" => \A k \in guestPaths \cap EffectKind : host'[k] # "exact"
    BY <1>2, <2>1 DEF Removing
  <2> QED BY <1>2, <2>1, <2>2, <2>3, <2>4 DEF Removing, Observed
<1> QED BY <1>1, <1>3, <1>4, <1>5, <1>6 DEF StopInv, Cleaning

LEMMA EnvironmentStopping ==
  ASSUME Inv, StopInv, Environment
  PROVE  StopInv'
<1>1. CASE Reboot \/ Replace \/ HolderEnter
  <2>1. pc' = "idle"
    BY <1>1 DEF Reboot, Replace, HolderEnter, Finish, processVars
  <2> QED BY <2>1, LeavesStop DEF Cleaning
<1>2. CASE LinkFlap \/ UplinkChange \/ SetForwarding \/ Tamper \/ HolderLeave \/ Retire
  <2>1. UNCHANGED <<journal, pc, idx, purpose>> /\ (holders' => holders)
    BY <1>2 DEF LinkFlap, UplinkChange, SetForwarding, Tamper, HolderLeave, Retire,
                processVars
  <2>2. /\ \A k \in EffectKind \ {Forwarding} :
             host'[k] # host[k] => ~Asked \/ host'[k] = "absent"
        /\ \A k \in EffectKind \ {Forwarding} : host'[k] # "exact" \/ host[k] = "exact"
        /\ \A k \in identityKinds : host'[k] = host[k]
        /\ \A k \in EffectKind : identityFor(k, ident') = identityFor(k, ident)
    <3>1. CASE LinkFlap
      <4>1. PICK f \in Flappable : Vanish({f})
        BY <3>1 DEF LinkFlap
      <4>2. f \notin identityKinds /\ {"Namespace", "Veth"} \subseteq identityKinds
        BY <4>1, IdentityKinds DEF identityKinds
      <4>3. /\ \A k \in EffectKind : host'[k] = IF k = f THEN "absent" ELSE host[k]
            /\ ident' \in Identity /\ ident'.ns = ident.ns /\ ident'.veth = ident.veth
        BY <4>1, <4>2, Vanished DEF Inv
      <4>4. ident \in Identity
        BY DEF Inv, Typed, HostTypeOK
      <4> QED BY <4>2, <4>3, <4>4, IdentityOfOthers, IdentityKinds
    <3>2. CASE SetForwarding
      BY <3>2, IdentityKinds DEF SetForwarding, Inv, Typed, HostTypeOK, identityKinds, Forwarding
    <3>3. CASE Tamper
      <4>1. UNCHANGED ident /\ ~Asked
        BY <3>3 DEF Tamper, Asked
      <4>2. \A k \in EffectKind :
              host'[k] = host[k] \/ (k \in Tamperable /\ host'[k] \in {"absent", "conflict"})
        BY <3>3 DEF Tamper, Inv, Typed, HostTypeOK
      <4> QED BY <4>1, <4>2, IdentityKinds
    <3>4. CASE UplinkChange \/ HolderLeave \/ Retire
      BY <3>4 DEF UplinkChange, HolderLeave, Retire
    <3> QED BY <1>2, <3>1, <3>2, <3>3, <3>4
  <2>3. CASE pc \in Cleaning \cup {"stopEnter"}
    BY <2>1, <2>2, <2>3, CalmKept
  <2>4. CASE pc \notin Cleaning \cup {"stopEnter"}
    BY <2>1, <2>4, LeavesStop
  <2> QED BY <2>3, <2>4
<1> QED BY <1>1, <1>2 DEF Environment

LEMMA RemovalStopping ==
  ASSUME Inv, StopInv, RemoveSucceeds
  PROVE  StopInv'
<1>1. /\ UNCHANGED <<journal, idx, purpose, holders>> /\ pc = "remove" /\ pc' = "removed"
      /\ Vanish(GoneWith(Kind(idx)))
  BY DEF RemoveSucceeds, Goto
<1> DEFINE gone == GoneWith(Kind(idx))
<1>2. /\ \A k \in EffectKind : host'[k] = IF k \in gone THEN "absent" ELSE host[k]
      /\ ident' \in Identity /\ ident \in Identity
      /\ "Namespace" \notin gone => ident'.ns = ident.ns
      /\ "Veth" \notin gone => ident'.veth = ident.veth
      /\ {"Namespace", "Veth"} \cap gone # {} => "GuestMoved" \in gone
  BY <1>1, Vanished, GoneTogether DEF Inv, Typed, HostTypeOK
<1>3. /\ Entries(journal') = Entries(journal) /\ Asked' = Asked
      /\ \A i : Kind(i)' = Kind(i) /\ Observed(i)' = host'[Kind(i)]
      /\ \A i \in Entries(journal) : Kind(i) \in EffectKind
  BY <1>1, EntryNumbers DEF Entries, Kind, kindAt, Observed, Asked, Inv
<1>4. {"Namespace", "Veth"} \subseteq EffectKind
  BY IdentityKinds, IdentityKinds DEF identityKinds
<1>5. Unheld => Unheld'
  BY <1>1, <1>2, <1>4 DEF Unheld
<1>6. PairGone => PairGone'
  BY <1>1, <1>2, <1>3, <1>4 DEF PairGone
<1>7. Frozen => Frozen'
  <2>1. SUFFICES ASSUME Frozen, NEW i \in Entries(journal)
                 PROVE  /\ Kind(i) # Forwarding => host'[Kind(i)] # "conflict"
                        /\ (host'[Kind(i)] = "exact" \/ Kind(i) = Forwarding)
                             => journal.effects[i].id \in
                                  {NoIdentity, identityFor(Kind(i), ident')}
    BY <1>1, <1>3 DEF Frozen, identityMatches
  <2>2. Kind(i) # Forwarding => host'[Kind(i)] # "conflict"
    BY <1>2, <1>3, <2>1 DEF Frozen, Observed
  <2>3. CASE Kind(i) \notin identityKinds
    <3>1. identityFor(Kind(i), ident') = identityFor(Kind(i), ident)
      BY <1>2, <2>3, IdentityOfOthers DEF identityKinds
    <3>2. host'[Kind(i)] = "exact" => host[Kind(i)] = "exact"
      BY <1>2, <1>3
    <3> QED BY <2>1, <2>2, <3>1, <3>2 DEF Frozen, identityMatches, Observed
  <2>4. CASE Kind(i) \in identityKinds
    <3>1. Kind(i) # Forwarding
      BY <2>4 DEF identityKinds, Forwarding
    <3>2. SUFFICES ASSUME host'[Kind(i)] = "exact"
                   PROVE  journal.effects[i].id \in {NoIdentity, identityFor(Kind(i), ident')}
      BY <2>2, <3>1
    <3>3. host[Kind(i)] = "exact" /\ Kind(i) \notin gone
      BY <1>2, <1>3, <3>2
    <3>4. /\ Kind(i) \in {"Namespace", "GuestMoved"} => "Namespace" \notin gone
          /\ Kind(i) \in {"Veth", "GuestMoved"} => "Veth" \notin gone
      BY <1>2, <3>3
    <3>5. identityFor(Kind(i), ident') = identityFor(Kind(i), ident)
      BY <1>2, <3>4, IdentityOfOthers
    <3> QED BY <2>1, <3>3, <3>5 DEF Frozen, identityMatches, Observed
  <2> QED BY <2>2, <2>3, <2>4
<1> QED BY <1>1, <1>3, <1>5, <1>6, <1>7 DEF StopInv, Cleaning

LEMMA PreflightStopping ==
  ASSUME Inv, StopInv, StopPreflight
  PROVE  StopInv'
<1>1. /\ UNCHANGED <<journal, host, ident, holders, purpose>> /\ idx' = journal.count
      /\ pc = "stopEnter" /\ pc' = "stopLoop"
      /\ validateJournal(journal) /\ preflightStop
  BY DEF StopPreflight, Goto, hostVars
<1>2. /\ Entries(journal') = Entries(journal) /\ Asked' = Asked /\ Unheld' = Unheld
      /\ \A i : Kind(i)' = Kind(i) /\ Observed(i)' = Observed(i)
  BY <1>1 DEF Entries, Kind, kindAt, Observed, Asked, Unheld
<1>3. \A i \in Entries(journal) :
        /\ journal.effects[i].phase = "relinquished" => Kind(i) = Forwarding
        /\ identityValidFor(Kind(i), journal.effects[i].id)
  BY <1>1 DEF validateJournal, Kind
<1>4. ASSUME NEW i \in Entries(journal)
      PROVE  /\ Kind(i) # Forwarding => Observed(i) # "conflict"
             /\ Observed(i) = "exact" \/ Kind(i) = Forwarding => identityMatches(i)
  <2>1. CASE Kind(i) = Forwarding
    <3>1. journal.effects[i].id = NoIdentity
      BY <1>3, <2>1 DEF identityValidFor, identityEmpty, identityKinds, Forwarding
    <3> QED BY <2>1, <3>1 DEF identityMatches
  <2>2. CASE Kind(i) # Forwarding
    <3>1. /\ journal.effects[i].phase = "removed" => Observed(i) = "absent"
          /\ journal.effects[i].phase # "removed" => Observed(i) # "conflict"
          /\ (journal.effects[i].phase \notin retiredPhases /\ Observed(i) = "exact")
               => identityMatches(i)
      BY <1>1 DEF preflightStop
    <3> QED BY <1>3, <2>2, <3>1 DEF retiredPhases
  <2> QED BY <2>1, <2>2
<1>5. Frozen'
  BY <1>1, <1>2, <1>4 DEF Frozen, identityMatches
<1>6. PairGone'
  <2>1. SUFFICES ASSUME 2 \in Entries(journal),
                        journal.effects[2].phase \in retiredPhases \/ journal.count < 2
                 PROVE  host["Veth"] = "absent"
    BY <1>1, <1>2 DEF PairGone
  <2>2. Kind(2) = "Veth" /\ Observed(2) = host["Veth"] /\ journal.count >= 2
        /\ journal.count \in Nat
    BY <2>1, PairPlace, EntryNumbers DEF Inv
  <2>3. journal.effects[2].phase # "relinquished"
    BY <1>3, <2>1, <2>2 DEF Forwarding
  <2> QED BY <1>1, <2>1, <2>2, <2>3 DEF preflightStop, retiredPhases
<1> QED BY <1>1, <1>2, <1>5, <1>6 DEF StopInv, Cleaning

LEMMA ConfirmStopping ==
  ASSUME Inv, StartInv, Confirm
  PROVE  StopInv'
<1>1. CASE pc' # "stopLoop"
  <2>1. pc' \in {"advance", "idle"}
    BY <1>1 DEF Confirm, Rollback, Finish, Goto
  <2> QED BY <2>1, LeavesStop DEF Cleaning
<1>2. CASE pc' = "stopLoop"
  <2>1. /\ UNCHANGED <<host, ident>> /\ pc = "confirm" /\ Rollback
        /\ \/ journal' = [journal EXCEPT !.effects[idx] =
                            [phase |-> "applied", id |-> identityFor(Kind(idx), ident)]]
           \/ UNCHANGED journal
    BY <1>2 DEF Confirm, Finish, Goto, hostVars
  <2>2. /\ purpose' = "rollback" /\ idx' = journal.count
        /\ OnlyLastOpen /\ Typed /\ idx \in Entries(journal)
    BY <2>1, WorksAt DEF StartInv, Inv, Rollback
  <2>3. idx \in Slots /\ Entries(journal) \subseteq Slots
    BY <2>2, EntryNumbers
  <2>4. /\ journal'.count = journal.count /\ journal'.forwarding = journal.forwarding
        /\ \A n \in Entries(journal) : journal'.effects[n].phase \in {"applied", "intent"}
    <3>1. CASE UNCHANGED journal
      BY <2>2, <3>1 DEF OnlyLastOpen
    <3>2. CASE journal' = [journal EXCEPT !.effects[idx] =
                            [phase |-> "applied", id |-> identityFor(Kind(idx), ident)]]
      <4>1. /\ journal'.forwarding = journal.forwarding /\ journal'.count = journal.count
            /\ journal'.effects[idx] = [phase |-> "applied", id |-> identityFor(Kind(idx), ident)]
            /\ \A n \in Slots \ {idx} : journal'.effects[n] = journal.effects[n]
        BY <2>2, <2>3, <3>2, EntryChange DEF Typed
      <4> QED BY <2>2, <2>3, <4>1 DEF OnlyLastOpen
    <3> QED BY <2>1, <3>1, <3>2
  <2>5. Entries(journal') = Entries(journal)
    BY <2>4 DEF Entries
  <2>6. PairGone'
    <3>1. 2 \in Entries(journal) => journal.count >= 2 /\ journal.count \in Nat
      BY <2>2, PairPlace, EntryNumbers
    <3> QED BY <2>2, <2>4, <2>5, <3>1 DEF PairGone, retiredPhases
  <2> QED BY <1>2, <2>2, <2>6 DEF StopInv, Cleaning, Asked
<1> QED BY <1>1, <1>2

LEMMA EntersStopping ==
  ASSUME Inv, StartInv, ProveNoProcesses \/ InitializeNamespace
  PROVE  StopInv'
<1>1. CASE ProveNoProcesses
  <2>1. CASE pc' # "stopEnter"
    BY <1>1, <2>1, LeavesStop DEF ProveNoProcesses, Finish, Goto, Cleaning
  <2>2. CASE pc' = "stopEnter"
    <3>1. UNCHANGED <<host, holders>> /\ Unheld
      BY <1>1, <2>2 DEF ProveNoProcesses, Finish, Goto, hostVars, Unheld
    <3> QED BY <2>2, <3>1 DEF StopInv, Cleaning, Unheld
  <2> QED BY <2>1, <2>2
<1>2. CASE InitializeNamespace
  <2>1. pc' = "idle" \/ (pc' = "stopEnter" /\ purpose' = "initFailed")
    BY <1>2 DEF InitializeNamespace, Finish
  <2>2. CASE pc' = "idle"
    BY <2>2, LeavesStop DEF Cleaning
  <2>3. CASE pc' = "stopEnter" /\ purpose' = "initFailed"
    BY <2>3 DEF StopInv, Cleaning, Asked
  <2> QED BY <2>1, <2>2, <2>3
<1> QED BY <1>1, <1>2

LEMMA OthersStopping ==
  ASSUME Inv, StopInv,
         \/ BeginStart \/ StartFresh \/ StartRefuse \/ StartReconcile
         \/ StartRepair \/ StartNeedsCleanup \/ RepairRoute \/ RepairDone
         \/ ReconcileRepaired \/ StampLegacy \/ Resume \/ SaveIntent \/ PlanDone \/ Run
         \/ BeginStop \/ StopPriorBoot \/ StopRefuse \/ StopUnsafe \/ StopSweep
         \/ Sweep \/ StopClear \/ Crash
  PROVE  StopInv'
<1>1. CASE \/ BeginStart \/ StartFresh \/ StartRefuse \/ StartReconcile
           \/ StartRepair \/ StartNeedsCleanup \/ RepairRoute \/ RepairDone
           \/ ReconcileRepaired \/ StampLegacy \/ Resume \/ SaveIntent \/ PlanDone \/ Run
  <2>1. pc' \in {"idle", "start", "pids", "repair", "repaired", "resume", "advance",
                 "run", "confirm", "initNs"}
    BY <1>1 DEF BeginStart, StartFresh, StartRefuse, StartReconcile, StartRepair,
       StartNeedsCleanup, RepairRoute, RepairDone, ReconcileRepaired, StampLegacy,
       Resume, SaveIntent, PlanDone, Run, Goto, Finish, NeedsCleanup
  <2> QED BY <2>1, LeavesStop DEF Cleaning
<1>2. CASE \/ BeginStop \/ StopPriorBoot \/ StopRefuse \/ StopUnsafe \/ StopSweep
           \/ Sweep \/ StopClear \/ Crash
  <2>1. pc' \in {"idle", "start", "pids", "sweep"}
    BY <1>2, ClearedLeaves DEF BeginStop, StopPriorBoot, StopRefuse, StopUnsafe,
       StopSweep, Sweep, StopClear, Crash, Goto, Finish
  <2> QED BY <2>1, LeavesStop DEF Cleaning
<1> QED BY <1>1, <1>2

LEMMA NextStopping ==
  ASSUME Inv, StartInv, StopInv, [Next]_vars
  PROVE  StopInv'
<1>1. CASE UNCHANGED vars
  <2>1. UNCHANGED <<journal, host, ident, holders, pc, idx, purpose>>
    BY <1>1 DEF vars, hostVars, processVars
  <2>2. /\ Unheld' = Unheld /\ Asked' = Asked /\ (Frozen => Frozen')
        /\ (PairGone => PairGone') /\ (Removing => Removing')
    BY <2>1 DEF Unheld, Asked, Frozen, PairGone, Removing, identityMatches, Observed,
                Kind, kindAt, Entries
  <2> QED BY <2>1, <2>2 DEF StopInv
<1>2. CASE Next
  BY <1>2, StepsStopping, EnvironmentStopping, RemovalStopping, PreflightStopping,
     ConfirmStopping, EntersStopping, OthersStopping DEF Next, Controller
<1> QED BY <1>1, <1>2

-----------------------------------------------------------------------------
(* The service's own properties.                                           *)

ServiceInv == Inv /\ Identified /\ StartInv /\ StopInv

LEMMA InitService == Init => ServiceInv
<1> SUFFICES ASSUME Init PROVE ServiceInv
  OBVIOUS
<1>1. Inv
  BY InitTypeInv, InitLedger, TypeInvParts DEF Inv, Typed
<1>2. StartInv /\ StopInv
  BY DEF Init, StartInv, StopInv, Starting, Cleaning
<1>3. Identified
  <2>1. PICK forwarding \in BOOLEAN : InitFresh(forwarding) \/ InitLegacy(forwarding)
    BY DEF Init
  <2>2. {"Namespace", "Veth", "GuestMoved"} \subseteq EffectKind \ {Forwarding}
    BY IdentityKinds DEF identityKinds, Forwarding
  <2>3. CASE \A k \in EffectKind \ {Forwarding} : host[k] = "absent"
    BY <2>2, <2>3 DEF Identified
  <2>4. CASE ~ \A k \in EffectKind \ {Forwarding} : host[k] = "absent"
    <3>1. PICK n \in Ids, v \in Ids :
            /\ ident = [ns |-> n, veth |-> v]
            /\ host = [k \in EffectKind |-> "exact"]
      BY <2>1, <2>4 DEF InitFresh, InitLegacy
    <3> QED BY <2>2, <3>1, PlanIds DEF Identified
  <2> QED BY <2>3, <2>4
<1> QED BY <1>1, <1>2, <1>3 DEF ServiceInv

LEMMA NextService == ServiceInv /\ [Next]_vars => ServiceInv'
BY NextType, NextLedger, NextIdentified, NextStarting, NextStopping DEF ServiceInv, Inv

(* The steps of the controller that change the host.                       *)
LEMMA HostChanges ==
  ASSUME Controller, host' # host
  PROVE  RepairRoute \/ Run \/ RemoveSucceeds
BY DEF Controller, StartFresh, StartRefuse, StartReconcile, StartRepair,
   StartNeedsCleanup, RepairDone, ReconcileRepaired, StampLegacy, Resume, SaveIntent,
   PlanDone, Confirm, InitializeNamespace, ProveNoProcesses, StopPriorBoot, StopRefuse,
   StopPreflight, StopSkip, StopAbsent, StopUnsafe, StopRecordIdentity,
   StopMarkRemoving, StopRelinquish, RemoveFails, StopRemoved, StopSweep, Sweep,
   StopClear, hostVars

(* A requested stop, or the recovery of a start, never deletes a namespace *)
(* in which a process runs: the look at its processes (ProveNoProcesses)   *)
(* holds until the removal.                                                *)
THEOREM HeldSurvives == Spec => HeldNamespaceSurvivesStop
<1>1. ServiceInv =>
        ((RemoveSucceeds /\ purpose \in {"stop", "recover"} /\ holders)
           => host'["Namespace"] = host["Namespace"])
  <2>1. SUFFICES ASSUME ServiceInv, RemoveSucceeds, purpose \in {"stop", "recover"}, holders
                 PROVE  host'["Namespace"] = host["Namespace"]
    OBVIOUS
  <2>2. host["Namespace"] = "absent"
    BY <2>1 DEF RemoveSucceeds, ServiceInv, StopInv, Cleaning, Asked, Unheld
  <2>3. "Namespace" \in EffectKind /\ Vanish(GoneWith(Kind(idx)))
    BY <2>1, IdentityKinds DEF RemoveSucceeds, identityKinds
  <2> QED BY <2>1, <2>2, <2>3, Vanished DEF ServiceInv, Inv
<1> QED BY <1>1, InitService, NextService, PTL DEF Spec, HeldNamespaceSurvivesStop

(* A requested stop, or a recovery, removes something only while no effect *)
(* of the ledger is in conflict and none that is there is a namesake: what *)
(* preflight established (preflightStop) survives every removal.           *)
THEOREM ConflictsFreeze == Spec => ConflictFreezesCleanup
<1>1. ServiceInv =>
        (RemoveSucceeds /\ purpose \in {"stop", "recover"} =>
           \A i \in Entries(journal) :
             /\ Kind(i) # Forwarding => Observed(i) # "conflict"
             /\ Observed(i) = "exact" => identityMatches(i))
  BY DEF RemoveSucceeds, ServiceInv, StopInv, Cleaning, Asked, Frozen
<1> QED BY <1>1, InitService, NextService, PTL DEF Spec, ConflictFreezesCleanup

(* The ledger has one entry of a kind at most.                             *)
LEMMA OneIdentity ==
  ASSUME Typed, NEW i \in Entries(journal)
  PROVE  recordedIdentity(Kind(i)) = {journal.effects[i].id}
<1>1. \A n \in Entries(journal) : Kind(n) = Kind(i) => n = i
  BY EntryNumbers
<1> QED BY <1>1 DEF recordedIdentity

(* No namespace and no pair of an identity the ledger does not hold is     *)
(* removed, not even the pair that goes away with its namespace.           *)
THEOREM ForeignUntouched == Spec => ForeignIdentityUntouched
<1>1. ServiceInv =>
        (Controller => \A k \in {"Namespace", "Veth"} :
           (host[k] = "exact" /\ host'[k] = "absent")
              => recordedIdentity(k) = {identityFor(k, ident)})
  <2>1. SUFFICES ASSUME ServiceInv, Controller, NEW k \in {"Namespace", "Veth"},
                        host[k] = "exact", host'[k] = "absent"
                 PROVE  recordedIdentity(k) = {identityFor(k, ident)}
    OBVIOUS
  <2>2. Inv /\ Typed /\ k \in EffectKind
    BY <2>1, IdentityKinds DEF ServiceInv, Inv, identityKinds
  <2>3. RemoveSucceeds
    <3>1. ASSUME NEW kind, NEW failed, RunCreation(kind, failed) PROVE FALSE
      BY <2>1, <2>2, <3>1 DEF RunCreation, Appear, Typed, HostTypeOK
    <3>2. ~RepairRoute /\ ~Run
      BY <3>1 DEF RepairRoute, Run
    <3> QED BY <2>1, <3>2, HostChanges
  <2>4. pc = "remove" /\ Removing /\ PairGone /\ idx \in Entries(journal)
    BY <2>1, <2>2, <2>3, CleansAt DEF RemoveSucceeds, ServiceInv, StopInv, Cleaning
  <2>5. k \in GoneWith(Kind(idx)) /\ Kind(idx) \in {"Namespace", "Veth"}
    <3>1. k \in GoneWith(Kind(idx))
      BY <2>1, <2>2, <2>3, Vanished DEF RemoveSucceeds
    <3> QED BY <3>1, GoneTogether
  <2>6. Kind(idx) = k
    <3>1. SUFFICES ASSUME Kind(idx) = "Namespace", k = "Veth" PROVE FALSE
      BY <2>5, GoneTogether
    <3>2. Kind(idx) = Begins[1] /\ Begins[2] = "Veth"
      BY <3>1 DEF Begins
    <3>3. idx = 1
      BY <2>2, <2>4, <3>2, WorksAt
    <3>4. "Veth" \in Exclusive
      BY IdentityKinds
    <3>5. PICK i \in Entries(journal) : Kind(i) = "Veth"
      BY <2>1, <2>2, <3>1, <3>4 DEF Inv, LedgerInv, OwnedEffectsAreLedgered, Claims, Kind
    <3>6. i = 2
      BY <2>2, <3>2, <3>5, KindPlaces DEF Typed, Kind
    <3> QED BY <2>1, <2>4, <3>1, <3>3, <3>5, <3>6 DEF PairGone
  <2>7. Observed(idx) = "exact"
    BY <2>1, <2>6 DEF Observed
  <2> QED BY <2>2, <2>4, <2>6, <2>7, OneIdentity DEF Removing
<1> QED BY <1>1, InitService, NextService, PTL DEF Spec, ForeignIdentityUntouched

(* No step of the controller leaves an open guest path without the         *)
(* barrier, as long as nobody else takes the barrier away between its      *)
(* creation and the paths'.                                                *)
THEOREM Unbarred ==
  ASSUME "UnreachableRule" \notin Flappable,
         "tamper" \notin Hazards \/ "UnreachableRule" \notin Tamperable
  PROVE  Spec => NeverUnbarred
<1> DEFINE barrier == "UnreachableRule"
<1>1. ServiceInv => (Controller /\ Barred => Barred')
  <2>1. SUFFICES ASSUME ServiceInv, Controller, Barred,
                        NEW k \in guestPaths \cap EffectKind, host'[k] = "exact"
                 PROVE  host'[barrier] = "exact"
    BY DEF Barred
  <2>2. Inv /\ Typed /\ StartInv /\ StopInv /\ barrier \in EffectKind
    BY <2>1, IdentityKinds DEF ServiceInv, Inv, Exclusive
  <2>3. CASE host' = host
    BY <2>1, <2>3 DEF Barred
  <2>4. ASSUME NEW kind \in EffectKind, NEW failed, RunCreation(kind, failed),
               kind = k => host[barrier] = "exact"
        PROVE  host'[barrier] = "exact"
    <3>1. host[barrier] = "exact"
      BY <2>1, <2>2, <2>4, Created DEF Barred
    <3> QED BY <2>2, <2>4, <3>1 DEF RunCreation, Appear, Typed, HostTypeOK
  <2>5. CASE RepairRoute
    <3>1. PICK i \in todo, failed \in BOOLEAN : RunCreation(Kind(i), failed)
      BY <2>5 DEF RepairRoute
    <3>2. Kind(i) \in EffectKind /\ Kind(i) \in uplinkRoutes
      BY <2>2, <2>5, EntryNumbers DEF RepairRoute, StartInv, Inv, LedgerInv, ControlInv, Claimed
    <3>3. Kind(i) # k
      BY <2>1, <3>2 DEF uplinkRoutes, guestPaths
    <3> QED BY <2>4, <3>1, <3>2, <3>3
  <2>6. CASE Run
    <3>1. pc = "run" /\ RunCreation(Kind(idx), runErr')
      BY <2>6 DEF Run
    <3>2. /\ Kind(idx) \in EffectKind /\ idx \in Nat \ {0}
          /\ \A n \in 1..4 : idx >= n => Kind(n) = Begins[n]
      BY <2>2, <3>1, WorksAt, EntryNumbers
    <3>3. ASSUME Kind(idx) = k PROVE host[barrier] = "exact"
      <4>1. ~ (idx \in 1..4)
        BY <2>1, <3>2, <3>3 DEF Begins, guestPaths
      <4>2. 4 \in 1..4 /\ idx > 4 /\ Begins[4] = barrier
        BY <3>2, <4>1 DEF Begins
      <4>3. Steady(barrier)
        BY DEF Steady, Forwarding
      <4> QED BY <2>2, <3>1, <4>2, <4>3, EarlierStand
    <3> QED BY <2>4, <3>1, <3>2, <3>3
  <2>7. CASE RemoveSucceeds
    <3>1. pc = "remove" /\ Removing /\ Vanish(GoneWith(Kind(idx)))
      BY <2>2, <2>7 DEF RemoveSucceeds, StopInv
    <3>2. host[k] = "exact" /\ host[barrier] = "exact"
      BY <2>1, <2>2, <3>1, Vanished DEF Barred
    <3>3. barrier \notin GoneWith(Kind(idx))
      BY <2>1, <3>1, <3>2, GoneTogether DEF Removing
    <3> QED BY <2>2, <3>1, <3>2, <3>3, Vanished
  <2> QED BY <2>1, <2>3, <2>5, <2>6, <2>7, HostChanges
<1> QED BY <1>1, InitService, NextService, PTL DEF Spec, NeverUnbarred

(* A start that reports success leaves a valid ledger of this boot with    *)
(* every effect of the plan applied, and what the kernel and other         *)
(* services do not change stands with the identity recorded for it.        *)
THEOREM StartsReady ==
  ASSUME "tamper" \notin Hazards \/ Tamperable = {}
  PROVE  Spec => StartedIsReady
<1>1. ServiceInv =>
        ((pc = "initNs" /\ pc' = "idle" /\ result' = "started") =>
           /\ validateJournal(journal) /\ ~PriorBoot
           /\ Complete(journal) /\ AllApplied(journal)
           /\ \A i \in Entries(journal) :
                Kind(i) \in Flappable \cup {Forwarding}
                  \/ (Observed(i) = "exact" /\ identityMatches(i)))
  <2>1. SUFFICES ASSUME ServiceInv, pc = "initNs"
                 PROVE  /\ validateJournal(journal) /\ ~PriorBoot
                        /\ Complete(journal) /\ AllApplied(journal)
                        /\ \A i \in Entries(journal) :
                             Kind(i) \in Flappable \cup {Forwarding}
                               \/ (Observed(i) = "exact" /\ identityMatches(i))
    OBVIOUS
  <2>2. /\ Typed /\ EntriesSound /\ Standing
        /\ Complete(journal) /\ AllApplied(journal) /\ ~PriorBoot
    BY <2>1 DEF ServiceInv, Inv, LedgerInv, ControlInv, StartInv, Starting
  <2>3. validateJournal(journal)
    BY <2>2, AppliedValid
  <2>4. ASSUME NEW i \in Entries(journal), Kind(i) \notin Flappable \cup {Forwarding}
        PROVE  Observed(i) = "exact" /\ identityMatches(i)
    <3>1. Steady(Kind(i))
      BY <2>4 DEF Steady
    <3> QED BY <2>2, <2>4, <3>1 DEF Standing, AllApplied, identityMatches
  <2> QED BY <2>2, <2>3, <2>4
<1> QED BY <1>1, InitService, NextService, PTL DEF Spec, StartedIsReady
=============================================================================
