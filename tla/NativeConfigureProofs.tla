------------------------- MODULE NativeConfigureProofs -------------------------
(***************************************************************************)
(* Theorems about NativeConfigure and the package changes beside it, for   *)
(* any number of setups, package changes, packages and faults.  The        *)
(* hypotheses about Hazards name what the code leaves to time or does not  *)
(* exclude: PackageChange and NativeConfigure say what each one is.        *)
(***************************************************************************)
EXTENDS NativeConfigure, TLAPS

-----------------------------------------------------------------------------
(* The invariants.                                                         *)

(* Who holds the lock, and what its holder knows.                          *)
Locks ==
  /\ worker => configLock = "none"
  /\ configLock = "package" <=> package.pc \in {"prepare", "mark"}
  /\ configLock = "recovery" <=> recovery # "idle"

(* The change in progress: there is none without the database's lock, none *)
(* but an installation without a hook, and no recovery beside it that saw  *)
(* no database lock and has yet to finish.                                 *)
Changes ==
  /\ package.pc # "idle" => package.database
  /\ package.pc \in {"hook", "prepare", "mark"} => package.kind \in {"upgrade", "remove"}
  /\ package.pc = "idle" => package.kind = "none"
  /\ package.kind = "install" => package.new # Absent
  /\ recovery = "finish" => package.pc \in {"idle", "hook"} \/ package.kind = "install"

(* The block stands over every change of files but a first installation's. *)
Blocked ==
  /\ package.pc \in {"replace", "post"} /\ package.kind # "install" => block
  /\ package.pc = "replace" /\ package.kind # "install" => ~worker
  /\ package.pc = "post" => whole
  /\ package.kind = "install" =>
       /\ files["cli"] \in {Absent, package.new}
       /\ ~block => files["proxy"] \in {Absent, package.new}
  /\ ~block => \/ files["cli"] = files["proxy"]
               \/ package.pc = "replace" /\ package.kind = "install"

(* What the gateway runs, or is about to.                                  *)
Runs ==
  /\ gateway.pc \in {"staging", "staged"} =>
       /\ ~block
       /\ package.pc \in {"idle", "hook", "prepare"} \/ package.kind = "install"
  /\ gateway.pc = "staged" => gateway.proxy = files["proxy"] /\ gateway.proxy # Absent
  /\ gateway.pc = "active" => gateway.proxy = gateway.cli
  /\ gateway.pc = "active" /\ ~block =>
       installed /\ Contract[gateway.cli] = Contract[files["cli"]]

PackageInv == Changes /\ Blocked /\ Runs

(* From the second look at what runs until the setup is over.              *)
Inhibiting == {"stage", "staged", "commit", "rollback", "select", "ready", "wait", "clear"}

SetupHolds ==
  /\ helper.pc # "none" => helper.gen \in Setups
  /\ helper.pc \in {"generate", "recheck", "inhibit"} \cup Inhibiting => ~block
  /\ helper.pc \in {"inhibit", "stage", "staged", "commit", "rollback"} => ~gateway.network

(* One transaction at a time, and none once its setup selects.             *)
Selecting == {"select", "ready", "wait", "clear"}
Alone ==
  /\ \A g, h \in unanswered : g = h
  /\ helper.pc \in {"inhibit"} \cup Selecting => unanswered = {}
  /\ helper.pc \in Inhibiting => unanswered \subseteq {helper.gen}

(* A profile that is exchanged is the one of the snapshot, or new.         *)
Exchanges ==
  \A g \in Setups : child[g].pc = "exchange" =>
    now.profile = child[g].old \/ child[g].old = None

(* Setups are numbered, and none is committed before it is published.      *)
Numbered ==
  /\ \A g \in Setups : g > setups => child[g].pc = "none"
  /\ helper.pc # "none" => helper.gen = setups
  /\ helper.pc \in {"request", "lock", "check", "generate", "recheck", "inhibit"} =>
       mine.pc = "none"
  /\ helper.pc \in {"stage", "staged"} => mine.pc # "committed"

(* The inhibitor is on the disk for as long as its setup or the            *)
(* transaction of one, or the desktop's part of it, is under way.          *)
Finishing == {"finalize", "acknowledge"}
Inhibited ==
  /\ helper.pc \in Inhibiting => disk.inhibitor = {TRUE}
  /\ unanswered # {} => disk.inhibitor = {TRUE}
  /\ desktop \in Finishing => disk.inhibitor = {TRUE}
  /\ desktop \in Finishing => helper.pc \in {"none", "wait"}
  /\ desktop \in {"wait", "finalize", "acknowledge"} => ~helper.acked

(* The files that belong together with version v.                          *)
Own(v) == {v, Foreign}
TreeOf(v) == disk.config \subseteq Own(v) /\ disk.runtime \subseteq Own(v) /\ imported \in Own(v)
Together(v) == TreeOf(v) /\ disk.profile \subseteq Own(v)

(* Whatever survives a power cut agrees unless the inhibitor does; what a  *)
(* setup that may still clear the inhibitor leaves agrees when it does:    *)
(* before its publication with what was there, then with its own version.  *)
Agrees    == FALSE \in disk.inhibitor => \E v \in Version : Together(v)
Undoable  ==
  helper.pc \in {"stage", "staged", "rollback"} /\ ~helper.prior =>
    \E v \in Version :
      /\ TreeOf(v)
      /\ mine.pc \in {"none", "snapshot", "exchange", "rolledback"} =>
           disk.profile \subseteq Own(v)
      /\ mine.pc \in {"exchange", "ready"} => mine.old \in Own(v)
Published ==
  /\ (helper.pc = "commit" /\ ~helper.retain) \/ helper.pc \in Selecting =>
       disk.config \subseteq Own(helper.gen)
  /\ (helper.pc = "commit" /\ mine.pc = "committed") \/ helper.pc \in Selecting =>
       disk.profile \subseteq Own(helper.gen)
  /\ helper.pc \in Selecting \ {"select"} => disk.runtime \subseteq Own(helper.gen)
Acked     ==
  /\ helper.pc = "clear" => helper.acked
  /\ helper.acked => helper.pc \in {"wait", "clear"}
  /\ helper.acked \/ (helper.pc = "wait" /\ desktop = "acknowledge") =>
       imported \in Own(helper.gen)

SetupInv == Inhibited /\ Agrees /\ Undoable /\ Published /\ Acked
-----------------------------------------------------------------------------
(* Package changes: types and locks.                                       *)

LEMMA ChangeRecords ==
  /\ \A database \in BOOLEAN : [NoChange EXCEPT !.database = database] \in Change
  /\ NoChange \in Change
  /\ \A c \in Change, pc \in {"idle", "hook", "prepare", "mark", "replace", "post"} :
       [c EXCEPT !.pc = pc] \in Change
  /\ \A network \in BOOLEAN : [Stopped EXCEPT !.network = network] \in Gateway
  /\ Stopped \in Gateway
<1>1. \A d : [NoChange EXCEPT !.database = d]
                 = [pc |-> "idle", kind |-> "none", new |-> Absent, database |-> d]
  BY DEF NoChange
<1>2. \A n : [Stopped EXCEPT !.network = n]
              = [network |-> n, pc |-> "inactive", cli |-> Absent, proxy |-> Absent]
  BY DEF Stopped
<1>3. \A database \in BOOLEAN : [NoChange EXCEPT !.database = database] \in Change
  BY <1>1 DEF Change
<1>4. NoChange \in Change
  BY DEF Change, NoChange
<1>5. \A c \in Change, pc \in {"idle", "hook", "prepare", "mark", "replace", "post"} :
       [c EXCEPT !.pc = pc] \in Change
  BY DEF Change
<1>6. \A network \in BOOLEAN : [Stopped EXCEPT !.network = network] \in Gateway
  BY <1>2 DEF Gateway
<1>7. Stopped \in Gateway
  BY DEF Gateway, Stopped
<1> QED BY <1>3, <1>4, <1>5, <1>6, <1>7

LEMMA PackageTypeStep ==
  ASSUME PackageTypeOK, NEW incomplete, PackageNext(incomplete)
  PROVE  PackageTypeOK'
<1>1. CASE BeginChange
  <2>1. PICK v \in Packages \cup {Absent} :
          package' = [pc   |-> IF installed THEN "hook" ELSE "replace",
                      kind |-> IF ~installed THEN "install"
                               ELSE IF v = Absent THEN "remove" ELSE "upgrade",
                      new  |-> v, database |-> TRUE]
    BY <1>1 DEF BeginChange
  <2>2. changes' \in 0 .. MaxChanges
    BY <1>1, PackageShape DEF BeginChange, PackageTypeOK
  <2>3. package' \in Change
    BY <2>1 DEF Change
  <2> QED BY <1>1, <2>2, <2>3 DEF BeginChange, PackageTypeOK
<1>2. CASE LockForChange \/ HookFails \/ PrepareUpgrade \/ SetBlock \/ EndReplacing
            \/ CompleteChange \/ RemoveDatabaseLock
  <2>1. \/ package' = NoChange
        \/ \E pc \in {"prepare", "mark", "replace", "post"} : Step(pc)
    BY <1>2 DEF LockForChange, HookFails, PrepareUpgrade, SetBlock, EndReplacing,
       CompleteChange, RemoveDatabaseLock, EndChange
  <2>2. package' \in Change
    BY <2>1, ChangeRecords DEF PackageTypeOK, Step
  <2>3. /\ configLock' \in {"none", "package", "recovery", "setup"} /\ block' \in BOOLEAN
        /\ UNCHANGED <<worker, recovery, files, gateway, changes>>
    BY <1>2 DEF LockForChange, HookFails, PrepareUpgrade, SetBlock, EndReplacing,
       CompleteChange, RemoveDatabaseLock, lifted, PackageTypeOK
  <2> QED BY <2>2, <2>3 DEF PackageTypeOK
<1>3. CASE PrepareRemoval
  BY <1>3, ChangeRecords DEF PrepareRemoval, Step, PackageTypeOK
<1>4. CASE ReplaceFiles
  BY <1>4 DEF ReplaceFiles, PackageTypeOK, Change
<1>5. CASE Recover \/ RecoverInspect \/ RecoverFinish
  BY <1>5 DEF Recover, RecoverInspect, RecoverFinish, lifted, PackageTypeOK
<1>6. CASE StartNetwork(incomplete) \/ StageNativeRuntime \/ copyRuntimeBinary \/ Serve
  <2>1. /\ gateway \in Gateway
        /\ files["cli"] \in Packages \cup {Absent}
        /\ files["proxy"] \in Packages \cup {Absent}
    BY DEF PackageTypeOK, Files
  <2>2. gateway' \in Gateway
    BY <1>6, <2>1 DEF StartNetwork, StageNativeRuntime, copyRuntimeBinary, Serve,
                      Gateway
  <2>3. UNCHANGED <<configLock, worker, block, package, recovery, files, changes>>
    BY <1>6 DEF StartNetwork, StageNativeRuntime, copyRuntimeBinary, Serve
  <2> QED BY <2>2, <2>3 DEF PackageTypeOK
<1>7. CASE GatewayStops
  <2>1. gateway' \in Gateway
    BY <1>7, ChangeRecords DEF GatewayStops
  <2> QED BY <1>7, <2>1 DEF PackageTypeOK, GatewayStops
<1>8. CASE StartWorker(incomplete) \/ WorkerEnds
  BY <1>8 DEF StartWorker, WorkerEnds, PackageTypeOK
<1> QED BY <1>1, <1>2, <1>3, <1>4, <1>5, <1>6, <1>7, <1>8 DEF PackageNext

LEMMA StepPc ==
  ASSUME PackageTypeOK, NEW pc, Step(pc)
  PROVE  package'.pc = pc
BY DEF PackageTypeOK, Step

LEMMA PackageLockStep ==
  ASSUME PackageTypeOK, Locks, NEW incomplete, PackageNext(incomplete)
  PROVE  /\ Locks'
         /\ (configLock' = "setup" <=> configLock = "setup")
         /\ configLock = "setup" => ~worker'
<1>1. CASE BeginChange
  BY <1>1 DEF PackageTypeOK, Locks, BeginChange
<1>2. CASE LockForChange \/ PrepareUpgrade \/ PrepareRemoval \/ SetBlock \/ EndReplacing
  BY <1>2, StepPc DEF Locks, LockForChange, PrepareUpgrade, PrepareRemoval, SetBlock,
                      EndReplacing, EndChange, NoChange, Lockable
<1>3. CASE HookFails \/ CompleteChange \/ RemoveDatabaseLock
  BY <1>3 DEF Locks, HookFails, CompleteChange, RemoveDatabaseLock, EndChange, NoChange
<1>4. CASE Recover \/ RecoverInspect \/ RecoverFinish
  BY <1>4 DEF PackageTypeOK, Locks, Recover, RecoverInspect, RecoverFinish, Lockable
<1>5. CASE \/ ReplaceFiles \/ StartNetwork(incomplete) \/ StageNativeRuntime
           \/ copyRuntimeBinary \/ Serve \/ GatewayStops \/ StartWorker(incomplete)
           \/ WorkerEnds
  BY <1>5 DEF Locks, ReplaceFiles, StartNetwork, StageNativeRuntime, copyRuntimeBinary,
              Serve, GatewayStops, StartWorker, WorkerEnds, Shareable
<1> QED BY <1>1, <1>2, <1>3, <1>4, <1>5 DEF PackageNext

LEMMA AbortStep ==
  ASSUME PackageTypeOK, Locks, AbortChange
  PROVE  PackageTypeOK' /\ Locks' /\ configLock' = configLock
<1>1. package' \in Change /\ package'.pc = "idle" /\ package.pc \in {"replace", "post"}
  BY ChangeRecords DEF AbortChange, NoChange
<1>2. PackageTypeOK'
  BY <1>1 DEF PackageTypeOK, AbortChange
<1> QED BY <1>1, <1>2 DEF Locks, AbortChange

LEMMA PowerCutStep ==
  ASSUME PackageTypeOK, PowerCut
  PROVE  PackageTypeOK' /\ Locks' /\ configLock' = "none"
<1>1. package.database \in BOOLEAN
  BY DEF PackageTypeOK, Change
<1>2. package' \in Change /\ package'.pc = "idle" /\ gateway' \in Gateway
  BY <1>1, ChangeRecords DEF PowerCut, NoChange
<1>3. PackageTypeOK'
  BY <1>2 DEF PackageTypeOK, PowerCut
<1> QED BY <1>2, <1>3 DEF Locks, PowerCut

-----------------------------------------------------------------------------
(* Setups: types and locks.                                                *)

Things == {"inhibitor", "config", "profile", "runtime"}
Holds(x) == IF x = "inhibitor" THEN BOOLEAN ELSE Version

LEMMA DurablyDoes ==
  ASSUME FilesTypeOK, NEW x \in Things, NEW v \in Holds(x), Durably(x, v)
  PROVE  /\ FilesTypeOK' /\ now'[x] = v /\ disk'[x] = {v}
         /\ \A y \in Things \ {x} : now'[y] = now[y] /\ disk'[y] = disk[y]
BY DEF FilesTypeOK, Things, Holds, Durably

LEMMA UnsyncedDoes ==
  ASSUME FilesTypeOK, NEW x \in Things, NEW v \in Holds(x), Unsynced(x, v)
  PROVE  /\ FilesTypeOK' /\ now'[x] = v /\ disk'[x] = disk[x] \cup {v}
         /\ \A y \in Things \ {x} : now'[y] = now[y] /\ disk'[y] = disk[y]
BY DEF FilesTypeOK, Things, Holds, Unsynced
LEMMA NoHelperFields ==
  /\ NoHelper \in HelperRecord
  /\ NoHelper.pc = "none" /\ NoHelper.gen = None /\ ~NoHelper.prior
  /\ ~NoHelper.retain /\ ~NoHelper.acked
BY DEF HelperRecord, HelperPc, NoHelper

LEMMA HelperGoes ==
  ASSUME helper \in HelperRecord, NEW pc \in HelperPc,
         helper' = [helper EXCEPT !.pc = pc]
  PROVE  /\ helper' \in HelperRecord /\ helper'.pc = pc /\ helper'.ctx = helper.ctx
         /\ helper'.gen = helper.gen /\ helper'.prior = helper.prior
         /\ helper'.retain = helper.retain /\ helper'.acked = helper.acked
BY DEF HelperRecord

LEMMA HelperStages ==
  ASSUME helper \in HelperRecord, now.inhibitor \in BOOLEAN,
         helper' = [helper EXCEPT !.pc = "stage", !.prior = now.inhibitor]
  PROVE  /\ helper' \in HelperRecord /\ helper'.pc = "stage" /\ helper'.ctx = helper.ctx
         /\ helper'.gen = helper.gen /\ helper'.prior = now.inhibitor
         /\ helper'.retain = helper.retain /\ helper'.acked = helper.acked
BY DEF HelperRecord, HelperPc

LEMMA HelperRetains ==
  ASSUME helper \in HelperRecord,
         helper' = [helper EXCEPT !.pc = "commit", !.retain = TRUE]
  PROVE  /\ helper' \in HelperRecord /\ helper'.pc = "commit" /\ helper'.ctx = helper.ctx
         /\ helper'.gen = helper.gen /\ helper'.prior = helper.prior
         /\ helper'.retain /\ helper'.acked = helper.acked
BY DEF HelperRecord, HelperPc

LEMMA HelperHears ==
  ASSUME helper \in HelperRecord,
         \/ helper' = [helper EXCEPT !.ctx = "done"]
         \/ helper' = [helper EXCEPT !.acked = TRUE]
  PROVE  /\ helper' \in HelperRecord /\ helper'.pc = helper.pc
         /\ helper'.gen = helper.gen /\ helper'.prior = helper.prior
         /\ helper'.retain = helper.retain
         /\ helper' = [helper EXCEPT !.ctx = "done"] => helper'.acked = helper.acked
BY DEF HelperRecord

(* What moves the helper, seen from outside it.                            *)
LEMMA HelperMoves ==
  ASSUME TypeOK, Locks, Helper
  PROVE  /\ UNCHANGED <<worker, block, package, recovery, files, gateway, changes,
                        imported, desktop, setups>>
         /\ \/ Leave
            \/ /\ UNCHANGED configLock
               /\ \E pc \in HelperPc : /\ helper' = [helper EXCEPT !.pc = pc]
                                       /\ Excludes(pc) <=> Excludes(helper.pc)
            \/ /\ configLock = "none" /\ ~worker /\ configLock' = "setup"
               /\ helper' = [helper EXCEPT !.pc = "check"]
            \/ /\ UNCHANGED configLock /\ helper.pc = "inhibit"
               /\ helper' = [helper EXCEPT !.pc = "stage", !.prior = now.inhibitor]
            \/ /\ UNCHANGED configLock /\ helper.pc = "staged"
               /\ helper' = [helper EXCEPT !.pc = "commit", !.retain = TRUE]
            \/ UNCHANGED <<configLock, helper>>
<1> USE DEF helperOthers
<1>1. CASE ReadRequest \/ Generate \/ Staged \/ Check
  BY <1>1 DEF ReadRequest, Generate, Staged, Check, Goto, Excludes, HelperPc
<1>2. CASE HelperLock
  BY <1>2 DEF HelperLock, Lockable
<1>3. CASE Inhibit \/ StartTransaction
  BY <1>3 DEF Inhibit, StartTransaction
<1>4. CASE Publish
  BY <1>4 DEF Publish, NotPublished, PublishedWithError, Goto, Excludes, HelperPc
<1>5. CASE Committed \/ RolledBack
  BY <1>5 DEF Committed, RolledBack, Goto, Excludes, HelperPc
<1>6. CASE Select \/ readyAndWait \/ Clear
  BY <1>6 DEF Select, readyAndWait, Clear, Goto, Excludes, HelperPc
<1> QED BY <1>1, <1>2, <1>3, <1>4, <1>5, <1>6 DEF Helper
LEMMA FilesKept ==
  ASSUME FilesTypeOK, Unwritten
  PROVE  FilesTypeOK'
BY DEF FilesTypeOK, Unwritten

(* One thing is written, durably or not.                                   *)
Writes(x, v) == Durably(x, v) \/ Unsynced(x, v)

LEMMA WritesType ==
  ASSUME FilesTypeOK, NEW x \in Things, NEW v \in Holds(x), Writes(x, v)
  PROVE  FilesTypeOK'
BY DurablyDoes, UnsyncedDoes DEF Writes

(* What a helper may write.                                                *)
LEMMA HelperWrites ==
  ASSUME TypeOK, Helper
  PROVE  /\ \/ Unwritten
            \/ Writes("inhibitor", TRUE) \/ Writes("inhibitor", FALSE)
            \/ Writes("config", helper.gen) /\ helper.pc = "staged" /\ now.config # Foreign
            \/ Writes("runtime", now.config)
         /\ UNCHANGED child \/ child' = [child EXCEPT ![helper.gen].pc = "snapshot"]
         /\ UNCHANGED faults \/ \E h : Fault(h)
<1> USE DEF helperOthers, Writes
<1>1. CASE ReadRequest \/ Generate \/ Staged \/ Check \/ HelperLock
  BY <1>1 DEF ReadRequest, Generate, Staged, Check, HelperLock, Unwritten
<1>2. CASE Inhibit \/ StartTransaction
  BY <1>2 DEF Inhibit, StartTransaction, Unwritten
<1>3. CASE Publish
  BY <1>3 DEF Publish, NotPublished, PublishedWithError, replaceable
<1>4. CASE Committed \/ RolledBack
  BY <1>4 DEF Committed, RolledBack, Unwritten
<1>5. CASE Select \/ readyAndWait \/ Clear
  BY <1>5 DEF Select, readyAndWait, Clear, Unwritten
<1> QED BY <1>1, <1>2, <1>3, <1>4, <1>5 DEF Helper

LEMMA FilesTypes ==
  ASSUME FilesTypeOK
  PROVE  /\ now.inhibitor \in BOOLEAN /\ now.config \in Version /\ now.profile \in Version
         /\ disk.inhibitor \subseteq BOOLEAN /\ disk.config \subseteq Version
         /\ disk.profile \subseteq Version /\ disk.runtime \subseteq Version
         /\ now.inhibitor \in disk.inhibitor /\ now.config \in disk.config
         /\ now.profile \in disk.profile /\ now.runtime \in disk.runtime
BY DEF FilesTypeOK

LEMMA FaultStep ==
  ASSUME faults \in 0 .. MaxFaults, UNCHANGED faults \/ \E h : Fault(h)
  PROVE  faults' \in 0 .. MaxFaults
BY SetupShape DEF Fault

LEMMA HelperType ==
  ASSUME TypeOK, Locks, Helper
  PROVE  TypeOK' /\ Locks'
<1>1. FilesTypeOK'
  <2>1. /\ TRUE \in Holds("inhibitor") /\ FALSE \in Holds("inhibitor")
        /\ helper.gen \in Holds("config") /\ now.config \in Holds("runtime")
    BY FilesTypes DEF TypeOK, HelperRecord, Holds, Version
  <2>2. FilesTypeOK /\ {"inhibitor", "config", "runtime"} \subseteq Things
    BY DEF TypeOK, Things
  <2> QED BY <2>1, <2>2, HelperWrites, FilesKept, WritesType
<1>2. child' \in [Setups -> [pc : ChildPc, old : Version]] /\ faults' \in 0 .. MaxFaults
  BY HelperWrites, FaultStep DEF TypeOK, ChildPc
<1>3. /\ UNCHANGED <<worker, block, package, recovery, files, gateway, changes,
                     imported, desktop, setups>>
      /\ helper' \in HelperRecord
      /\ configLock' \in {"none", "package", "recovery", "setup"}
      /\ configLock' = "setup" <=> Excludes(helper'.pc)
      /\ \/ configLock' = configLock
         \/ configLock' = "setup" /\ configLock = "none" /\ ~worker
         \/ configLock' = "none" /\ configLock = "setup"
  <2>0. /\ helper \in HelperRecord /\ (configLock = "setup" <=> Excludes(helper.pc))
        /\ configLock \in {"none", "package", "recovery", "setup"}
        /\ now.inhibitor \in BOOLEAN
    BY FilesTypes DEF TypeOK, PackageTypeOK
  <2> DEFINE Moved ==
        /\ helper' \in HelperRecord
        /\ configLock' = "setup" <=> Excludes(helper'.pc)
        /\ \/ configLock' = configLock
           \/ configLock' = "setup" /\ configLock = "none" /\ ~worker
           \/ configLock' = "none" /\ configLock = "setup"
  <2>1. Leave => Moved
    BY <2>0, NoHelperFields DEF Leave, Excludes
  <2>2. ASSUME NEW pc \in HelperPc, helper' = [helper EXCEPT !.pc = pc],
               UNCHANGED configLock, Excludes(pc) <=> Excludes(helper.pc)
        PROVE  Moved
    BY <2>0, <2>2, HelperGoes
  <2>3. ASSUME configLock' = "setup", helper' = [helper EXCEPT !.pc = "check"],
               configLock = "none", ~worker
        PROVE  Moved
    <3>1. "check" \in HelperPc /\ Excludes("check")
      BY DEF HelperPc, Excludes
    <3> QED BY <2>0, <2>3, <3>1, HelperGoes
  <2>4. ASSUME UNCHANGED configLock, helper.pc = "inhibit",
               helper' = [helper EXCEPT !.pc = "stage", !.prior = now.inhibitor]
        PROVE  Moved
    <3>1. Excludes("inhibit") /\ Excludes("stage")
      BY DEF Excludes
    <3> QED BY <2>0, <2>4, <3>1, HelperStages
  <2>5. ASSUME UNCHANGED configLock, helper.pc = "staged",
               helper' = [helper EXCEPT !.pc = "commit", !.retain = TRUE]
        PROVE  Moved
    <3>1. Excludes("staged") /\ Excludes("commit")
      BY DEF Excludes
    <3> QED BY <2>0, <2>5, <3>1, HelperRetains
  <2>6. UNCHANGED <<configLock, helper>> => Moved
    BY <2>0
  <2>7. Moved
    <3> HIDE DEF Moved
    <3>1. CASE /\ UNCHANGED configLock
               /\ \E pc \in HelperPc : /\ helper' = [helper EXCEPT !.pc = pc]
                                       /\ Excludes(pc) <=> Excludes(helper.pc)
      BY <2>2, <3>1
    <3> QED BY <2>1, <2>3, <2>4, <2>5, <2>6, <3>1, HelperMoves
  <2> QED BY <2>0, <2>7, HelperMoves
<1> QED BY <1>1, <1>2, <1>3 DEF TypeOK, PackageTypeOK, Locks
(* A transaction writes the profile and nothing else.                      *)
LEMMA ChildWrites ==
  ASSUME TypeOK, NEW g \in Setups, Child(g) \/ KillChild(g)
  PROVE  /\ UNCHANGED <<packageVars, imported, helper, desktop, setups>>
         /\ \/ Unwritten
            \/ Writes("profile", g) \/ Writes("profile", child[g].old)
            \/ now' = now /\ disk' = [disk EXCEPT !.profile = @ \cup {g}]
         /\ \/ \E pc \in ChildPc : Becomes(g, pc)
            \/ child' = [child EXCEPT ![g] = [pc |-> "exchange", old |-> now.profile]]
         /\ UNCHANGED faults \/ \E h : Fault(h)
<1> USE DEF childOthers, Writes, Unwritten, ChildPc
<1>1. CASE Refuse(g) \/ Snapshot(g) \/ KillChild(g)
  BY <1>1 DEF Refuse, Snapshot, KillChild
<1>2. CASE Exchange(g)
  BY <1>2 DEF Exchange
<1>3. CASE Commit(g)
  BY <1>3 DEF Commit, Uncertain
<1>4. CASE RollbackAsked(g) \/ Interrupted(g)
  BY <1>4 DEF RollbackAsked, Interrupted, Rollback, Uncertain
<1> QED BY <1>1, <1>2, <1>3, <1>4 DEF Child

LEMMA ChildType ==
  ASSUME TypeOK, NEW g \in Setups, Child(g) \/ KillChild(g)
  PROVE  TypeOK'
<1>1. /\ g \in Holds("profile") /\ child[g].old \in Holds("profile")
      /\ "profile" \in Things /\ now.profile \in Version /\ g \in Version
  BY FilesTypes DEF TypeOK, Holds, Version, Things
<1>2. now' = now /\ disk' = [disk EXCEPT !.profile = @ \cup {g}] => FilesTypeOK'
  BY <1>1 DEF TypeOK, FilesTypeOK
<1>3. FilesTypeOK'
  BY <1>1, <1>2, ChildWrites, FilesKept, WritesType DEF TypeOK
<1>4. child' \in [Setups -> [pc : ChildPc, old : Version]]
  BY <1>1, ChildWrites DEF TypeOK, Becomes, ChildPc
<1>5. faults' \in 0 .. MaxFaults
  BY ChildWrites, FaultStep DEF TypeOK
<1> QED BY <1>3, <1>4, <1>5, ChildWrites DEF TypeOK, packageVars, PackageTypeOK

LEMMA SetupNumber ==
  Setups \subseteq Version /\ None \in Version /\ Foreign \in Version
  /\ \A g \in Setups : g # None /\ g # Foreign
BY DEF Version, Setups, None, Foreign

LEMMA DesktopType ==
  ASSUME TypeOK, BeginSetup \/ Desktop \/ DesktopCancelled \/ ContextDone
  PROVE  TypeOK' /\ UNCHANGED packageVars
<1>0. /\ helper \in HelperRecord /\ now.profile \in Version
      /\ (configLock = "setup" <=> Excludes(helper.pc))
  BY FilesTypes DEF TypeOK
<1>1. CASE BeginSetup
  <2>1. setups' \in 0 .. MaxSetups /\ setups' \in Setups
    BY <1>1, SetupShape DEF TypeOK, BeginSetup, Setups
  <2>2. helper' \in HelperRecord /\ helper'.pc = "request"
    BY <1>1, <2>1 DEF BeginSetup, NoHelper, HelperRecord, HelperPc
  <2> QED BY <1>0, <1>1, <2>1, <2>2
          DEF BeginSetup, TypeOK, packageVars, PackageTypeOK, FilesTypeOK, Excludes
<1>2. CASE DesktopReady \/ Finalize \/ DesktopExits
  BY <1>0, <1>2 DEF DesktopReady, Finalize, DesktopExits, desktopOthers, TypeOK, packageVars,
                    PackageTypeOK, FilesTypeOK, Excludes
<1>3. CASE Acknowledge
  <2>1. helper' \in HelperRecord /\ helper'.pc = helper.pc
    BY <1>0, <1>3, HelperHears DEF Acknowledge
  <2> QED BY <1>0, <1>3, <2>1
          DEF Acknowledge, desktopOthers, TypeOK, packageVars, PackageTypeOK, FilesTypeOK,
              Excludes
<1>4. CASE DesktopCancelled
  <2>1. faults' \in 0 .. MaxFaults
    BY <1>4, FaultStep DEF DesktopCancelled, TypeOK
  <2> QED BY <1>0, <1>4, <2>1
          DEF DesktopCancelled, TypeOK, packageVars, PackageTypeOK, FilesTypeOK, Excludes
<1>5. CASE ContextDone
  <2>1. faults' \in 0 .. MaxFaults
    BY <1>5, FaultStep DEF ContextDone, TypeOK
  <2>2. helper' \in HelperRecord /\ helper'.pc = helper.pc
    BY <1>0, <1>5, HelperHears DEF ContextDone
  <2> QED BY <1>0, <1>5, <2>1, <2>2
          DEF ContextDone, helperOthers, TypeOK, packageVars, PackageTypeOK, FilesTypeOK,
              Excludes
<1> QED BY <1>1, <1>2, <1>3, <1>4, <1>5 DEF Desktop
LEMMA FaultType ==
  ASSUME TypeOK, Locks, KillHelper \/ EditProfile \/ EditConfig \/ Abort
  PROVE  TypeOK' /\ Locks'
<1>0. faults' \in 0 .. MaxFaults
  BY FaultStep DEF KillHelper, EditProfile, EditConfig, Abort, TypeOK
<1>1. CASE KillHelper
  <2>1. /\ helper' \in HelperRecord /\ helper'.pc = "none"
        /\ configLock' = IF configLock = "setup" THEN "none" ELSE configLock
    BY <1>1, NoHelperFields DEF KillHelper, Leave
  <2> QED BY <1>0, <1>1, <2>1
          DEF KillHelper, helperOthers, TypeOK, PackageTypeOK, FilesTypeOK, Locks, Excludes
<1>2. CASE EditProfile \/ EditConfig
  <2>1. Foreign \in Holds("profile") /\ Foreign \in Holds("config")
        /\ {"profile", "config"} \subseteq Things
    BY DEF Holds, Version, Things
  <2>2. FilesTypeOK'
    BY <1>2, <2>1, WritesType DEF EditProfile, EditConfig, TypeOK, Writes
  <2> QED BY <1>0, <1>2, <2>2
          DEF EditProfile, EditConfig, packageVars, TypeOK, PackageTypeOK, Locks
<1>3. CASE Abort
  BY <1>0, <1>3, AbortStep DEF Abort, TypeOK, FilesTypeOK
<1> QED BY <1>1, <1>2, <1>3

LEMMA CutType ==
  ASSUME TypeOK, Locks, Cut
  PROVE  TypeOK' /\ Locks'
<1>1. FilesTypeOK'
  <2>1. now' \in [inhibitor : disk.inhibitor, config : disk.config,
                 profile : disk.profile, runtime : disk.runtime]
    BY DEF Cut
  <2>2. now' \in [inhibitor : BOOLEAN, config : Version, profile : Version,
                 runtime : Version]
    BY <2>1, FilesTypes DEF TypeOK
  <2>3. DOMAIN now = Things
    BY DEF TypeOK, FilesTypeOK, Things
  <2>4. disk' = [x \in Things |-> {now'[x]}]
    BY <2>3 DEF Cut
  <2>5. disk' \in [inhibitor : SUBSET BOOLEAN, config : SUBSET Version,
                  profile : SUBSET Version, runtime : SUBSET Version]
    BY <2>2, <2>4 DEF Things
  <2> QED BY <2>2, <2>4, <2>5 DEF FilesTypeOK, Things
<1>2. child' \in [Setups -> [pc : ChildPc, old : Version]]
  BY DEF Cut, TypeOK, ChildPc
<1>3. helper' \in HelperRecord /\ ~Excludes(helper'.pc)
  BY NoHelperFields DEF Cut, Excludes
<1>4. faults' \in 0 .. MaxFaults
  BY FaultStep DEF Cut, TypeOK
<1> QED BY <1>1, <1>2, <1>3, <1>4, PowerCutStep DEF Cut, TypeOK

LEMMA TypeInitially == Init => TypeOK /\ Locks
<1> SUFFICES ASSUME Init PROVE TypeOK /\ Locks
  OBVIOUS
<1>1. PackageTypeOK
  <2>1. package \in Change /\ gateway \in Gateway
    BY ChangeRecords DEF Init, PackageInit
  <2>2. files \in [Files -> Packages \cup {Absent}]
    BY PackageShape DEF Init, PackageInit
  <2>3. changes \in 0 .. MaxChanges
    BY PackageShape DEF Init, PackageInit
  <2> QED BY <2>1, <2>2, <2>3 DEF PackageTypeOK, Init, PackageInit
<1>2. PICK v \in {None, 1} :
        /\ now = [inhibitor |-> FALSE, config |-> v, profile |-> v, runtime |-> v]
        /\ imported = v /\ setups = v
  BY DEF Init
<1>3. v \in Version /\ v \in 0 .. MaxSetups
  BY SetupShape DEF Version, Setups, None
<1>4. FilesTypeOK
  <2>1. disk = [x \in Things |-> {now[x]}]
    BY <1>2 DEF Init, Things
  <2>2. now \in [inhibitor : BOOLEAN, config : Version, profile : Version,
                runtime : Version]
    BY <1>2, <1>3
  <2>3. disk \in [inhibitor : SUBSET BOOLEAN, config : SUBSET Version,
                 profile : SUBSET Version, runtime : SUBSET Version]
    BY <2>1, <2>2 DEF Things
  <2> QED BY <2>1, <2>2, <2>3 DEF FilesTypeOK, Things
<1>5. helper \in HelperRecord /\ ~Excludes(helper.pc)
  BY NoHelperFields DEF Init, Excludes
<1>6. child \in [Setups -> [pc : ChildPc, old : Version]]
  BY DEF Init, ChildPc, Version
<1>7. faults \in 0 .. MaxFaults
  BY SetupShape DEF Init
<1> QED BY <1>1, <1>2, <1>3, <1>4, <1>5, <1>6, <1>7
        DEF Init, PackageInit, NoChange, TypeOK, Locks

LEMMA TypeStep ==
  TypeOK /\ Locks /\ [Next]_vars => TypeOK' /\ Locks'
<1> SUFFICES ASSUME TypeOK, Locks, [Next]_vars PROVE TypeOK' /\ Locks'
  OBVIOUS
<1>1. CASE PackageNext(now.inhibitor) /\ UNCHANGED setupVars
  BY <1>1, PackageTypeStep, PackageLockStep DEF TypeOK, setupVars, FilesTypeOK
<1>2. CASE BeginSetup \/ Desktop \/ DesktopCancelled \/ ContextDone
  BY <1>2, DesktopType DEF Locks, packageVars
<1>3. CASE \E g \in Setups : Child(g) \/ KillChild(g)
  BY <1>3, ChildType, ChildWrites DEF Locks, packageVars
<1>4. CASE UNCHANGED vars
  BY <1>4 DEF vars, packageVars, setupVars, TypeOK, PackageTypeOK, FilesTypeOK, Locks
<1> QED BY <1>1, <1>2, <1>3, <1>4, HelperType, FaultType, CutType DEF Next

(* Every variable keeps its type, and the configuration lock is the        *)
(* setup's exactly from its check on until its helper is gone, whoever is  *)
(* killed (configureNativeInstallation).                                   *)
THEOREM TypeCorrect == Spec => []TypeOK
<1>1. TypeOK /\ Locks /\ [Next]_vars => (TypeOK /\ Locks)'
  BY TypeStep
<1> QED BY <1>1, TypeInitially, PTL DEF Spec

(* The configuration lock has one holder, and no worker beside it          *)
(* (acquireNativeConfigurationLock).                                       *)
THEOREM LocksInvariant == Spec => []Locks
<1>1. TypeOK /\ Locks /\ [Next]_vars => (TypeOK /\ Locks)'
  BY TypeStep
<1> QED BY <1>1, TypeInitially, PTL DEF Spec
-----------------------------------------------------------------------------
(* The configuration and what runs.                                        *)

(* Where a helper goes on to, and what it has seen.                        *)
LEMMA HelperPaths ==
  ASSUME TypeOK, Helper, helper'.pc # "none"
  PROVE  /\ helper'.gen = helper.gen /\ helper.pc # "none"
         /\ helper'.acked = helper.acked
         /\ helper.pc # "inhibit" => helper'.prior = helper.prior
         /\ \/ UNCHANGED helper /\ helper.pc = "stage"
            \/ helper.pc = "request" /\ helper'.pc = "lock"
            \/ helper.pc = "lock" /\ helper'.pc = "check"
            \/ helper.pc = "check" /\ helper'.pc = "generate" /\ ~block
            \/ helper.pc = "generate" /\ helper'.pc = "recheck"
            \/ /\ helper.pc = "recheck" /\ helper'.pc = "inhibit" /\ ~gateway.network
               /\ unanswered = {} \/ "stall" \in Hazards
            \/ helper.pc = "inhibit" /\ helper'.pc = "stage" /\ helper'.prior = now.inhibitor
            \/ helper.pc = "stage" /\ helper'.pc = "staged" /\ mine.pc = "ready"
            \/ helper.pc = "staged" /\ helper'.pc \in {"commit", "rollback"}
            \/ /\ helper.pc = "commit" /\ helper'.pc = "select"
               /\ mine.pc = "committed" /\ ~helper.retain
            \/ helper.pc = "select" /\ helper'.pc = "ready"
            \/ helper.pc = "ready" /\ helper'.pc = "wait"
            \/ helper.pc = "wait" /\ helper'.pc = "clear" /\ helper.acked
<1>0. helper \in HelperRecord /\ now.inhibitor \in BOOLEAN /\ ~Leave
  BY FilesTypes, NoHelperFields DEF TypeOK, Leave
<1>1. CASE ReadRequest
  <2>1. helper' = [helper EXCEPT !.pc = "lock"] /\ helper.pc = "request"
    BY <1>0, <1>1 DEF ReadRequest, Goto
  <2> QED BY <1>0, <2>1, HelperGoes DEF HelperPc
<1>2. CASE HelperLock
  <2>1. helper' = [helper EXCEPT !.pc = "check"] /\ helper.pc = "lock"
    BY <1>0, <1>2 DEF HelperLock
  <2> QED BY <1>0, <2>1, HelperGoes DEF HelperPc
<1>3. CASE Check
  <2>1. PICK pc \in {"generate", "inhibit"} :
          /\ helper' = [helper EXCEPT !.pc = pc]
          /\ pc = "generate" => helper.pc = "check" /\ ~block
          /\ pc = "inhibit" => /\ helper.pc = "recheck" /\ ~gateway.network
                               /\ unanswered = {} \/ "stall" \in Hazards
    BY <1>0, <1>3 DEF Check, Goto
  <2> QED BY <1>0, <2>1, HelperGoes DEF HelperPc
<1>4. CASE Generate
  <2>1. helper' = [helper EXCEPT !.pc = "recheck"] /\ helper.pc = "generate"
    BY <1>0, <1>4 DEF Generate, Goto
  <2> QED BY <1>0, <2>1, HelperGoes DEF HelperPc
<1>5. CASE Inhibit
  <2>1. helper' = [helper EXCEPT !.pc = "stage", !.prior = now.inhibitor]
        /\ helper.pc = "inhibit"
    BY <1>0, <1>5 DEF Inhibit
  <2> QED BY <1>0, <2>1, HelperStages
<1>6. CASE StartTransaction
  BY <1>6 DEF StartTransaction
<1>7. CASE Staged
  <2>1. helper' = [helper EXCEPT !.pc = "staged"] /\ helper.pc = "stage" /\ mine.pc = "ready"
    BY <1>0, <1>7 DEF Staged, Goto
  <2> QED BY <1>0, <2>1, HelperGoes DEF HelperPc
<1>8. CASE Publish
  <2>1. /\ helper.pc = "staged"
        /\ \/ \E pc \in {"commit", "rollback"} : helper' = [helper EXCEPT !.pc = pc]
           \/ helper' = [helper EXCEPT !.pc = "commit", !.retain = TRUE]
    BY <1>8 DEF Publish, NotPublished, PublishedWithError, Goto
  <2> QED BY <1>0, <2>1, HelperGoes, HelperRetains DEF HelperPc
<1>9. CASE Committed
  <2>1. /\ helper' = [helper EXCEPT !.pc = "select"] /\ helper.pc = "commit"
        /\ mine.pc = "committed" /\ ~helper.retain
    BY <1>0, <1>9 DEF Committed, Goto
  <2> QED BY <1>0, <2>1, HelperGoes DEF HelperPc
<1>10. CASE RolledBack \/ Clear
  BY <1>0, <1>10 DEF RolledBack, Clear
<1>11. CASE Select
  <2>1. helper' = [helper EXCEPT !.pc = "ready"] /\ helper.pc = "select"
    BY <1>0, <1>11 DEF Select, Goto
  <2> QED BY <1>0, <2>1, HelperGoes DEF HelperPc
<1>12. CASE readyAndWait
  <2>1. PICK pc \in {"wait", "clear"} :
          /\ helper' = [helper EXCEPT !.pc = pc]
          /\ pc = "wait" => helper.pc = "ready"
          /\ pc = "clear" => helper.pc = "wait" /\ helper.acked
    BY <1>0, <1>12 DEF readyAndWait, Goto
  <2> QED BY <1>0, <2>1, HelperGoes DEF HelperPc
<1> QED BY <1>1, <1>2, <1>3, <1>4, <1>5, <1>6, <1>7, <1>8, <1>9, <1>10, <1>11, <1>12
        DEF Helper

(* What a package change, a start and a recovery may do beside a setup.    *)
LEMMA PackageHeld ==
  ASSUME PackageTypeOK, Locks, configLock = "setup", NEW incomplete,
         PackageNext(incomplete)
  PROVE  (block' => block) /\ (gateway'.network => gateway.network)
<1>1. CASE BeginChange \/ LockForChange \/ HookFails \/ PrepareUpgrade \/ ReplaceFiles
             \/ EndReplacing \/ RemoveDatabaseLock \/ StartWorker(incomplete) \/ WorkerEnds
             \/ Recover \/ RecoverInspect
  BY <1>1 DEF BeginChange, LockForChange, HookFails, PrepareUpgrade, ReplaceFiles,
              EndReplacing, RemoveDatabaseLock, StartWorker, WorkerEnds, Recover,
              RecoverInspect
<1>2. CASE SetBlock \/ CompleteChange \/ RecoverFinish \/ PrepareRemoval
             \/ StartNetwork(incomplete)
  <2>1. package.pc \notin {"prepare", "mark"} /\ recovery # "finish"
    BY DEF Locks
  <2>2. ~SetBlock /\ ~RecoverFinish /\ ~PrepareRemoval
    BY <2>1 DEF SetBlock, RecoverFinish, PrepareRemoval
  <2>3. ~CompleteChange
    BY DEF CompleteChange, Lockable
  <2>4. ~StartNetwork(incomplete)
    BY DEF StartNetwork, Shareable
  <2> QED BY <1>2, <2>2, <2>3, <2>4
<1>3. CASE StageNativeRuntime \/ copyRuntimeBinary \/ Serve
  <2>1. gateway \in Gateway
    BY DEF PackageTypeOK
  <2>2. gateway'.network = gateway.network /\ UNCHANGED block
    BY <1>3, <2>1 DEF Gateway, StageNativeRuntime, copyRuntimeBinary, Serve
  <2> QED BY <2>2
<1>4. CASE GatewayStops
  <2>1. \E up \in BOOLEAN : gateway' = [Stopped EXCEPT !.network = up]
        /\ gateway.network /\ UNCHANGED block
    BY <1>4 DEF GatewayStops
  <2> QED BY <2>1
<1> QED BY <1>1, <1>2, <1>3, <1>4 DEF PackageNext

LEMMA SetupHoldsStep ==
  TypeOK /\ Locks /\ SetupHolds /\ [Next]_vars => SetupHolds'
<1> SUFFICES ASSUME TypeOK, Locks, SetupHolds, [Next]_vars PROVE SetupHolds'
  OBVIOUS
<1> DEFINE Held == {"generate", "recheck", "inhibit"} \cup Inhibiting
<1>0. helper.pc \in Held => configLock = "setup"
  BY DEF TypeOK, Excludes, Inhibiting
<1>1. CASE PackageNext(now.inhibitor) /\ UNCHANGED setupVars
  BY <1>0, <1>1, PackageHeld DEF SetupHolds, setupVars, TypeOK, Inhibiting
<1>2. CASE Helper
  <2>1. UNCHANGED <<block, gateway>>
    BY <1>2, HelperMoves
  <2>2. CASE helper'.pc = "none"
    BY <2>2 DEF SetupHolds, Inhibiting
  <2>3. CASE helper'.pc # "none"
    BY <1>2, <2>1, <2>3, HelperPaths DEF SetupHolds, Inhibiting
  <2> QED BY <2>2, <2>3
<1>3. CASE BeginSetup
  <2>1. setups' \in Setups
    BY <1>3, SetupShape DEF TypeOK, BeginSetup, Setups
  <2>2. helper'.pc = "request" /\ helper'.gen = setups'
    BY <1>3 DEF BeginSetup, NoHelper
  <2> QED BY <2>1, <2>2 DEF SetupHolds, Inhibiting
<1>4. CASE Desktop \/ DesktopCancelled \/ ContextDone
  <2>1. UNCHANGED packageVars
    BY <1>4, DesktopType
  <2>2. helper'.pc = helper.pc /\ helper'.gen = helper.gen
    BY <1>4, HelperHears DEF TypeOK, Desktop, DesktopReady, Finalize, Acknowledge,
       DesktopExits, DesktopCancelled, ContextDone
  <2> QED BY <2>1, <2>2 DEF SetupHolds, packageVars
<1>5. CASE \E g \in Setups : Child(g) \/ KillChild(g)
  BY <1>5, ChildWrites DEF SetupHolds, packageVars
<1>6. CASE KillHelper \/ Cut
  BY <1>6, NoHelperFields DEF KillHelper, Leave, Cut, SetupHolds, Inhibiting
<1>7. CASE EditProfile \/ EditConfig \/ Abort \/ UNCHANGED vars
  BY <1>7 DEF EditProfile, EditConfig, Abort, AbortChange, vars, setupVars, packageVars,
              SetupHolds
<1> QED BY <1>1, <1>2, <1>3, <1>4, <1>5, <1>6, <1>7 DEF Next

(* A helper past its checks has the block lifted, and, until it selects,   *)
(* the network down (configureNativeInstallation).                         *)
THEOREM SetupHoldsInvariant == Spec => []SetupHolds
<1>1. Init => SetupHolds
  BY NoHelperFields DEF Init, SetupHolds, Inhibiting
<1>2. TypeOK /\ Locks /\ SetupHolds /\ [Next]_vars => SetupHolds'
  BY SetupHoldsStep
<1> QED BY <1>1, <1>2, TypeCorrect, LocksInvariant, PTL DEF Spec

(* No setup replaces the root configuration under a running network,       *)
(* gateway or worker, nor while the package's files are replaced, even if  *)
(* a hazard of the package change strikes (configLock, inactive).          *)
THEOREM ConfigIsStable == Spec => ConfigStable
<1>1. TypeOK /\ Locks /\ SetupHolds /\ [Next]_vars
        => [now'.config \notin {now.config, Foreign} \cup disk.config =>
              ~gateway.network /\ ~worker /\ ~(block /\ package.pc = "replace")]_vars
  <2> SUFFICES ASSUME TypeOK, Locks, SetupHolds, Next,
                      now'.config \notin {now.config, Foreign} \cup disk.config
               PROVE  ~gateway.network /\ ~worker /\ ~block
    OBVIOUS
  <2>0. FilesTypeOK /\ {"inhibitor", "config", "profile", "runtime"} = Things
    BY DEF TypeOK, Things
  <2>1. Helper
    <3>1. CASE PackageNext(now.inhibitor) /\ UNCHANGED setupVars
      BY <3>1 DEF setupVars
    <3>2. CASE BeginSetup \/ Desktop \/ DesktopCancelled \/ ContextDone \/ KillHelper \/ Abort
      BY <3>2 DEF BeginSetup, Desktop, DesktopReady, Finalize, Acknowledge, DesktopExits,
           DesktopCancelled, ContextDone, KillHelper, Abort, desktopOthers
    <3>3. CASE \E g \in Setups : Child(g) \/ KillChild(g)
      <4>1. PICK g \in Setups : Child(g) \/ KillChild(g)
        BY <3>3
      <4>2. g \in Holds("profile") /\ child[g].old \in Holds("profile")
        BY DEF TypeOK, Holds, Version
      <4> QED BY <2>0, <4>1, <4>2, ChildWrites, DurablyDoes, UnsyncedDoes
              DEF Writes, Unwritten
    <3>4. CASE EditProfile \/ EditConfig
      <4>1. Foreign \in Holds("profile") /\ Foreign \in Holds("config")
        BY DEF Holds, Version
      <4> QED BY <2>0, <3>4, <4>1, UnsyncedDoes DEF EditProfile, EditConfig
    <3>5. CASE Cut
      BY <3>5 DEF Cut
    <3> QED BY <3>1, <3>2, <3>3, <3>4, <3>5 DEF Next
  <2>2. helper.pc = "staged"
    <3>1. /\ TRUE \in Holds("inhibitor") /\ FALSE \in Holds("inhibitor")
          /\ helper.gen \in Holds("config") /\ now.config \in Holds("runtime")
      BY FilesTypes DEF TypeOK, HelperRecord, Holds, Version
    <3> QED BY <2>0, <2>1, <3>1, HelperWrites, DurablyDoes, UnsyncedDoes
            DEF Writes, Unwritten
  <2> QED BY <2>2 DEF TypeOK, Excludes, Locks, SetupHolds, Inhibiting
<1> QED BY <1>1, TypeCorrect, LocksInvariant, SetupHoldsInvariant, PTL
        DEF Spec, ConfigStable
-----------------------------------------------------------------------------
(* Package changes and what runs.                                          *)

LEMMA LiftedMeans ==
  ASSUME PackageTypeOK, ~lifted, block
  PROVE  /\ whole
         /\ \/ gateway.pc = "inactive"
            \/ gateway.pc = "active" /\ Contract[gateway.cli] = Contract[files["cli"]]
BY DEF lifted, contractHolds

(* Steps that change nothing of a package change but who holds the lock.   *)
LEMMA PackageAside ==
  ASSUME PackageInv, UNCHANGED <<block, package, recovery, files, gateway>>,
         worker' => worker \/ ~block
  PROVE  PackageInv'
BY DEF PackageInv, Changes, Blocked, Runs, whole, installed

(* The fields of the package manager's change after a step of it.          *)
LEMMA ChangeFields ==
  ASSUME PackageTypeOK
  PROVE  /\ \A pc : Step(pc) => /\ package'.pc = pc /\ package'.kind = package.kind
                                /\ package'.new = package.new
                                /\ package'.database = package.database
         /\ EndChange => package'.pc = "idle" /\ package'.kind = "none"
         /\ package.database \in BOOLEAN
         /\ package.pc \in {"idle", "hook", "prepare", "mark", "replace", "post"}
         /\ package.kind \in {"none", "install", "upgrade", "remove"}
<1>1. package \in Change
  BY DEF PackageTypeOK
<1>2. \A pc : Step(pc) => /\ package'.pc = pc /\ package'.kind = package.kind
                         /\ package'.new = package.new
                         /\ package'.database = package.database
  BY <1>1 DEF Change, Step
<1>3. EndChange => package'.pc = "idle" /\ package'.kind = "none"
  BY DEF EndChange, NoChange
<1> QED BY <1>1, <1>2, <1>3 DEF Change

LEMMA BeginStep ==
  ASSUME PackageTypeOK, PackageInv, BeginChange
  PROVE  PackageInv'
<1> USE DEF PackageInv, whole, installed, Files
<1>1. PICK v \in (Packages \cup {Absent}) \ {files["cli"]} :
        package' = [pc   |-> IF installed THEN "hook" ELSE "replace",
                    kind |-> IF ~installed THEN "install"
                             ELSE IF v = Absent THEN "remove" ELSE "upgrade",
                    new  |-> v, database |-> TRUE]
  BY DEF BeginChange
<1>2. /\ package.pc = "idle" /\ package.kind = "none"
      /\ UNCHANGED <<worker, block, recovery, files, gateway>>
  BY DEF BeginChange, Changes
<1>3. CASE installed
  <2>1. /\ package'.pc = "hook" /\ package'.kind \in {"upgrade", "remove"}
        /\ package'.database
    BY <1>1, <1>3
  <2> QED BY <1>2, <2>1 DEF Changes, Blocked, Runs
<1>4. CASE ~installed
  <2>1. /\ package'.pc = "replace" /\ package'.kind = "install" /\ package'.new = v
        /\ v # Absent /\ package'.database
    BY <1>1, <1>4
  <2>2. ~block => files["cli"] = files["proxy"]
    BY <1>2 DEF Blocked
  <2>3. Changes' /\ Runs'
    BY <1>2, <2>1 DEF Changes, Runs
  <2>4. Blocked'
    BY <1>2, <1>4, <2>1, <2>2 DEF Blocked
  <2> QED BY <2>3, <2>4
<1> QED BY <1>3, <1>4

(* The hooks up to the block, which a start that looked before it cannot   *)
(* pass (the hazard "window").                                             *)
LEMMA HookStep ==
  ASSUME PackageTypeOK, Locks, PackageInv,
         LockForChange \/ HookFails \/ PrepareUpgrade \/ PrepareRemoval \/ SetBlock
  PROVE  PackageInv'
<1> USE DEF PackageInv, whole, installed
<1>1. CASE LockForChange
  <2>1. package'.pc = "prepare" /\ package'.kind = package.kind /\ package'.new = package.new
        /\ package'.database = package.database /\ package.pc = "hook"
    BY <1>1, ChangeFields DEF LockForChange
  <2>2. recovery # "finish" /\ UNCHANGED <<worker, block, recovery, files, gateway>>
    BY <1>1 DEF LockForChange, Lockable, Locks
  <2> QED BY <2>1, <2>2 DEF Changes, Blocked, Runs
<1>2. CASE HookFails
  <2>1. package'.pc = "idle" /\ package'.kind = "none" /\ package.pc \in {"hook", "prepare"}
        /\ UNCHANGED <<worker, block, recovery, files, gateway>>
    BY <1>2, ChangeFields DEF HookFails
  <2> QED BY <2>1 DEF Changes, Blocked, Runs
<1>3. CASE PrepareUpgrade
  <2>1. package'.pc = "mark" /\ package'.kind = package.kind /\ package'.new = package.new
        /\ package'.database = package.database /\ package.pc = "prepare"
        /\ UNCHANGED <<worker, block, recovery, files, gateway>>
    BY <1>3, ChangeFields DEF PrepareUpgrade
  <2>2. gateway.pc \notin {"staging", "staged"}
    BY <1>3 DEF PrepareUpgrade, contractHolds
  <2> QED BY <2>1, <2>2 DEF Changes, Blocked, Runs
<1>4. CASE PrepareRemoval
  <2>1. package'.pc = "mark" /\ package'.kind = package.kind /\ package'.new = package.new
        /\ package'.database = package.database /\ package.pc = "prepare"
        /\ UNCHANGED <<worker, block, recovery, files>>
    BY <1>4, ChangeFields DEF PrepareRemoval
  <2>2. gateway'.pc = "inactive"
    BY <1>4 DEF PrepareRemoval, Stopped
  <2> QED BY <2>1, <2>2 DEF Changes, Blocked, Runs
<1>5. CASE SetBlock
  <2>1. package'.pc = "replace" /\ package'.kind = package.kind /\ package'.new = package.new
        /\ package'.database = package.database /\ package.pc = "mark" /\ block'
        /\ UNCHANGED <<worker, recovery, files, gateway>>
    BY <1>5, ChangeFields DEF SetBlock
  <2>2. ~worker /\ package.kind \in {"upgrade", "remove"} /\ recovery = "idle"
    BY <2>1 DEF Locks, Changes
  <2>3. gateway.pc \notin {"staging", "staged"}
    BY <2>1, <2>2 DEF Runs
  <2> QED BY <2>1, <2>2, <2>3 DEF Changes, Blocked, Runs
<1> QED BY <1>1, <1>2, <1>3, <1>4, <1>5

LEMMA ReplaceStep ==
  ASSUME PackageTypeOK, PackageInv, ReplaceFiles
  PROVE  PackageInv'
<1> USE DEF PackageInv, whole, installed
<1>1. PICK f \in Files : files[f] # package.new /\ files' = [files EXCEPT ![f] = package.new]
  BY DEF ReplaceFiles
<1>2. /\ package.pc = "replace" /\ UNCHANGED <<worker, block, package, recovery, gateway>>
      /\ f = "cli" \/ f = "proxy"
  BY DEF ReplaceFiles, Files
<1>3. \A g \in Files : files'[g] = IF g = f THEN package.new ELSE files[g]
  BY <1>1 DEF PackageTypeOK
<1>4. Changes'
  BY <1>2 DEF Changes
<1>5. Blocked'
  BY <1>2, <1>3 DEF Blocked, Files
<1>6. Runs'
  <2>1. CASE block
    BY <1>2, <2>1 DEF Runs
  <2>2. CASE ~block
    <3>1. /\ package.kind = "install" /\ package.new # Absent
          /\ files["cli"] \in {Absent, package.new}
          /\ files["proxy"] \in {Absent, package.new}
      BY <1>2, <2>2 DEF Blocked, Changes
    <3>2. files[f] = Absent
      BY <1>1, <1>2, <3>1
    <3> QED BY <1>2, <1>3, <2>2, <3>1, <3>2 DEF Runs, Files
  <2> QED BY <2>1, <2>2
<1> QED BY <1>4, <1>5, <1>6

(* The end of a change, by the package manager or by its death.            *)
LEMMA EndStep ==
  ASSUME PackageTypeOK, PackageInv,
         \/ EndReplacing \/ CompleteChange \/ RemoveDatabaseLock
         \/ AbortChange /\ "torn" \notin Hazards
  PROVE  PackageInv'
<1> USE DEF PackageInv, whole, installed
<1>1. CASE EndReplacing
  <2>1. /\ package.pc = "replace" /\ UNCHANGED <<worker, block, recovery, files, gateway>>
        /\ files["cli"] = files["proxy"]
    BY <1>1 DEF EndReplacing
  <2>2. CASE installed
    <3>1. package'.pc = "post" /\ package'.kind = package.kind /\ package'.new = package.new
          /\ package'.database = package.database
      BY <1>1, <2>2, ChangeFields DEF EndReplacing
    <3> QED BY <2>1, <2>2, <3>1 DEF Changes, Blocked, Runs
  <2>3. CASE ~installed
    <3>1. package'.pc = "idle" /\ package'.kind = "none"
      BY <1>1, <2>3, ChangeFields DEF EndReplacing
    <3> QED BY <2>1, <2>3, <3>1 DEF Changes, Blocked, Runs
  <2> QED BY <2>2, <2>3
<1>2. CASE CompleteChange
  <2>1. /\ package'.pc = "idle" /\ package'.kind = "none" /\ package.pc = "post"
        /\ block' = lifted /\ UNCHANGED <<worker, recovery, files, gateway>>
    BY <1>2, ChangeFields DEF CompleteChange
  <2>2. Changes' /\ Blocked'
    BY <2>1 DEF Changes, Blocked
  <2>3. Runs'
    <3>1. CASE block /\ ~block'
      BY <2>1, <3>1, LiftedMeans DEF Runs
    <3>2. CASE ~(block /\ ~block')
      BY <2>1, <3>2 DEF Runs, lifted
    <3> QED BY <3>1, <3>2
  <2> QED BY <2>2, <2>3
<1>3. CASE RemoveDatabaseLock
  <2>1. package'.pc = "idle" /\ package'.kind = "none" /\ package.pc = "idle"
        /\ UNCHANGED <<worker, block, recovery, files, gateway>>
    BY <1>3, ChangeFields DEF RemoveDatabaseLock
  <2> QED BY <2>1 DEF Changes, Blocked, Runs
<1>4. CASE AbortChange /\ "torn" \notin Hazards
  <2>1. /\ package'.pc = "idle" /\ package'.kind = "none"
        /\ package.pc \in {"replace", "post"}
        /\ package.kind = "install" => whole
        /\ UNCHANGED <<worker, block, recovery, files, gateway>>
    BY <1>4 DEF AbortChange, NoChange
  <2> QED BY <2>1 DEF Changes, Blocked, Runs
<1> QED BY <1>1, <1>2, <1>3, <1>4

LEMMA RecoveryStep ==
  ASSUME PackageTypeOK, PackageInv, Recover \/ RecoverInspect \/ RecoverFinish
  PROVE  PackageInv'
<1> USE DEF PackageInv, whole, installed
<1>1. CASE Recover \/ RecoverInspect
  <2>1. /\ UNCHANGED <<worker, block, package, files, gateway>>
        /\ recovery' = "finish" => ~package.database
    BY <1>1 DEF Recover, RecoverInspect
  <2> QED BY <2>1 DEF Changes, Blocked, Runs
<1>2. CASE RecoverFinish
  <2>1. /\ recovery = "finish" /\ recovery' = "idle" /\ block' = lifted
        /\ UNCHANGED <<worker, package, files, gateway>>
    BY <1>2 DEF RecoverFinish
  <2>2. package.pc \in {"idle", "hook"} \/ package.kind = "install"
    BY <2>1 DEF Changes
  <2>3. CASE block /\ ~block'
    <3>1. /\ whole /\ gateway.pc \notin {"staging", "staged"}
          /\ gateway.pc = "active" => Contract[gateway.cli] = Contract[files["cli"]]
      BY <2>1, <2>3, LiftedMeans
    <3>2. Changes' /\ Runs'
      BY <2>1, <3>1 DEF Changes, Runs
    <3>3. Blocked'
      BY <2>1, <2>2, <3>1 DEF Blocked
    <3> QED BY <3>2, <3>3
  <2>4. CASE ~(block /\ ~block')
    <3>1. block' = block
      BY <2>1, <2>4 DEF lifted, PackageTypeOK
    <3> QED BY <2>1, <3>1 DEF Changes, Blocked, Runs
  <2> QED BY <2>3, <2>4
<1> QED BY <1>1, <1>2

(* Starts, and the gateway's own steps.                                    *)
LEMMA StartStep ==
  ASSUME "window" \notin Hazards, PackageTypeOK, PackageInv, NEW incomplete,
         \/ StartNetwork(incomplete) \/ StageNativeRuntime \/ copyRuntimeBinary \/ Serve
         \/ GatewayStops \/ StartWorker(incomplete) \/ WorkerEnds
  PROVE  PackageInv'
<1> USE DEF PackageInv, whole, installed
<1>0. gateway \in Gateway
  BY DEF PackageTypeOK
<1>1. CASE StartWorker(incomplete) \/ WorkerEnds
  BY <1>1, PackageAside DEF StartWorker, WorkerEnds
<1>2. CASE StartNetwork(incomplete)
  <2>1. /\ gateway'.pc = gateway.pc /\ gateway'.cli = gateway.cli
        /\ gateway'.proxy = gateway.proxy
        /\ UNCHANGED <<worker, block, package, recovery, files>>
    BY <1>0, <1>2 DEF StartNetwork, Gateway
  <2> QED BY <2>1 DEF Changes, Blocked, Runs
<1>3. CASE StageNativeRuntime
  <2>1. /\ gateway'.pc = "staging" /\ ~block /\ package.pc # "mark"
        /\ UNCHANGED <<worker, block, package, recovery, files>>
    BY <1>0, <1>3 DEF StageNativeRuntime, Gateway
  <2>2. package.pc \in {"idle", "hook", "prepare"} \/ package.kind = "install"
    BY <2>1, ChangeFields DEF Blocked
  <2> QED BY <2>1, <2>2 DEF Changes, Blocked, Runs
<1>4. CASE copyRuntimeBinary
  <2>1. /\ gateway'.pc = "staged" /\ gateway.pc = "staging"
        /\ gateway'.proxy = files["proxy"] /\ files["proxy"] # Absent
        /\ UNCHANGED <<worker, block, package, recovery, files>>
    BY <1>0, <1>4 DEF copyRuntimeBinary, Gateway
  <2> QED BY <2>1 DEF Changes, Blocked, Runs
<1>5. CASE Serve
  <2>1. /\ gateway'.pc = "active" /\ gateway.pc = "staged" /\ installed
        /\ gateway'.proxy = gateway.proxy /\ gateway'.cli = files["cli"]
        /\ UNCHANGED <<worker, block, package, recovery, files>>
    BY <1>0, <1>5 DEF Serve, Gateway
  <2>2. gateway.proxy = files["cli"]
    BY <2>1 DEF Blocked, Runs
  <2> QED BY <2>1, <2>2 DEF Changes, Blocked, Runs
<1>6. CASE GatewayStops
  <2>1. gateway'.pc = "inactive" /\ UNCHANGED <<worker, block, package, recovery, files>>
    BY <1>6 DEF GatewayStops, Stopped
  <2> QED BY <2>1 DEF Changes, Blocked, Runs
<1> QED BY <1>1, <1>2, <1>3, <1>4, <1>5, <1>6

LEMMA PackageCut ==
  ASSUME "torn" \notin Hazards, PackageTypeOK, PackageInv, PowerCut
  PROVE  PackageInv'
<1>1. /\ package.pc \notin {"replace", "post"} /\ whole
      /\ worker' = FALSE /\ block' = FALSE /\ recovery' = "idle" /\ files' = files
  BY DEF PowerCut
<1>2. package'.pc = "idle" /\ package'.kind = "none" /\ gateway'.pc = "inactive"
  BY DEF PowerCut, NoChange, Stopped
<1> QED BY <1>1, <1>2 DEF PackageInv, Changes, Blocked, Runs, whole, installed

LEMMA PackageInvStep ==
  ASSUME "window" \notin Hazards, "torn" \notin Hazards
  PROVE  TypeOK /\ Locks /\ PackageInv /\ [Next]_vars => PackageInv'
<1> SUFFICES ASSUME TypeOK, Locks, PackageInv, [Next]_vars PROVE PackageInv'
  OBVIOUS
<1>0. PackageTypeOK
  BY DEF TypeOK
<1>1. CASE PackageNext(now.inhibitor) /\ UNCHANGED setupVars
  BY <1>0, <1>1, BeginStep, HookStep, ReplaceStep, EndStep, RecoveryStep, StartStep
  DEF PackageNext
<1>2. CASE Helper
  BY <1>2, HelperMoves, PackageAside
<1>3. CASE BeginSetup \/ Desktop \/ DesktopCancelled \/ ContextDone
  <2>1. UNCHANGED packageVars
    BY <1>3, DesktopType
  <2> QED BY <2>1, PackageAside DEF packageVars
<1>4. CASE \E g \in Setups : Child(g) \/ KillChild(g)
  <2>1. UNCHANGED packageVars
    BY <1>4, ChildWrites
  <2> QED BY <2>1, PackageAside DEF packageVars
<1>5. CASE KillHelper \/ EditProfile \/ EditConfig \/ UNCHANGED vars
  <2>1. UNCHANGED <<worker, block, package, recovery, files, gateway>>
    BY <1>5 DEF KillHelper, helperOthers, EditProfile, EditConfig, vars, packageVars
  <2> QED BY <2>1, PackageAside
<1>6. CASE Cut
  BY <1>0, <1>6, PackageCut DEF Cut
<1>7. CASE Abort
  BY <1>0, <1>7, EndStep DEF Abort
<1> QED BY <1>1, <1>2, <1>3, <1>4, <1>5, <1>6, <1>7 DEF Next

(* What a package change may not pull away (NativeConfigure's setups may   *)
(* run beside it): nothing starts and no worker runs while files are       *)
(* replaced, the proxy of an active gateway is of its supervisor's         *)
(* package, and a gateway that ran through a change honours the installed  *)
(* contract.  It rests on what two hazards deny: a start does not slip     *)
(* between the contract check and the block, and neither a power cut nor   *)
(* the death of a first installation leaves half of the files without a    *)
(* block.                                                                  *)
THEOREM PackageIsSafe ==
  ASSUME "window" \notin Hazards, "torn" \notin Hazards
  PROVE  Spec => []PackageSafe
<1>1. Init => PackageInv
  <2> SUFFICES ASSUME Init PROVE PackageInv
    OBVIOUS
  <2>1. package.pc = "idle" /\ package.kind = "none" /\ gateway.pc = "inactive"
    BY DEF Init, PackageInit, NoChange, Stopped
  <2>2. files["cli"] = files["proxy"]
    BY DEF Init, PackageInit, Files
  <2> QED BY <2>1, <2>2
          DEF Init, PackageInit, PackageInv, Changes, Blocked, Runs
<1>2. TypeOK /\ Locks /\ PackageInv /\ [Next]_vars => PackageInv'
  BY PackageInvStep
<1>3. PackageInv => PackageSafe
  BY DEF PackageInv, Blocked, Runs, PackageSafe, ChangeExcludes, PinnedSameCode,
         RunningIsCompatible
<1> QED BY <1>1, <1>2, <1>3, TypeCorrect, LocksInvariant, PTL DEF Spec
-----------------------------------------------------------------------------
(* One transaction at a time, and what it replaces.                        *)

LEMMA HelperChild ==
  ASSUME TypeOK, Helper
  PROVE  UNCHANGED child \/ StartTransaction
<1>1. CASE ReadRequest \/ HelperLock \/ Check \/ Generate \/ Inhibit \/ Staged
  BY <1>1 DEF ReadRequest, HelperLock, Check, Generate, Inhibit, Staged
<1>2. CASE Publish \/ Committed \/ RolledBack \/ Select \/ readyAndWait \/ Clear
  BY <1>2 DEF Publish, Committed, RolledBack, Select, readyAndWait, Clear
<1> QED BY <1>1, <1>2 DEF Helper

LEMMA StartDoes ==
  ASSUME TypeOK, SetupHolds, StartTransaction
  PROVE  /\ helper.gen \in Setups /\ helper.pc = "stage" /\ mine.pc = "none"
         /\ child'[helper.gen].pc = "snapshot"
         /\ \A g \in Setups \ {helper.gen} : child'[g] = child[g]
         /\ unanswered' = unanswered \cup {helper.gen}
         /\ UNCHANGED <<helper, now, disk, imported, desktop, setups>>
<1>1. helper.gen \in Setups /\ helper.pc = "stage" /\ mine.pc = "none"
  BY DEF StartTransaction, SetupHolds
<1>2. /\ child'[helper.gen].pc = "snapshot"
      /\ \A g \in Setups \ {helper.gen} : child'[g] = child[g]
  BY <1>1 DEF StartTransaction, TypeOK
<1>3. unanswered' = unanswered \cup {helper.gen}
  BY <1>1, <1>2 DEF unanswered
<1> QED BY <1>1, <1>2, <1>3 DEF StartTransaction, helperOthers

(* The life of a transaction.                                              *)
LEMMA ChildPaths ==
  ASSUME TypeOK, NEW g \in Setups, Child(g) \/ KillChild(g)
  PROVE  /\ g \in unanswered /\ unanswered' \subseteq unanswered
         /\ \A h \in Setups \ {g} : child'[h] = child[h]
         /\ \/ child'[g].pc = "gone" /\ child'[g].old = child[g].old
            \/ /\ child[g].pc = "snapshot" /\ child'[g].pc = "exchange"
               /\ child'[g].old = now.profile /\ Unwritten
            \/ /\ child[g].pc = "exchange" /\ child'[g].pc = "ready"
               /\ child'[g].old = child[g].old /\ Durably("profile", g)
            \/ /\ child[g].pc = "ready" /\ child'[g].pc = "committed"
               /\ helper.pc = "commit" /\ helper.gen = g /\ Durably("profile", g)
            \/ /\ child[g].pc = "ready" /\ child'[g].pc = "rolledback"
               /\ helper.pc = "rollback" /\ helper.gen = g
               /\ Durably("profile", child[g].old)
<1>0. child \in [Setups -> [pc : ChildPc, old : Version]]
  BY DEF TypeOK
<1>1. \A pc : Becomes(g, pc) => /\ child'[g].pc = pc /\ child'[g].old = child[g].old
                               /\ \A h \in Setups \ {g} : child'[h] = child[h]
  BY <1>0 DEF Becomes
<1> DEFINE Path ==
      /\ child[g].pc \in {"snapshot", "exchange", "ready"}
      /\ \A h \in Setups \ {g} : child'[h] = child[h]
      /\ \/ child'[g].pc = "gone" /\ child'[g].old = child[g].old
         \/ /\ child[g].pc = "snapshot" /\ child'[g].pc = "exchange"
            /\ child'[g].old = now.profile /\ Unwritten
         \/ /\ child[g].pc = "exchange" /\ child'[g].pc = "ready"
            /\ child'[g].old = child[g].old /\ Durably("profile", g)
         \/ /\ child[g].pc = "ready" /\ child'[g].pc = "committed"
            /\ helper.pc = "commit" /\ helper.gen = g /\ Durably("profile", g)
         \/ /\ child[g].pc = "ready" /\ child'[g].pc = "rolledback"
            /\ helper.pc = "rollback" /\ helper.gen = g
            /\ Durably("profile", child[g].old)
<1>2. Path
  <2>1. CASE Refuse(g)
    BY <1>1, <2>1 DEF Refuse
  <2>2. CASE Snapshot(g)
    BY <1>0, <2>2 DEF Snapshot, Unwritten
  <2>3. CASE Exchange(g)
    BY <1>1, <2>3 DEF Exchange
  <2>4. CASE Commit(g)
    BY <1>1, <2>4 DEF Commit, Uncertain
  <2>5. CASE RollbackAsked(g)
    BY <1>1, <2>5 DEF RollbackAsked, Rollback, Uncertain
  <2>6. CASE Interrupted(g)
    BY <1>1, <2>6 DEF Interrupted, Rollback, Uncertain
  <2>7. CASE KillChild(g)
    BY <1>1, <2>7 DEF KillChild, unanswered
  <2> QED BY <2>1, <2>2, <2>3, <2>4, <2>5, <2>6, <2>7 DEF Child
<1> HIDE DEF Path
<1>3. g \in unanswered
  BY <1>2 DEF Path, unanswered
<1>4. unanswered' \subseteq unanswered
  BY <1>2, <1>3 DEF Path, unanswered
<1> QED BY <1>2, <1>3, <1>4 DEF Path

LEMMA AloneStep ==
  ASSUME "stall" \notin Hazards
  PROVE  TypeOK /\ Locks /\ SetupHolds /\ Alone /\ [Next]_vars => Alone'
<1> SUFFICES ASSUME TypeOK, Locks, SetupHolds, Alone, [Next]_vars PROVE Alone'
  OBVIOUS
<1> USE DEF Inhibiting, Selecting
<1>1. CASE Helper
  <2>1. CASE StartTransaction
    <3>1. unanswered = {}
      BY <2>1, StartDoes DEF Alone, unanswered, mine
    <3> QED BY <2>1, <3>1, StartDoes DEF Alone
  <2>2. CASE UNCHANGED child
    <3>1. unanswered' = unanswered
      BY <2>2 DEF unanswered
    <3>2. CASE helper'.pc = "none"
      BY <3>1, <3>2 DEF Alone
    <3>3. CASE helper'.pc # "none"
      <4>1. helper.pc = "commit" /\ helper'.pc = "select" => helper.gen \notin unanswered
        BY <1>1, <3>3, HelperPaths DEF unanswered, mine
      <4> QED BY <1>1, <3>1, <3>3, <4>1, HelperPaths DEF Alone
    <3> QED BY <3>2, <3>3
  <2> QED BY <1>1, <2>1, <2>2, HelperChild
<1>2. CASE BeginSetup
  <2>1. helper'.pc = "request" /\ UNCHANGED child
    BY <1>2 DEF BeginSetup, NoHelper
  <2> QED BY <2>1 DEF Alone, unanswered
<1>3. CASE Desktop \/ DesktopCancelled \/ ContextDone
  <2>1. helper'.pc = helper.pc /\ helper'.gen = helper.gen /\ UNCHANGED child
    BY <1>3, HelperHears DEF TypeOK, Desktop, DesktopReady, Finalize, Acknowledge,
       DesktopExits, DesktopCancelled, ContextDone, desktopOthers
  <2> QED BY <2>1 DEF Alone, unanswered
<1>4. CASE \E g \in Setups : Child(g) \/ KillChild(g)
  <2>1. UNCHANGED helper /\ unanswered' \subseteq unanswered
    BY <1>4, ChildWrites, ChildPaths
  <2> QED BY <2>1 DEF Alone
<1>5. CASE KillHelper
  <2>1. helper'.pc = "none" /\ UNCHANGED child
    BY <1>5, NoHelperFields DEF KillHelper, Leave
  <2> QED BY <2>1 DEF Alone, unanswered
<1>6. CASE Cut
  <2>1. helper'.pc = "none"
    BY <1>6, NoHelperFields DEF Cut
  <2>2. \A g \in Setups : child'[g].pc \in {"none", "gone"}
    BY <1>6 DEF Cut, TypeOK
  <2>3. unanswered' = {}
    BY <2>2 DEF unanswered
  <2> QED BY <2>1, <2>3 DEF Alone
<1>7. CASE \/ PackageNext(now.inhibitor) /\ UNCHANGED setupVars
           \/ EditProfile \/ EditConfig \/ Abort \/ UNCHANGED vars
  <2>1. UNCHANGED <<helper, child>>
    BY <1>7 DEF setupVars, EditProfile, EditConfig, Abort, vars
  <2> QED BY <2>1 DEF Alone, unanswered
<1> QED BY <1>1, <1>2, <1>3, <1>4, <1>5, <1>6, <1>7 DEF Next

(* One profile transaction at a time is open, of the setup under way, and  *)
(* none once its setup selects (RunNativeProfileTransaction).              *)
THEOREM AloneInvariant ==
  ASSUME "stall" \notin Hazards
  PROVE  Spec => []Alone
<1>1. Init => Alone
  BY NoHelperFields DEF Init, Alone, unanswered, Inhibiting, Selecting
<1>2. TypeOK /\ Locks /\ SetupHolds /\ Alone /\ [Next]_vars => Alone'
  BY AloneStep
<1> QED BY <1>1, <1>2, TypeCorrect, LocksInvariant, SetupHoldsInvariant, PTL DEF Spec

(* What a helper leaves alone.                                             *)
LEMMA HelperFiles ==
  ASSUME TypeOK, Helper
  PROVE  /\ now'.profile = now.profile /\ disk'.profile = disk.profile
         /\ now.config = Foreign => now'.config = Foreign
<1>1. /\ TRUE \in Holds("inhibitor") /\ FALSE \in Holds("inhibitor")
      /\ helper.gen \in Holds("config") /\ now.config \in Holds("runtime")
  BY FilesTypes DEF TypeOK, HelperRecord, Holds, Version
<1>2. FilesTypeOK /\ {"inhibitor", "config", "profile", "runtime"} = Things
  BY DEF TypeOK, Things
<1> QED BY <1>1, <1>2, HelperWrites, DurablyDoes, UnsyncedDoes DEF Writes, Unwritten

(* What a power cut leaves.                                                *)
LEMMA CutLeaves ==
  ASSUME TypeOK, Cut
  PROVE  /\ \A x \in Things : now'[x] \in disk[x] /\ disk'[x] = {now'[x]}
         /\ helper'.pc = "none" /\ ~helper'.acked /\ desktop' = "idle"
         /\ UNCHANGED <<imported, setups>>
         /\ \A g \in Setups : /\ child'[g].pc \in {"none", "gone"}
                              /\ child[g].pc = "none" => child'[g].pc = "none"
         /\ unanswered' = {}
<1>1. DOMAIN now = Things
  BY DEF TypeOK, FilesTypeOK, Things
<1>2. \A x \in Things : now'[x] \in disk[x] /\ disk'[x] = {now'[x]}
  BY <1>1 DEF Cut, Things
<1>3. /\ helper'.pc = "none" /\ ~helper'.acked /\ desktop' = "idle"
      /\ UNCHANGED <<imported, setups>>
  BY NoHelperFields DEF Cut
<1>4. \A g \in Setups : /\ child'[g].pc \in {"none", "gone"}
                        /\ child[g].pc = "none" => child'[g].pc = "none"
  BY DEF Cut, TypeOK
<1>5. unanswered' = {}
  BY <1>4 DEF unanswered
<1> QED BY <1>2, <1>3, <1>4, <1>5

(* Steps of the package manager, the desktop, the helper's killer and of   *)
(* nobody change no file of the setup.                                     *)
LEMMA FilesAside ==
  ASSUME \/ PackageNext(now.inhibitor) /\ UNCHANGED setupVars
         \/ BeginSetup \/ Desktop \/ DesktopCancelled \/ ContextDone
         \/ KillHelper \/ Abort \/ UNCHANGED vars
  PROVE  UNCHANGED <<now, disk, child>>
BY DEF setupVars, BeginSetup, Desktop, DesktopReady, Finalize, Acknowledge, DesktopExits,
       DesktopCancelled, ContextDone, KillHelper, Abort, desktopOthers, vars

LEMMA EditDoes ==
  ASSUME TypeOK, EditProfile \/ EditConfig
  PROVE  /\ UNCHANGED <<packageVars, imported, helper, child, desktop, setups>>
         /\ FilesTypeOK'
         /\ \/ /\ EditProfile /\ now'.profile = Foreign
               /\ disk'.profile = disk.profile \cup {Foreign}
               /\ \A y \in Things \ {"profile"} : now'[y] = now[y] /\ disk'[y] = disk[y]
            \/ /\ EditConfig /\ now'.config = Foreign
               /\ disk'.config = disk.config \cup {Foreign}
               /\ \A y \in Things \ {"config"} : now'[y] = now[y] /\ disk'[y] = disk[y]
<1>1. /\ Foreign \in Holds("profile") /\ Foreign \in Holds("config")
      /\ {"profile", "config"} \subseteq Things /\ FilesTypeOK
  BY DEF Holds, Version, Things, TypeOK
<1>2. CASE EditProfile
  BY <1>1, <1>2, UnsyncedDoes DEF EditProfile
<1>3. CASE EditConfig
  BY <1>1, <1>3, UnsyncedDoes DEF EditConfig
<1> QED BY <1>2, <1>3

LEMMA ExchangesStep ==
  ASSUME "displace" \notin Hazards
  PROVE  TypeOK /\ SetupHolds /\ Alone /\ Exchanges /\ [Next]_vars => Exchanges'
<1> SUFFICES ASSUME TypeOK, SetupHolds, Alone, Exchanges, [Next]_vars PROVE Exchanges'
  OBVIOUS
<1>1. CASE Helper
  <2>1. CASE UNCHANGED child
    BY <1>1, <2>1, HelperFiles DEF Exchanges
  <2>2. CASE StartTransaction
    BY <2>2, StartDoes DEF Exchanges
  <2> QED BY <1>1, <2>1, <2>2, HelperChild
<1>2. CASE \E g \in Setups : Child(g) \/ KillChild(g)
  <2>1. PICK g \in Setups : Child(g) \/ KillChild(g)
    BY <1>2
  <2>2. \A h \in Setups \ {g} : child[h].pc # "exchange" /\ child'[h] = child[h]
    BY <2>1, ChildPaths DEF Alone, unanswered
  <2>3. child'[g].pc = "exchange" => child'[g].old = now'.profile
    BY <2>1, ChildPaths DEF Unwritten
  <2> QED BY <2>2, <2>3 DEF Exchanges
<1>3. CASE EditProfile
  <2>1. ASSUME NEW g \in Setups, child'[g].pc = "exchange"
        PROVE  now'.profile = child'[g].old \/ child'[g].old = None
    <3>1. UNCHANGED child /\ (now.profile = child[g].old \/ child[g].old = None)
      BY <1>3, <2>1, EditDoes DEF Exchanges
    <3>2. now.profile = None
      BY <1>3, <2>1, <3>1 DEF EditProfile
    <3> QED BY <3>1, <3>2
  <2> QED BY <2>1 DEF Exchanges
<1>4. CASE EditConfig
  BY <1>4, EditDoes DEF Exchanges, EditConfig, Unsynced, Things
<1>5. CASE Cut
  BY <1>5, CutLeaves DEF Exchanges
<1>6. CASE \/ PackageNext(now.inhibitor) /\ UNCHANGED setupVars
           \/ BeginSetup \/ Desktop \/ DesktopCancelled \/ ContextDone
           \/ KillHelper \/ Abort \/ UNCHANGED vars
  BY <1>6, FilesAside DEF Exchanges
<1> QED BY <1>1, <1>2, <1>3, <1>4, <1>5, <1>6 DEF Next

(* No commit and no rollback overwrites what somebody else wrote: a        *)
(* foreign profile is replaced only by the transaction that found it there *)
(* and keeps it, a foreign configuration by none                           *)
(* (nativeProfileFileTransaction, inspectNativeConfigurationTarget).  An   *)
(* edit between the snapshot and the exchange ("displace") is out of it,   *)
(* as is a transaction that outlives its setup into the next ("stall").    *)
THEOREM ForeignIsKept ==
  ASSUME "displace" \notin Hazards, "stall" \notin Hazards
  PROVE  Spec => ForeignKept
<1>1. Init => Exchanges
  BY DEF Init, Exchanges
<1>2. TypeOK /\ SetupHolds /\ Alone /\ Exchanges /\ [Next]_vars => Exchanges'
  BY ExchangesStep
<1>3. TypeOK /\ Exchanges /\ [Next]_vars
        => [/\ now.profile = Foreign /\ now'.profile # Foreign =>
                 \/ \E g \in Setups : now'.profile = g /\ child[g].old = Foreign
                 \/ now'.profile \in disk.profile
            /\ now.config = Foreign /\ now'.config # Foreign =>
                 now'.config \in disk.config]_vars
  <2> DEFINE KeepsProfile ==
        now.profile = Foreign /\ now'.profile # Foreign =>
          \/ \E g \in Setups : now'.profile = g /\ child[g].old = Foreign
          \/ now'.profile \in disk.profile
  <2> DEFINE KeepsConfig ==
        now.config = Foreign /\ now'.config # Foreign => now'.config \in disk.config
  <2> SUFFICES ASSUME TypeOK, Exchanges, Next PROVE KeepsProfile /\ KeepsConfig
    OBVIOUS
  <2>1. CASE Helper
    BY <2>1, HelperFiles
  <2>2. CASE \E g \in Setups : Child(g) \/ KillChild(g)
    <3>1. PICK g \in Setups : Child(g) \/ KillChild(g)
      BY <2>2
    <3>2. /\ g \in Holds("profile") /\ child[g].old \in Holds("profile")
          /\ g # None /\ g # Foreign /\ {"config", "profile"} \subseteq Things
          /\ FilesTypeOK
      BY SetupNumber DEF TypeOK, Holds, Things
    <3>3. KeepsConfig
      BY <3>1, <3>2, ChildWrites, DurablyDoes, UnsyncedDoes DEF Writes, Unwritten
    <3>4. CASE Refuse(g) \/ Snapshot(g) \/ KillChild(g)
      BY <3>3, <3>4 DEF Refuse, Snapshot, KillChild
    <3>5. CASE Exchange(g)
      <4>1. ASSUME now.profile = Foreign, now'.profile # Foreign, child[g].old # Foreign
            PROVE  FALSE
        <5>1. now.profile # child[g].old /\ child[g].old = None
          BY <3>5, <4>1 DEF Exchanges, Exchange
        <5> QED BY <3>5, <4>1, <5>1 DEF Exchange, Unwritten
      <4>2. now' = now \/ now'.profile = g
        BY <3>2, <3>5, DurablyDoes, UnsyncedDoes DEF Exchange, Unwritten
      <4> QED BY <3>3, <4>1, <4>2
    <3>6. CASE Commit(g) \/ RollbackAsked(g) \/ Interrupted(g)
      <4>1. staged(g) \/ Unwritten
        BY <3>6 DEF Commit, RollbackAsked, Interrupted, Rollback
      <4> QED BY <3>2, <3>3, <4>1 DEF staged, Unwritten
    <3> QED BY <3>1, <3>4, <3>5, <3>6 DEF Child
  <2>3. CASE EditProfile \/ EditConfig
    BY <2>3, EditDoes DEF Things
  <2>4. CASE Cut
    BY <2>4, CutLeaves DEF Things
  <2>5. CASE \/ PackageNext(now.inhibitor) /\ UNCHANGED setupVars
             \/ BeginSetup \/ Desktop \/ DesktopCancelled \/ ContextDone
             \/ KillHelper \/ Abort
    BY <2>5, FilesAside
  <2> QED BY <2>1, <2>2, <2>3, <2>4, <2>5 DEF Next
<1> QED BY <1>1, <1>2, <1>3, TypeCorrect, SetupHoldsInvariant, AloneInvariant, PTL
        DEF Spec, ForeignKept
-----------------------------------------------------------------------------
(* The configuration, the profile, the connection and the runtime.         *)

LEMMA NumberedStep ==
  TypeOK /\ SetupHolds /\ Numbered /\ [Next]_vars => Numbered'
<1> SUFFICES ASSUME TypeOK, SetupHolds, Numbered, [Next]_vars PROVE Numbered'
  OBVIOUS
<1> USE DEF mine
<1>1. CASE Helper
  <2>0. setups' = setups
    BY <1>1 DEF Helper, helperOthers, ReadRequest, HelperLock, Check, Generate, Inhibit,
       StartTransaction, Staged, Publish, Committed, RolledBack, Select, readyAndWait,
       Clear
  <2>1. CASE StartTransaction
    BY <2>1, StartDoes DEF Numbered, TypeOK, Setups
  <2>2. CASE UNCHANGED child
    <3>1. CASE helper'.pc = "none"
      BY <2>0, <2>2, <3>1 DEF Numbered
    <3>2. CASE helper'.pc # "none"
      BY <1>1, <2>0, <2>2, <3>2, HelperPaths DEF Numbered
    <3> QED BY <3>1, <3>2
  <2> QED BY <1>1, <2>1, <2>2, HelperChild
<1>2. CASE BeginSetup
  <2>1. /\ helper'.pc = "request" /\ helper'.gen = setups' /\ UNCHANGED child
        /\ setups' = setups + 1 /\ setups' \in Setups
    BY <1>2, SetupShape DEF BeginSetup, NoHelper, TypeOK, Setups
  <2>2. setups \in Nat
    BY SetupShape DEF TypeOK
  <2> QED BY <2>1, <2>2 DEF Numbered, Setups
<1>3. CASE Desktop \/ DesktopCancelled \/ ContextDone
  <2>1. helper'.pc = helper.pc /\ helper'.gen = helper.gen /\ UNCHANGED <<child, setups>>
    BY <1>3, HelperHears DEF TypeOK, Desktop, DesktopReady, Finalize, Acknowledge,
       DesktopExits, DesktopCancelled, ContextDone, desktopOthers, helperOthers
  <2> QED BY <2>1 DEF Numbered
<1>4. CASE \E g \in Setups : Child(g) \/ KillChild(g)
  <2>1. PICK g \in Setups : Child(g) \/ KillChild(g)
    BY <1>4
  <2>2. UNCHANGED <<helper, setups>> /\ child[g].pc # "none"
    BY <2>1, ChildWrites, ChildPaths DEF unanswered
  <2>3. /\ \A h \in Setups \ {g} : child'[h] = child[h]
        /\ child'[g].pc = "committed" => helper.pc = "commit"
    BY <2>1, ChildPaths
  <2> QED BY <2>2, <2>3 DEF Numbered, SetupHolds
<1>5. CASE Cut
  BY <1>5, CutLeaves DEF Numbered
<1>6. CASE KillHelper
  <2>1. helper'.pc = "none" /\ UNCHANGED <<child, setups>>
    BY <1>6, NoHelperFields DEF KillHelper, Leave, helperOthers
  <2> QED BY <2>1 DEF Numbered
<1>7. CASE \/ PackageNext(now.inhibitor) /\ UNCHANGED setupVars
           \/ EditProfile \/ EditConfig \/ Abort \/ UNCHANGED vars
  <2>1. UNCHANGED <<helper, child, setups>>
    BY <1>7 DEF setupVars, EditProfile, EditConfig, Abort, vars
  <2> QED BY <2>1 DEF Numbered
<1> QED BY <1>1, <1>2, <1>3, <1>4, <1>5, <1>6, <1>7 DEF Next

(* What a helper leaves on the disk.                                       *)
Clears == \/ helper.pc = "clear"
          \/ helper.pc = "rollback" /\ mine.pc = "rolledback" /\ ~helper.prior

LEMMA HelperDisk ==
  ASSUME TypeOK, Helper
  PROVE  /\ UNCHANGED <<imported, desktop, setups>> /\ disk'.profile = disk.profile
         /\ \/ disk'.inhibitor \in {disk.inhibitor, {TRUE}, disk.inhibitor \cup {TRUE}}
            \/ Clears /\ helper'.pc = "none"
         /\ helper.pc = "inhibit" /\ helper'.pc = "stage" => disk'.inhibitor = {TRUE}
         /\ helper.pc # "staged" => disk'.config = disk.config
         /\ helper.pc = "staged" =>
              \/ helper'.pc = "rollback" /\ disk'.config = disk.config
              \/ helper'.pc = "commit" /\ (helper'.retain \/ disk'.config = {helper.gen})
         /\ helper.pc # "select" => disk'.runtime = disk.runtime
         /\ helper.pc = "select" /\ helper'.pc = "ready" => disk'.runtime = {now.config}
<1>0. /\ TRUE \in Holds("inhibitor") /\ FALSE \in Holds("inhibitor")
      /\ helper.gen \in Holds("config") /\ now.config \in Holds("runtime")
      /\ FilesTypeOK /\ {"inhibitor", "config", "profile", "runtime"} = Things
      /\ helper \in HelperRecord
  BY FilesTypes DEF TypeOK, HelperRecord, Holds, Version, Things
<1> USE DEF helperOthers
<1>1. CASE ReadRequest \/ Generate \/ Staged \/ Check \/ HelperLock \/ StartTransaction
             \/ Committed \/ readyAndWait
  <2>1. UNCHANGED <<now, disk, imported, desktop, setups>> /\ helper.pc # "staged"
        /\ ~(helper.pc = "inhibit") /\ ~(helper.pc = "select")
    BY <1>1 DEF ReadRequest, Generate, Staged, Check, HelperLock, StartTransaction,
       Committed, readyAndWait
  <2> QED BY <2>1
<1>2. CASE Inhibit
  <2>1. helper.pc = "inhibit" /\ UNCHANGED <<imported, desktop, setups>>
    BY <1>2 DEF Inhibit
  <2>2. CASE Durably("inhibitor", TRUE)
    BY <1>0, <2>1, <2>2, DurablyDoes
  <2>3. CASE Leave /\ (Unsynced("inhibitor", TRUE) \/ Unwritten)
    BY <1>0, <2>1, <2>3, UnsyncedDoes, NoHelperFields DEF Leave, Unwritten
  <2> QED BY <1>2, <2>2, <2>3 DEF Inhibit
<1>3. CASE Publish
  <2>1. helper.pc = "staged" /\ UNCHANGED <<imported, desktop, setups>>
    BY <1>3 DEF Publish
  <2>2. CASE Durably("config", helper.gen) /\ Goto("commit")
    <3>1. /\ disk'.config = {helper.gen} /\ disk'.inhibitor = disk.inhibitor
          /\ disk'.runtime = disk.runtime /\ disk'.profile = disk.profile
      BY <1>0, <2>2, DurablyDoes
    <3>2. helper'.pc = "commit"
      BY <1>0, <2>2, HelperGoes DEF Goto, HelperPc
    <3> QED BY <2>1, <3>1, <3>2
  <2>3. CASE NotPublished
    BY <1>0, <2>1, <2>3, HelperGoes DEF NotPublished, Unwritten, Goto, HelperPc
  <2>4. CASE PublishedWithError
    BY <1>0, <2>1, <2>4, UnsyncedDoes, HelperRetains DEF PublishedWithError
  <2> QED BY <1>3, <2>2, <2>3, <2>4 DEF Publish
<1>4. CASE RolledBack
  <2>1. /\ helper.pc = "rollback" /\ UNCHANGED <<imported, desktop, setups>>
        /\ helper'.pc = "none"
    BY <1>4, NoHelperFields DEF RolledBack, Leave
  <2>2. CASE Unwritten
    BY <2>1, <2>2 DEF Unwritten
  <2>3. CASE Clears /\ (Durably("inhibitor", FALSE) \/ Unsynced("inhibitor", FALSE))
    BY <1>0, <2>1, <2>3, DurablyDoes, UnsyncedDoes
  <2> QED BY <1>4, <2>2, <2>3 DEF RolledBack, Clears
<1>5. CASE Clear
  <2>1. /\ helper.pc = "clear" /\ UNCHANGED <<imported, desktop, setups>>
        /\ helper'.pc = "none"
    BY <1>5, NoHelperFields DEF Clear, Leave
  <2>2. CASE Unwritten
    BY <2>1, <2>2 DEF Unwritten
  <2>3. CASE Durably("inhibitor", FALSE) \/ Unsynced("inhibitor", FALSE)
    BY <1>0, <2>1, <2>3, DurablyDoes, UnsyncedDoes DEF Clears
  <2> QED BY <1>5, <2>2, <2>3 DEF Clear
<1>6. CASE Select
  <2>1. helper.pc = "select" /\ UNCHANGED <<imported, desktop, setups>>
    BY <1>6 DEF Select
  <2>2. CASE Durably("runtime", now.config)
    <3>1. /\ disk'.runtime = {now.config} /\ disk'.inhibitor = disk.inhibitor
          /\ disk'.config = disk.config /\ disk'.profile = disk.profile
      BY <1>0, <2>2, DurablyDoes
    <3> QED BY <2>1, <3>1
  <2>3. CASE Leave /\ (Unwritten \/ Unsynced("runtime", now.config))
    BY <1>0, <2>1, <2>3, UnsyncedDoes, NoHelperFields DEF Leave, Unwritten
  <2> QED BY <1>6, <2>2, <2>3 DEF Select
<1> QED BY <1>1, <1>2, <1>3, <1>4, <1>5, <1>6 DEF Helper

LEMMA HelperForgets ==
  ASSUME TypeOK, Locks, Helper
  PROVE  /\ helper'.acked => helper.acked
         /\ helper'.pc = "none" /\ helper.pc \in {"wait", "clear"} => ~helper'.acked
<1>0. helper \in HelperRecord /\ now.inhibitor \in BOOLEAN
  BY FilesTypes DEF TypeOK
<1>1. CASE Leave
  BY <1>1, NoHelperFields DEF Leave
<1>2. ASSUME NEW pc \in HelperPc, helper' = [helper EXCEPT !.pc = pc],
             Excludes(pc) <=> Excludes(helper.pc)
      PROVE  /\ helper'.acked = helper.acked
             /\ helper.pc \in {"wait", "clear"} => helper'.pc # "none"
  BY <1>0, <1>2, HelperGoes DEF Excludes
<1>3. CASE helper' = [helper EXCEPT !.pc = "check"]
  BY <1>0, <1>3, HelperGoes DEF HelperPc
<1>4. CASE helper' = [helper EXCEPT !.pc = "stage", !.prior = now.inhibitor]
  BY <1>0, <1>4, HelperStages
<1>5. CASE helper' = [helper EXCEPT !.pc = "commit", !.retain = TRUE]
  BY <1>0, <1>5, HelperRetains
<1> QED BY <1>1, <1>2, <1>3, <1>4, <1>5, HelperMoves

LEMMA ChildFiles ==
  ASSUME TypeOK, NEW g \in Setups, Child(g) \/ KillChild(g)
  PROVE  \A y \in Things \ {"profile"} : now'[y] = now[y] /\ disk'[y] = disk[y]
<1>1. /\ g \in Holds("profile") /\ child[g].old \in Holds("profile")
      /\ FilesTypeOK /\ "profile" \in Things
  BY SetupNumber DEF TypeOK, Holds, Things
<1>2. now' = now /\ disk' = [disk EXCEPT !.profile = @ \cup {g}]
        => \A y \in Things \ {"profile"} : now'[y] = now[y] /\ disk'[y] = disk[y]
  BY <1>1 DEF FilesTypeOK, Things
<1> QED BY <1>1, <1>2, ChildWrites, DurablyDoes, UnsyncedDoes DEF Writes, Unwritten

LEMMA InhibitedStep ==
  TypeOK /\ Locks /\ SetupHolds /\ Alone /\ Inhibited /\ [Next]_vars => Inhibited'
<1> SUFFICES ASSUME TypeOK, Locks, SetupHolds, Alone, Inhibited, [Next]_vars
             PROVE  Inhibited'
  OBVIOUS
<1> USE DEF Inhibiting, Selecting, Finishing
<1>1. CASE Helper
  <2>1. CASE StartTransaction
    BY <2>1, StartDoes DEF Inhibited
  <2>2. CASE UNCHANGED child
    <3>1. unanswered' = unanswered
      BY <2>2 DEF unanswered
    <3>2. Clears => unanswered = {}
      BY DEF Clears, Alone, unanswered, mine
    <3>3. helper'.pc \in Inhibiting => disk'.inhibitor = {TRUE}
      BY <1>1, HelperDisk, HelperPaths DEF Inhibited
    <3>4. unanswered' # {} => disk'.inhibitor = {TRUE}
      BY <1>1, <3>1, <3>2, HelperDisk DEF Inhibited
    <3>5. desktop \in Finishing => disk'.inhibitor = {TRUE}
      BY <1>1, HelperDisk DEF Inhibited, Clears
    <3>6. desktop \in Finishing => helper'.pc \in {"none", "wait"}
      BY <1>1, HelperPaths DEF Inhibited
    <3>7. helper'.acked => helper.acked
      BY <1>1, HelperForgets
    <3> QED BY <1>1, <3>3, <3>4, <3>5, <3>6, <3>7, HelperDisk DEF Inhibited
  <2> QED BY <1>1, <2>1, <2>2, HelperChild
<1>2. CASE BeginSetup
  <2>1. /\ helper'.pc = "request" /\ ~helper'.acked /\ desktop' = "wait"
        /\ UNCHANGED <<child, disk>>
    BY <1>2 DEF BeginSetup, NoHelper
  <2> QED BY <2>1 DEF Inhibited, unanswered
<1>3. CASE Desktop \/ DesktopCancelled
  <2>1. helper'.pc = helper.pc /\ UNCHANGED <<child, disk>>
    BY <1>3, HelperHears DEF TypeOK, Desktop, DesktopReady, Finalize, Acknowledge,
       DesktopExits, DesktopCancelled, desktopOthers
  <2>2. \/ desktop' \in {"idle", "exit"}
        \/ UNCHANGED helper /\ desktop = "wait" /\ desktop' = "finalize"
           /\ helper.pc = "wait"
        \/ UNCHANGED helper /\ desktop = "finalize" /\ desktop' = "acknowledge"
    BY <1>3 DEF Desktop, DesktopReady, Finalize, Acknowledge, DesktopExits,
       DesktopCancelled
  <2> QED BY <2>1, <2>2 DEF Inhibited, unanswered
<1>4. CASE ContextDone
  <2>1. helper'.pc = helper.pc /\ helper'.acked = helper.acked
        /\ UNCHANGED <<child, disk, desktop>>
    BY <1>4, HelperHears DEF TypeOK, ContextDone, helperOthers
  <2> QED BY <2>1 DEF Inhibited, unanswered
<1>5. CASE \E g \in Setups : Child(g) \/ KillChild(g)
  <2>1. UNCHANGED <<helper, desktop>> /\ unanswered' \subseteq unanswered
        /\ disk'.inhibitor = disk.inhibitor
    BY <1>5, ChildWrites, ChildPaths, ChildFiles DEF Things
  <2> QED BY <2>1 DEF Inhibited
<1>6. CASE Cut
  BY <1>6, CutLeaves DEF Inhibited
<1>7. CASE KillHelper
  <2>1. helper'.pc = "none" /\ ~helper'.acked /\ UNCHANGED <<child, disk, desktop>>
    BY <1>7, NoHelperFields DEF KillHelper, Leave, helperOthers
  <2> QED BY <2>1 DEF Inhibited, unanswered
<1>8. CASE EditProfile \/ EditConfig
  <2>1. UNCHANGED <<helper, child, desktop>> /\ disk'.inhibitor = disk.inhibitor
    BY <1>8, EditDoes DEF Things
  <2> QED BY <2>1 DEF Inhibited, unanswered
<1>9. CASE \/ PackageNext(now.inhibitor) /\ UNCHANGED setupVars
           \/ Abort \/ UNCHANGED vars
  <2>1. UNCHANGED <<helper, child, desktop, disk>>
    BY <1>9 DEF setupVars, Abort, vars
  <2> QED BY <2>1 DEF Inhibited, unanswered
<1> QED BY <1>1, <1>2, <1>3, <1>4, <1>5, <1>6, <1>7, <1>8, <1>9 DEF Next

(* The desktop imports only what a waiting helper has selected, or what    *)
(* one that has died left; the inhibitor is there in both cases.           *)
LEMMA DesktopImports ==
  ASSUME TypeOK, Inhibited, Desktop \/ DesktopCancelled \/ ContextDone
  PROVE  /\ UNCHANGED <<now, disk, child, setups>>
         /\ helper'.pc = helper.pc /\ helper'.gen = helper.gen
         /\ helper'.prior = helper.prior /\ helper'.retain = helper.retain
         /\ \/ UNCHANGED imported
            \/ /\ desktop = "finalize" /\ UNCHANGED helper /\ desktop' \in {"idle", "acknowledge"}
               /\ imported' = now.profile
         /\ desktop' = "acknowledge" =>
              \/ desktop = "finalize" /\ imported' = now.profile
              \/ desktop = "acknowledge"
         /\ helper'.acked =>
              \/ helper.acked
              \/ desktop = "acknowledge" /\ helper.pc = "wait" /\ UNCHANGED imported
<1>1. CASE DesktopReady \/ Finalize \/ DesktopExits \/ DesktopCancelled
  BY <1>1 DEF DesktopReady, Finalize, DesktopExits, DesktopCancelled, desktopOthers
<1>2. CASE Acknowledge
  BY <1>2, HelperHears DEF Acknowledge, desktopOthers, TypeOK
<1>3. CASE ContextDone
  BY <1>3, HelperHears DEF ContextDone, helperOthers, TypeOK
<1> QED BY <1>1, <1>2, <1>3 DEF Desktop

LEMMA AgreesStep ==
  TypeOK /\ Locks /\ SetupHolds /\ Alone /\ SetupInv /\ [Next]_vars => Agrees'
<1> SUFFICES ASSUME TypeOK, Locks, SetupHolds, Alone, SetupInv, [Next]_vars,
                    FALSE \in disk'.inhibitor
             PROVE  \E v \in Version : Together(v)'
  BY DEF Agrees, Together, TreeOf, Own
<1> USE DEF Together, TreeOf
<1>0. FALSE \in disk.inhibitor =>
        /\ \E v \in Version : Together(v)
        /\ helper.pc \notin Inhibiting /\ unanswered = {} /\ desktop \notin Finishing
  BY DEF SetupInv, Agrees, Inhibited
<1>a. UNCHANGED <<disk, imported>> => \E v \in Version : Together(v)'
  BY <1>0
<1>1. CASE Helper
  <2>1. CASE FALSE \in disk.inhibitor
    <3>1. disk'.config = disk.config /\ disk'.runtime = disk.runtime
          /\ disk'.profile = disk.profile /\ UNCHANGED imported
      BY <1>0, <1>1, <2>1, HelperDisk DEF Inhibiting
    <3> QED BY <1>0, <2>1, <3>1
  <2>2. CASE FALSE \notin disk.inhibitor
    <3>1. Clears
      BY <1>1, <2>2, HelperDisk
    <3>2. disk'.config = disk.config /\ disk'.runtime = disk.runtime
          /\ disk'.profile = disk.profile /\ UNCHANGED imported
      BY <1>1, <3>1, HelperDisk DEF Clears
    <3>3. CASE helper.pc = "clear"
      <4>1. Together(helper.gen)
        BY <3>3 DEF SetupInv, Published, Acked, Selecting
      <4>2. helper.gen \in Version
        BY <3>3, SetupNumber DEF SetupHolds
      <4> QED BY <3>2, <4>1, <4>2
    <3>4. CASE helper.pc = "rollback" /\ mine.pc = "rolledback" /\ ~helper.prior
      BY <3>2, <3>4 DEF SetupInv, Undoable
    <3> QED BY <3>1, <3>3, <3>4 DEF Clears
  <2> QED BY <2>1, <2>2
<1>2. CASE BeginSetup
  BY <1>a, <1>2 DEF BeginSetup
<1>3. CASE Desktop \/ DesktopCancelled \/ ContextDone
  <2>1. FALSE \in disk.inhibitor /\ UNCHANGED disk
    BY <1>3, DesktopImports DEF SetupInv
  <2>2. UNCHANGED imported
    BY <1>0, <1>3, <2>1, DesktopImports DEF SetupInv, Finishing
  <2> QED BY <1>a, <2>1, <2>2
<1>4. CASE \E g \in Setups : Child(g) \/ KillChild(g)
  <2>1. unanswered # {} /\ disk'.inhibitor = disk.inhibitor
    BY <1>4, ChildPaths, ChildFiles DEF Things
  <2> QED BY <1>0, <2>1
<1>5. CASE Cut
  <2>1. FALSE \in disk.inhibitor
    BY <1>5, CutLeaves DEF Things
  <2>2. PICK v \in Version : Together(v)
    BY <1>0, <2>1
  <2> QED BY <1>5, <2>2, CutLeaves DEF Things
<1>6. CASE EditProfile \/ EditConfig
  <2>1. PICK v \in Version : Together(v)
    BY <1>0, <1>6, EditDoes DEF Things
  <2> QED BY <1>6, <2>1, EditDoes DEF Things, Own
<1>7. CASE \/ PackageNext(now.inhibitor) /\ UNCHANGED setupVars
           \/ KillHelper \/ Abort \/ UNCHANGED vars
  BY <1>a, <1>7 DEF setupVars, KillHelper, helperOthers, Abort, vars
<1> QED BY <1>1, <1>2, <1>3, <1>4, <1>5, <1>6, <1>7 DEF Next

LEMMA UndoableStep ==
  TypeOK /\ Locks /\ SetupHolds /\ Alone /\ Numbered /\ SetupInv /\ [Next]_vars => Undoable'
<1> DEFINE Open == helper.pc \in {"stage", "staged", "rollback"} /\ ~helper.prior
           Fits(v) == /\ TreeOf(v)
                      /\ mine.pc \in {"none", "snapshot", "exchange", "rolledback"} =>
                           disk.profile \subseteq Own(v)
                      /\ mine.pc \in {"exchange", "ready"} => mine.old \in Own(v)
<1> SUFFICES ASSUME TypeOK, Locks, SetupHolds, Alone, Numbered, SetupInv, [Next]_vars,
                    Open'
             PROVE  \E v \in Version : Fits(v)'
  BY DEF Undoable, TreeOf, Own, mine
<1> USE DEF TreeOf
<1>0. Open => \E v \in Version : Fits(v)
  BY DEF SetupInv, Undoable
<1>a. UNCHANGED <<helper, child, disk, imported>> => \E v \in Version : Fits(v)'
  BY <1>0 DEF mine
<1>1. CASE Helper
  <2>1. CASE StartTransaction
    <3>1. PICK v \in Version : Fits(v)
      BY <1>0, <2>1, StartDoes
    <3>2. mine.pc = "none" /\ mine'.pc = "snapshot" /\ UNCHANGED <<disk, imported>>
      BY <2>1, StartDoes DEF mine
    <3> QED BY <3>1, <3>2
  <2>2. CASE UNCHANGED child
    <3>1. /\ helper'.gen = helper.gen
          /\ \/ helper.pc \in {"stage", "staged"} /\ helper'.prior = helper.prior
             \/ helper.pc = "inhibit" /\ helper'.prior = now.inhibitor
      BY <1>1, HelperPaths
    <3>2. /\ disk'.config = disk.config /\ disk'.runtime = disk.runtime
          /\ disk'.profile = disk.profile /\ UNCHANGED imported
      BY <1>1, <3>1, HelperDisk
    <3>3. mine' = mine
      BY <2>2, <3>1 DEF mine
    <3>4. CASE helper.pc = "inhibit"
      <4>1. FALSE \in disk.inhibitor /\ mine.pc = "none"
        BY <3>1, <3>4, FilesTypes DEF TypeOK, Numbered
      <4>2. PICK v \in Version : Together(v)
        BY <4>1 DEF SetupInv, Agrees
      <4> QED BY <3>2, <3>3, <4>1, <4>2 DEF Together
    <3>5. CASE helper.pc # "inhibit"
      <4>1. PICK v \in Version : Fits(v)
        BY <1>0, <3>1, <3>5
      <4> QED BY <3>2, <3>3, <4>1
    <3> QED BY <3>4, <3>5
  <2> QED BY <1>1, <2>1, <2>2, HelperChild
<1>2. CASE BeginSetup
  BY <1>2 DEF BeginSetup, NoHelper
<1>3. CASE Desktop \/ DesktopCancelled \/ ContextDone
  <2>1. /\ UNCHANGED <<disk, child>> /\ helper'.pc = helper.pc
        /\ helper'.gen = helper.gen /\ helper'.prior = helper.prior
        /\ UNCHANGED imported \/ desktop = "finalize"
    BY <1>3, DesktopImports DEF SetupInv
  <2>2. UNCHANGED imported
    BY <2>1 DEF SetupInv, Inhibited, Finishing
  <2>3. PICK v \in Version : Fits(v)
    BY <1>0, <2>1
  <2> QED BY <2>1, <2>2, <2>3 DEF mine
<1>4. CASE \E g \in Setups : Child(g) \/ KillChild(g)
  <2>1. PICK g \in Setups : Child(g) \/ KillChild(g)
    BY <1>4
  <2>2. UNCHANGED <<helper, imported>> /\ g \in unanswered
    BY <2>1, ChildWrites, ChildPaths
  <2>3. g = helper.gen
    BY <2>2 DEF Alone, Inhibiting
  <2>4. mine = child[g] /\ mine' = child'[g]
    BY <2>2, <2>3 DEF mine
  <2>5. disk'.config = disk.config /\ disk'.runtime = disk.runtime
    BY <2>1, ChildFiles DEF Things
  <2>6. PICK v \in Version : Fits(v)
    BY <1>0, <2>2
  <2>7. Unwritten => disk'.profile = disk.profile
    BY DEF Unwritten
  <2>8. Durably("profile", child[g].old) => disk'.profile = {child[g].old}
    <3>1. child[g].old \in Holds("profile") /\ FilesTypeOK /\ "profile" \in Things
      BY DEF TypeOK, Holds, Things
    <3> QED BY <3>1, DurablyDoes
  <2>9. now.profile \in disk.profile
    BY FilesTypes DEF TypeOK
  <2>10. (mine'.pc \in {"none", "snapshot", "exchange", "rolledback"} =>
            disk'.profile \subseteq Own(v))
         /\ (mine'.pc \in {"exchange", "ready"} => mine'.old \in Own(v))
    BY <2>1, <2>2, <2>4, <2>6, <2>7, <2>8, <2>9, ChildPaths
  <2> QED BY <2>2, <2>5, <2>6, <2>10
<1>5. CASE Cut
  BY <1>5, CutLeaves
<1>6. CASE KillHelper
  BY <1>6, NoHelperFields DEF KillHelper, Leave
<1>7. CASE EditProfile \/ EditConfig
  <2>1. PICK v \in Version : Fits(v)
    BY <1>0, <1>7, EditDoes
  <2>2. mine' = mine /\ UNCHANGED imported
    BY <1>7, EditDoes DEF mine
  <2> QED BY <1>7, <2>1, <2>2, EditDoes DEF Things, Own
<1>8. CASE \/ PackageNext(now.inhibitor) /\ UNCHANGED setupVars
           \/ Abort \/ UNCHANGED vars
  BY <1>a, <1>0, <1>8 DEF setupVars, Abort, vars
<1> QED BY <1>1, <1>2, <1>3, <1>4, <1>5, <1>6, <1>7, <1>8 DEF Next

LEMMA PublishedStep ==
  TypeOK /\ SetupHolds /\ Alone /\ Numbered /\ SetupInv /\ [Next]_vars => Published'
<1> SUFFICES ASSUME TypeOK, SetupHolds, Alone, Numbered, SetupInv, [Next]_vars
             PROVE  Published'
  OBVIOUS
<1> USE DEF Selecting
<1>0. Published
  BY DEF SetupInv
<1>a. helper'.pc \notin {"commit"} \cup Selecting => Published'
  BY DEF Published
<1>b. /\ UNCHANGED <<child, disk>> /\ helper'.pc = helper.pc /\ helper'.gen = helper.gen
      /\ helper'.retain = helper.retain
      => Published'
  BY <1>0 DEF Published, mine
<1>1. CASE Helper
  <2>1. CASE StartTransaction
    BY <1>a, <2>1, StartDoes
  <2>2. CASE UNCHANGED child /\ helper'.pc \in {"commit"} \cup Selecting
    <3>0. helper'.gen = helper.gen /\ mine' = mine /\ disk'.profile = disk.profile
      BY <1>1, <2>2, HelperPaths, HelperDisk DEF mine
    <3>1. CASE helper.pc = "staged"
      <4>1. helper'.pc = "commit" /\ mine.pc # "committed"
            /\ (helper'.retain \/ disk'.config = {helper.gen})
        BY <1>1, <2>2, <3>1, HelperPaths, HelperDisk DEF Numbered
      <4> QED BY <3>0, <4>1 DEF Published, Own
    <3>2. CASE helper.pc = "commit"
      <4>1. helper'.pc = "select" /\ mine.pc = "committed" /\ ~helper.retain
            /\ disk'.config = disk.config
        BY <1>1, <2>2, <3>2, HelperPaths, HelperDisk
      <4> QED BY <1>0, <3>0, <3>2, <4>1 DEF Published
    <3>3. CASE helper.pc = "select"
      <4>1. helper'.pc = "ready" /\ disk'.runtime = {now.config}
            /\ disk'.config = disk.config
        BY <1>1, <2>2, <3>3, HelperPaths, HelperDisk
      <4>2. now.config \in disk.config
        BY FilesTypes DEF TypeOK
      <4> QED BY <1>0, <3>0, <3>3, <4>1, <4>2 DEF Published
    <3>4. CASE helper.pc \in {"ready", "wait"}
      <4>1. helper'.pc \in {"wait", "clear"} /\ disk'.config = disk.config
            /\ disk'.runtime = disk.runtime
        BY <1>1, <2>2, <3>4, HelperPaths, HelperDisk
      <4> QED BY <1>0, <3>0, <3>4, <4>1 DEF Published
    <3> QED BY <1>1, <2>2, <3>1, <3>2, <3>3, <3>4, HelperPaths
  <2> QED BY <1>a, <1>1, <2>1, <2>2, HelperChild
<1>2. CASE BeginSetup
  BY <1>a, <1>2 DEF BeginSetup, NoHelper
<1>3. CASE Desktop \/ DesktopCancelled \/ ContextDone
  BY <1>b, <1>3, DesktopImports DEF SetupInv
<1>4. CASE \E g \in Setups : Child(g) \/ KillChild(g)
  <2>1. PICK g \in Setups : Child(g) \/ KillChild(g)
    BY <1>4
  <2>2. UNCHANGED helper /\ g \in unanswered
    BY <2>1, ChildWrites, ChildPaths
  <2>3. CASE helper.pc = "commit"
    <3>1. g = helper.gen /\ mine' = child'[g]
      BY <2>2, <2>3 DEF Alone, Inhibiting, mine
    <3>2. disk'.config = disk.config
      BY <2>1, ChildFiles DEF Things
    <3>3. Durably("profile", g) => disk'.profile = {g}
      <4>1. g \in Holds("profile") /\ FilesTypeOK /\ "profile" \in Things
        BY SetupNumber DEF TypeOK, Holds, Things
      <4> QED BY <4>1, DurablyDoes
    <3>4. mine'.pc = "committed" => disk'.profile = {g}
      BY <2>1, <3>1, <3>3, ChildPaths
    <3> QED BY <1>0, <2>2, <2>3, <3>1, <3>2, <3>4 DEF Published, Own
  <2>4. helper.pc \notin Selecting
    BY <2>2 DEF Alone
  <2> QED BY <1>a, <2>2, <2>3, <2>4
<1>5. CASE Cut
  BY <1>a, <1>5, CutLeaves
<1>6. CASE KillHelper
  BY <1>a, <1>6, NoHelperFields DEF KillHelper, Leave
<1>7. CASE EditProfile \/ EditConfig
  <2>1. mine' = mine /\ UNCHANGED helper
    BY <1>7, EditDoes DEF mine
  <2> QED BY <1>0, <1>7, <2>1, EditDoes DEF Things, Own, Published
<1>8. CASE \/ PackageNext(now.inhibitor) /\ UNCHANGED setupVars
           \/ Abort \/ UNCHANGED vars
  BY <1>b, <1>8 DEF setupVars, Abort, vars
<1> QED BY <1>1, <1>2, <1>3, <1>4, <1>5, <1>6, <1>7, <1>8 DEF Next

LEMMA AckedStep ==
  TypeOK /\ Locks /\ SetupHolds /\ SetupInv /\ [Next]_vars => Acked'
<1> SUFFICES ASSUME TypeOK, Locks, SetupHolds, SetupInv, [Next]_vars PROVE Acked'
  OBVIOUS
<1>0. Acked /\ Inhibited /\ Published
  BY DEF SetupInv
<1>a. helper'.pc = "none" /\ ~helper'.acked => Acked'
  BY DEF Acked
<1>1. CASE Helper
  <2>0. UNCHANGED <<imported, desktop>>
    BY <1>1, HelperDisk
  <2>1. CASE helper'.pc = "none"
    <3>1. ~helper'.acked
      BY <1>0, <1>1, <2>1, HelperForgets DEF Acked
    <3> QED BY <1>a, <2>1, <3>1
  <2>2. CASE helper'.pc # "none"
    <3>1. /\ helper'.gen = helper.gen /\ helper'.acked = helper.acked
          /\ helper'.pc = "clear" => helper.acked
          /\ helper'.pc = "wait" => helper.pc = "ready"
          /\ helper.acked => helper'.pc = "clear"
      BY <1>0, <1>1, <2>2, HelperPaths DEF Acked
    <3>2. helper'.pc = "wait" => desktop # "acknowledge"
      BY <1>0, <3>1 DEF Inhibited, Finishing
    <3> QED BY <1>0, <2>0, <3>1, <3>2 DEF Acked
  <2> QED BY <2>1, <2>2
<1>2. CASE BeginSetup
  <2>1. helper'.pc = "request" /\ ~helper'.acked
    BY <1>2 DEF BeginSetup, NoHelper
  <2> QED BY <2>1 DEF Acked
<1>3. CASE Desktop \/ DesktopCancelled \/ ContextDone
  <2>1. helper'.pc = helper.pc /\ helper'.gen = helper.gen
    BY <1>3, DesktopImports DEF SetupInv
  <2>2. helper.acked => helper'.acked
    <3>1. helper \in HelperRecord
      BY DEF TypeOK
    <3>2. CASE Acknowledge
      BY <3>1, <3>2 DEF Acknowledge, HelperRecord
    <3>3. CASE ContextDone
      BY <3>1, <3>3, HelperHears DEF ContextDone
    <3>4. CASE DesktopReady \/ Finalize \/ DesktopExits \/ DesktopCancelled
      BY <3>4 DEF DesktopReady, Finalize, DesktopExits, DesktopCancelled, desktopOthers
    <3> QED BY <1>3, <3>2, <3>3, <3>4 DEF Desktop
  <2>3. helper'.acked =>
          \/ helper.acked
          \/ desktop = "acknowledge" /\ helper.pc = "wait" /\ UNCHANGED imported
    BY <1>3, DesktopImports DEF SetupInv
  <2>4. helper.acked => UNCHANGED imported
    BY <1>0, <1>3, DesktopImports DEF Inhibited
  <2>5. now.profile \in disk.profile
    BY FilesTypes DEF TypeOK
  <2>6. helper.pc = "wait" /\ desktop' = "acknowledge" => imported' \in Own(helper.gen)
    <3>1. CASE desktop = "finalize" /\ imported' = now.profile
      BY <1>0, <2>5, <3>1 DEF Published, Selecting
    <3>2. CASE desktop = "acknowledge" /\ UNCHANGED imported
      BY <1>0, <3>2 DEF Acked
    <3> QED BY <1>3, <3>1, <3>2, DesktopImports DEF SetupInv
  <2> QED BY <1>0, <2>1, <2>2, <2>3, <2>4, <2>6 DEF Acked
<1>4. CASE \E g \in Setups : Child(g) \/ KillChild(g)
  BY <1>0, <1>4, ChildWrites DEF Acked
<1>5. CASE Cut
  BY <1>a, <1>5, CutLeaves
<1>6. CASE KillHelper
  BY <1>a, <1>6, NoHelperFields DEF KillHelper, Leave
<1>7. CASE EditProfile \/ EditConfig
  BY <1>0, <1>7, EditDoes DEF Acked
<1>8. CASE \/ PackageNext(now.inhibitor) /\ UNCHANGED setupVars
           \/ Abort \/ UNCHANGED vars
  BY <1>0, <1>8 DEF Acked, setupVars, Abort, vars
<1> QED BY <1>1, <1>2, <1>3, <1>4, <1>5, <1>6, <1>7, <1>8 DEF Next

LEMMA SetupInitially == Init => SetupInv /\ Numbered
<1> SUFFICES ASSUME Init PROVE SetupInv /\ Numbered
  OBVIOUS
<1>0. FilesTypeOK
  BY TypeInitially DEF TypeOK
<1>1. PICK v \in {None, 1} :
        /\ now = [inhibitor |-> FALSE, config |-> v, profile |-> v, runtime |-> v]
        /\ imported = v
  BY DEF Init
<1>2. v \in Version
  BY SetupShape DEF Version, Setups
<1>3. \A x \in Things : disk[x] = {now[x]}
  BY <1>1 DEF Init, Things
<1>4. Together(v)
  BY <1>1, <1>3 DEF Together, TreeOf, Own, Things
<1>5. helper.pc = "none" /\ ~helper.acked /\ desktop = "idle"
      /\ \A g \in Setups : child[g].pc = "none"
  BY NoHelperFields DEF Init
<1> QED BY <1>2, <1>4, <1>5
        DEF SetupInv, Inhibited, Agrees, Undoable, Published, Acked, Numbered, unanswered,
            Inhibiting, Selecting, Finishing

(* Unless the inhibitor marks an unfinished setup, configuration, profile, *)
(* imported connection and runtime belong together, or somebody changed    *)
(* configuration or profile: after errors, kills, cancellations and power  *)
(* cuts in any number and order (configureNativeInstallation and its       *)
(* helpers), if no transaction outlives its setup into the next one's      *)
(* inhibitor ("stall"), which only the time that takes excludes.           *)
THEOREM PairsAgree ==
  ASSUME "stall" \notin Hazards
  PROVE  Spec => []PairAgrees
<1> DEFINE Inv == SetupInv /\ Numbered
<1>1. TypeOK /\ Locks /\ SetupHolds /\ Alone /\ Inv /\ [Next]_vars => Inv'
  BY NumberedStep, InhibitedStep, AgreesStep, UndoableStep, PublishedStep, AckedStep
  DEF SetupInv
<1>2. TypeOK /\ Inv => PairAgrees
  <2> SUFFICES ASSUME TypeOK, Inv, ~now.inhibitor, now.config # Foreign
               PROVE  {now.profile, imported, now.runtime} \subseteq {now.config, Foreign}
    BY DEF PairAgrees
  <2>1. /\ FALSE \in disk.inhibitor /\ now.config \in disk.config
        /\ now.profile \in disk.profile /\ now.runtime \in disk.runtime
    BY FilesTypes DEF TypeOK
  <2>2. PICK v \in Version : Together(v)
    BY <2>1 DEF SetupInv, Agrees
  <2> QED BY <2>1, <2>2 DEF Together, TreeOf, Own
<1>3. Init => Inv
  BY SetupInitially
<1> HIDE DEF Inv
<1> QED BY <1>1, <1>2, <1>3, TypeCorrect, LocksInvariant, SetupHoldsInvariant,
           AloneInvariant, PTL DEF Spec
==============================================================================
