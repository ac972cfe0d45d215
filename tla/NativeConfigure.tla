---------------------------- MODULE NativeConfigure ----------------------------
(***************************************************************************)
(* Setting the native gateway up.  A desktop supervisor runs a helper as   *)
(* root through pkexec; the helper generates a root configuration and the  *)
(* client profile that fits it, has a child with the user's identity stage *)
(* the profile, publishes the configuration, commits the profile, selects  *)
(* a server and waits until the desktop has imported the profile.  A       *)
(* persistent inhibitor marks a setup that has begun and not ended.        *)
(*                                                                         *)
(* A version of configuration, profile and runtime is the number of the    *)
(* setup that generated them.  Checking a name and the rename or unlink    *)
(* after it are one step; everything else is a step of its own.            *)
(***************************************************************************)
EXTENDS PackageChange, Integers

CONSTANTS
  MaxSetups,   \* bound on setups
  MaxFaults    \* bound on faults: the Hazards, and here "io" errors, "kill"ed
               \* and "cancel"led processes, "edit"s of the profile, also
               \* between its snapshot and the exchange ("displace"), "cut"s,
               \* "stall"s: a transaction outlives its helper into a next setup

Setups == 1 .. MaxSetups
None == 0
Foreign == 0 - 1
Version == Setups \cup {None, Foreign}
ASSUME SetupShape == MaxSetups \in Nat \ {0} /\ MaxFaults \in Nat

VARIABLES
  now,       \* the inhibitor, the root configuration, the client profile and
             \* the gateway's runtime
  disk,      \* of each, what a power cut may leave
  imported,  \* the version the desktop's network manager has
  helper,    \* native-configure
  child,     \* of each setup: native-profile-transaction
  desktop,   \* native-configure-client
  setups, faults

setupVars == <<now, disk, imported, helper, child, desktop, setups, faults>>
vars == <<packageVars, setupVars>>

HelperPc == {"none", "request", "lock", "check", "generate", "recheck", "inhibit",
             "stage", "staged", "commit", "rollback", "select", "ready", "wait", "clear"}
ChildPc == {"none", "snapshot", "exchange", "ready", "committed", "rolledback", "gone"}
NoHelper == [pc |-> "none", ctx |-> "open", gen |-> None, prior |-> FALSE,
             retain |-> FALSE, acked |-> FALSE]

FilesTypeOK ==
  /\ now \in [inhibitor : BOOLEAN, config : Version, profile : Version, runtime : Version]
  /\ disk \in [inhibitor : SUBSET BOOLEAN, config : SUBSET Version,
               profile : SUBSET Version, runtime : SUBSET Version]
  /\ \A x \in {"inhibitor", "config", "profile", "runtime"} : now[x] \in disk[x]

HelperRecord ==
  [pc : HelperPc, ctx : {"open", "done"}, gen : Setups \cup {None},
   prior : BOOLEAN, retain : BOOLEAN, acked : BOOLEAN]
Excludes(pc) == pc \notin {"none", "request", "lock"}

TypeOK ==
  /\ PackageTypeOK /\ FilesTypeOK
  /\ imported \in Version
  /\ helper \in HelperRecord
  /\ configLock = "setup" <=> Excludes(helper.pc)
  /\ child \in [Setups -> [pc : ChildPc, old : Version]]
  /\ desktop \in {"idle", "wait", "finalize", "acknowledge", "exit"}
  /\ setups \in 0 .. MaxSetups /\ faults \in 0 .. MaxFaults

Fault(h) == h \in Hazards /\ faults < MaxFaults /\ faults' = faults + 1

(***************************************************************************)
(* Files: a change that is synced, and one whose sync failed.              *)
(***************************************************************************)
Durably(x, v) ==
  /\ now' = [now EXCEPT ![x] = v]
  /\ disk' = [disk EXCEPT ![x] = {v}]

Unsynced(x, v) ==
  /\ now' = [now EXCEPT ![x] = v]
  /\ disk' = [disk EXCEPT ![x] = @ \cup {v}]

Unwritten == UNCHANGED <<now, disk>>

(***************************************************************************)
(* The desktop supervisor.                                                 *)
(***************************************************************************)
desktopOthers == <<packageVars, now, disk, child, setups, faults>>

(* One at a time: lockNativeDesktop.  A helper that outlives its desktop   *)
(* makes the next one wait for its lock.                                   *)
BeginSetup ==
  /\ desktop = "idle" /\ helper.pc = "none" /\ setups < MaxSetups /\ installed
  /\ setups' = setups + 1
  /\ helper' = [NoHelper EXCEPT !.pc = "request", !.gen = setups']
  /\ desktop' = "wait"
  /\ UNCHANGED <<packageVars, now, disk, imported, child, faults>>

DesktopReady ==
  /\ desktop = "wait" /\ helper.pc \in {"none", "wait"}
  /\ desktop' = IF helper.pc = "wait" THEN "finalize" ELSE "idle"
  /\ UNCHANGED <<desktopOthers, imported, helper>>

(* The profile is imported, the subscription written; either may fail.     *)
Finalize ==
  /\ desktop = "finalize"
  /\ \/ desktop' = "idle" /\ imported' \in {imported, now.profile}
     \/ desktop' = "acknowledge" /\ imported' = now.profile
  /\ UNCHANGED <<desktopOthers, helper>>

Acknowledge ==
  /\ desktop = "acknowledge"
  /\ IF helper.pc = "wait"
       THEN desktop' = "exit" /\ helper' = [helper EXCEPT !.acked = TRUE]
       ELSE desktop' = "idle" /\ UNCHANGED helper
  /\ UNCHANGED <<desktopOthers, imported>>

(* The helper has exited, or is given up.                                  *)
DesktopExits ==
  /\ desktop = "exit" /\ desktop' = "idle"
  /\ UNCHANGED <<desktopOthers, imported, helper>>

DesktopCancelled ==
  /\ Fault("cancel") /\ desktop # "idle" /\ desktop' = "idle"
  /\ UNCHANGED <<packageVars, now, disk, imported, helper, child, setups>>

(***************************************************************************)
(* The helper's context: the end of its input, the death of its parent,    *)
(* and its own deadlines.                                                  *)
(***************************************************************************)
helperOthers == <<worker, block, package, recovery, files, gateway, changes,
                  imported, desktop, setups>>

ContextDone ==
  /\ helper.pc # "none" /\ helper.ctx = "open"
  /\ IF desktop = "idle" THEN UNCHANGED faults ELSE Fault("cancel")
  /\ helper' = [helper EXCEPT !.ctx = "done"]
  /\ UNCHANGED <<helperOthers, configLock, now, disk, child>>

(***************************************************************************)
(* configureNativeInstallation.                                            *)
(***************************************************************************)
Goto(pc) == helper' = [helper EXCEPT !.pc = pc] /\ UNCHANGED configLock
Leave    == helper' = NoHelper /\ configLock' = IF configLock = "setup" THEN "none" ELSE configLock
live     == helper.ctx = "open"
mine     == child[helper.gen]

(* A malformed request, a timeout, or an installation that is not valid.   *)
ReadRequest ==
  /\ helper.pc = "request"
  /\ (live /\ Goto("lock")) \/ Leave
  /\ UNCHANGED <<helperOthers, now, disk, child, faults>>

unanswered == {g \in Setups : child[g].pc \in {"snapshot", "exchange", "ready"}}

(* Mutant: the setup shares the lock with starts and operations.           *)
HelperLockShared ==
  /\ helper.pc = "lock"
  /\ \/ live /\ Lockable /\ Goto("check")
     \/ ~live /\ Leave
  /\ UNCHANGED <<helperOthers, now, disk, child, faults>>

HelperLock ==
  /\ helper.pc = "lock"
  /\ \/ /\ live /\ Lockable
        /\ configLock' = "setup" /\ helper' = [helper EXCEPT !.pc = "check"]
     \/ ~live /\ Leave
  /\ UNCHANGED <<helperOthers, now, disk, child, faults>>

(* Mutant: what runs is not looked at.                                     *)
CheckBlockOnly ==
  /\ \/ helper.pc = "check" /\ live /\ ~block /\ Goto("generate")
     \/ helper.pc = "recheck" /\ live /\ Goto("inhibit") /\ unanswered = {}
     \/ helper.pc \in {"check", "recheck"} /\ Leave
  /\ UNCHANGED <<helperOthers, now, disk, child, faults>>

(* Neither blocked nor running, before and after the generation.  Nothing  *)
(* excludes the transaction of a helper that was killed but the time that  *)
(* takes.                                                                  *)
Check ==
  /\ \/ helper.pc = "check" /\ live /\ ~block /\ ~gateway.network /\ Goto("generate")
     \/ /\ helper.pc = "recheck" /\ live /\ ~gateway.network /\ Goto("inhibit")
        /\ unanswered = {} \/ "stall" \in Hazards
     \/ helper.pc \in {"check", "recheck"} /\ Leave
  /\ UNCHANGED <<helperOthers, now, disk, child, faults>>

(* The subscription is loaded, keys and both configurations are made.      *)
Generate ==
  /\ helper.pc = "generate"
  /\ (live /\ Goto("recheck")) \/ Leave
  /\ UNCHANGED <<helperOthers, now, disk, child, faults>>

Inhibit ==
  /\ helper.pc = "inhibit"
  /\ \/ /\ Durably("inhibitor", TRUE) /\ UNCHANGED <<configLock, faults, child>>
        /\ helper' = [helper EXCEPT !.pc = "stage", !.prior = now.inhibitor]
     \/ /\ Fault("io") /\ Leave /\ UNCHANGED child
        /\ Unsynced("inhibitor", TRUE) \/ Unwritten
  /\ UNCHANGED helperOthers

StartTransaction ==
  /\ helper.pc = "stage" /\ mine.pc = "none"
  /\ child' = [child EXCEPT ![helper.gen].pc = "snapshot"]
  /\ UNCHANGED <<helperOthers, configLock, helper, now, disk, faults>>

(* A failure to stage keeps the inhibitor.                                 *)
Staged ==
  /\ helper.pc = "stage"
  /\ \/ mine.pc = "ready" /\ Goto("staged")
     \/ mine.pc = "gone" /\ Leave
  /\ UNCHANGED <<helperOthers, now, disk, child, faults>>

(* A tree that is not exactly what an earlier setup published is refused.  *)
replaceable == now.config # Foreign

(* The stage could not be filled; it is removed again.                     *)
NotPublished == Unwritten /\ Goto("rollback")

(* NativeConfigurationCommittedError: published, but not synced, or the    *)
(* former tree could not be removed.                                       *)
PublishedWithError ==
  /\ Unsynced("config", helper.gen) /\ UNCHANGED configLock
  /\ helper' = [helper EXCEPT !.pc = "commit", !.retain = TRUE]

(* Mutant: the parent directory is not synced after the exchange.          *)
PublishUnsynced ==
  /\ helper.pc = "staged"
  /\ IF live /\ replaceable
       THEN \/ Unsynced("config", helper.gen) /\ Goto("commit") /\ UNCHANGED faults
            \/ Fault("io") /\ NotPublished
       ELSE NotPublished /\ UNCHANGED faults
  /\ UNCHANGED <<helperOthers, child>>

Publish ==
  /\ helper.pc = "staged"
  /\ IF live /\ replaceable
       THEN \/ Durably("config", helper.gen) /\ Goto("commit") /\ UNCHANGED faults
            \/ Fault("io") /\ (NotPublished \/ PublishedWithError)
       ELSE NotPublished /\ UNCHANGED faults
  /\ UNCHANGED <<helperOthers, child>>

Committed ==
  /\ helper.pc = "commit"
  /\ \/ mine.pc = "committed" /\ (IF helper.retain THEN Leave ELSE Goto("select"))
     \/ mine.pc = "gone" /\ Leave
  /\ UNCHANGED <<helperOthers, now, disk, child, faults>>

(* clearAfterRollback.                                                     *)
RolledBack ==
  /\ helper.pc = "rollback"
  /\ \/ /\ mine.pc = "rolledback" /\ ~helper.prior
        /\ \/ Durably("inhibitor", FALSE) /\ UNCHANGED faults
           \/ Fault("io") /\ (Unsynced("inhibitor", FALSE) \/ Unwritten)
     \/ /\ mine.pc = "gone" \/ (mine.pc = "rolledback" /\ helper.prior)
        /\ Unwritten /\ UNCHANGED faults
  /\ Leave /\ UNCHANGED <<helperOthers, child>>

(* runNativeInitialSelection generates the runtime from the configuration  *)
(* and the best server; then the user is enrolled.  Any of it may fail.    *)
Select ==
  /\ helper.pc = "select"
  /\ \/ /\ live /\ Durably("runtime", now.config) /\ UNCHANGED faults
        /\ Goto("ready") \/ Leave
     \/ Unwritten /\ UNCHANGED faults /\ Leave
     \/ Fault("io") /\ Unsynced("runtime", now.config) /\ Leave
  /\ UNCHANGED <<helperOthers, child>>

readyAndWait ==
  /\ \/ helper.pc = "ready" /\ (IF live THEN Goto("wait") ELSE Leave)
     \/ helper.pc = "wait" /\ helper.acked /\ Goto("clear")
     \/ helper.pc = "wait" /\ ~live /\ Leave
  /\ UNCHANGED <<helperOthers, now, disk, child, faults>>

Clear ==
  /\ helper.pc = "clear" /\ Leave
  /\ \/ live /\ Durably("inhibitor", FALSE) /\ UNCHANGED faults
     \/ ~live /\ Unwritten /\ UNCHANGED faults
     \/ Fault("io") /\ (Unsynced("inhibitor", FALSE) \/ Unwritten)
  /\ UNCHANGED <<helperOthers, child>>

(***************************************************************************)
(* The profile transaction of setup g.                                     *)
(***************************************************************************)
childOthers == <<packageVars, imported, helper, desktop, setups>>
Becomes(g, pc) == child' = [child EXCEPT ![g].pc = pc]

(* The path is unsafe, the profile not valid, or a file cannot be made.    *)
Refuse(g) ==
  /\ child[g].pc = "snapshot"
  /\ Becomes(g, "gone")
  /\ UNCHANGED <<childOthers, now, disk, faults>>

(* Both the name and what is under it are what the transaction put there.  *)
staged(g) == now.profile = g

Snapshot(g) ==
  /\ child[g].pc = "snapshot"
  /\ child' = [child EXCEPT ![g] = [pc |-> "exchange", old |-> now.profile]]
  /\ UNCHANGED <<childOthers, now, disk, faults>>

(* If the name no longer leads to the snapshot's file the exchange is done *)
(* all the same and not undone; a first profile is not put over another.   *)
Exchange(g) ==
  /\ child[g].pc = "exchange"
  /\ LET unchanged == now.profile = child[g].old IN
     \/ unchanged /\ Durably("profile", g) /\ Becomes(g, "ready") /\ UNCHANGED faults
     \/ /\ ~unchanged /\ Becomes(g, "gone") /\ UNCHANGED faults
        /\ IF child[g].old = None THEN Unwritten ELSE Unsynced("profile", g)
     \/ /\ Fault("io") /\ Becomes(g, "gone")
        /\ now' = now /\ disk' = [disk EXCEPT !.profile = @ \cup {g}]
  /\ UNCHANGED childOthers

(* Neither the destination nor what was there before has changed; a commit *)
(* that fails is followed by a rollback that may fail as well.             *)
Uncertain(g) ==
  /\ Fault("io") /\ Becomes(g, "gone")
  /\ Unsynced("profile", g) \/ Unsynced("profile", child[g].old)

Commit(g) ==
  /\ helper.pc = "commit" /\ helper.gen = g /\ child[g].pc = "ready"
  /\ IF staged(g)
       THEN \/ Durably("profile", g) /\ Becomes(g, "committed") /\ UNCHANGED faults
            \/ Uncertain(g)
       ELSE Unwritten /\ Becomes(g, "gone") /\ UNCHANGED faults
  /\ UNCHANGED childOthers

(* Mutant: a rollback puts the old profile over whatever is there.         *)
RollbackOver(g, pc) ==
  /\ \/ Durably("profile", child[g].old) /\ Becomes(g, pc) /\ UNCHANGED faults
     \/ Uncertain(g)
  /\ UNCHANGED childOthers

Rollback(g, pc) ==
  /\ IF staged(g)
       THEN \/ Durably("profile", child[g].old) /\ Becomes(g, pc) /\ UNCHANGED faults
            \/ Uncertain(g)
       ELSE Unwritten /\ Becomes(g, "gone") /\ UNCHANGED faults
  /\ UNCHANGED childOthers

RollbackAsked(g) ==
  /\ helper.pc = "rollback" /\ helper.gen = g /\ child[g].pc = "ready"
  /\ Rollback(g, "rolledback")

(* Mutant: the end of the input is not an answer.                          *)
InterruptedBySignal(g) ==
  /\ child[g].pc = "ready" /\ helper.gen = g /\ ~live
  /\ Rollback(g, "gone")

(* SIGTERM, the end of the input: rolled back without an answer.           *)
Interrupted(g) ==
  /\ child[g].pc = "ready" /\ (helper.gen # g \/ ~live)
  /\ Rollback(g, "gone")

Child(g) ==
  Refuse(g) \/ Snapshot(g) \/ Exchange(g) \/ Commit(g) \/ RollbackAsked(g) \/ Interrupted(g)

(***************************************************************************)
(* Faults.                                                                 *)
(***************************************************************************)
(* The kernel frees the lock of a helper that is killed.                   *)
KillHelper ==
  /\ Fault("kill") /\ helper.pc # "none" /\ Leave
  /\ UNCHANGED <<helperOthers, now, disk, child>>

KillChild(g) ==
  /\ Fault("kill") /\ g \in unanswered
  /\ Becomes(g, "gone")
  /\ UNCHANGED <<childOthers, now, disk>>

(* An edit at any other time is like one when the next setup begins.       *)
busy == helper.pc # "none" \/ unanswered # {}

EditProfile ==
  /\ Fault("edit") /\ busy /\ now.profile # Foreign
  /\ IF \E g \in Setups : child[g].pc = "exchange"
       THEN now.profile = None \/ "displace" \in Hazards
       ELSE now.profile # None
  /\ Unsynced("profile", Foreign)
  /\ UNCHANGED <<packageVars, imported, helper, child, desktop, setups>>

EditConfig ==
  /\ Fault("edit") /\ busy /\ now.config \notin {None, Foreign}
  /\ Unsynced("config", Foreign)
  /\ UNCHANGED <<packageVars, imported, helper, child, desktop, setups>>

Cut ==
  /\ Fault("cut") /\ PowerCut
  /\ now' \in [inhibitor : disk.inhibitor, config : disk.config,
             profile : disk.profile, runtime : disk.runtime]
  /\ disk' = [x \in DOMAIN now |-> {now'[x]}]
  /\ helper' = NoHelper /\ desktop' = "idle"
  /\ child' = [g \in Setups |-> [child[g] EXCEPT !.pc = IF @ = "none" THEN @ ELSE "gone"]]
  /\ UNCHANGED <<imported, setups>>

Abort == Fault("abort") /\ AbortChange /\ UNCHANGED <<now, disk, imported, helper, child, desktop, setups>>

(***************************************************************************)
Init ==
  /\ PackageInit
  /\ \E v \in {None, 1} :
       /\ v = None \/ installed
       /\ now = [inhibitor |-> FALSE, config |-> v, profile |-> v, runtime |-> v]
       /\ imported = v /\ setups = v
  /\ disk = [x \in DOMAIN now |-> {now[x]}]
  /\ helper = NoHelper /\ desktop = "idle" /\ faults = 0
  /\ child = [g \in Setups |-> [pc |-> "none", old |-> None]]

Desktop == DesktopReady \/ Finalize \/ Acknowledge \/ DesktopExits

Helper ==
  \/ ReadRequest \/ HelperLock \/ Check \/ Generate \/ Inhibit \/ StartTransaction \/ Staged \/ Publish
  \/ Committed \/ RolledBack \/ Select \/ readyAndWait \/ Clear

Next ==
  \/ PackageNext(now.inhibitor) /\ UNCHANGED setupVars
  \/ BeginSetup \/ Desktop \/ DesktopCancelled \/ ContextDone \/ Helper
  \/ \E g \in Setups : Child(g) \/ KillChild(g)
  \/ KillHelper \/ EditProfile \/ EditConfig \/ Cut \/ Abort

Spec == Init /\ [][Next]_vars

(***************************************************************************)
(* Properties.                                                             *)
(***************************************************************************)

(* Unless the inhibitor marks an unfinished setup, the root configuration, *)
(* the client profile, the imported connection and the runtime belong      *)
(* together (or somebody changed configuration or profile), after errors,  *)
(* kills, cancellations and power cuts in any order                        *)
(* (configureNativeInstallation and its helpers).                          *)
PairAgrees ==
  ~now.inhibitor /\ now.config # Foreign =>
    {now.profile, imported, now.runtime} \subseteq {now.config, Foreign}

(* No setup replaces the root configuration under a running network,       *)
(* gateway or worker, nor while the package's files are (configLock,       *)
(* inactive); an edit and a power cut that loses one are not a setup's.    *)
ConfigStable ==
  [][now'.config \notin {now.config, Foreign} \cup disk.config =>
       ~gateway.network /\ ~worker /\ ~(block /\ package.pc = "replace")]_vars

(* A profile that somebody else wrote is replaced only by a transaction    *)
(* that found it there and can put it back, a configuration by none: no    *)
(* commit and no rollback overwrites them.  A power cut may lose either    *)
(* before it is on the disk (nativeProfileFileTransaction,                 *)
(* inspectNativeConfigurationTarget).                                      *)
ForeignKept ==
  [][/\ now.profile = Foreign /\ now'.profile # Foreign =>
          \/ \E g \in Setups : now'.profile = g /\ child[g].old = Foreign
          \/ now'.profile \in disk.profile
     /\ now.config = Foreign /\ now'.config # Foreign => now'.config \in disk.config]_vars

(***************************************************************************)
(* Fairness: the processes run; what the desktop does is bounded by its    *)
(* deadlines, the helper's context by ten minutes and by its parent.       *)
(***************************************************************************)
Steps == Desktop \/ Helper \/ (ContextDone /\ desktop = "idle") \/ \E g \in Setups : Child(g)
FairSpec == Spec /\ WF_vars(Steps)

(* Every setup ends: the helper gives the lock back, the profile           *)
(* transaction leaves nothing staged and unanswered, whoever dies.         *)
SetupEnds ==
  /\ helper.pc \notin {"none", "request", "lock"} ~> helper.pc = "none"
  /\ \A g \in Setups : child[g].pc = "ready" ~> child[g].pc # "ready"
==============================================================================
