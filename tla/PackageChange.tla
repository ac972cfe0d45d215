----------------------------- MODULE PackageChange -----------------------------
(***************************************************************************)
(* Replacing the installed package beside a gateway that may run: the      *)
(* native configuration lock (one exclusive holder or many shared ones),   *)
(* the block in /run that refuses starts, the hooks of the package manager *)
(* and the administrator's recovery; against them the start of the network *)
(* unit, the staging of the gateway's runtime and the workers of server    *)
(* operations.                                                             *)
(*                                                                         *)
(* The inhibitor of an unfinished setup is NativeConfigure's, which        *)
(* composes these actions with those of the setup.                         *)
(***************************************************************************)
EXTENDS Naturals, FiniteSets

CONSTANTS
  Hazards,     \* here: "abort"ed changes, "window" between check and block,
               \* "torn": half of the files are left and no block: by a power
               \* cut, or by an aborted first installation
  MaxChanges,  \* bound on package changes
  Packages,    \* versions of the package
  Installed,   \* the one installed at first, or Absent
  Contract     \* the runtime contract each is built with

Absent == 0
ASSUME PackageShape ==
  /\ MaxChanges \in Nat /\ Absent \notin Packages
  /\ DOMAIN Contract = Packages /\ Installed \subseteq Packages \cup {Absent}

VARIABLES
  configLock,  \* who holds it exclusively
  worker,      \* a worker of a server operation runs, and holds it shared
  block,       \* the package block
  package,     \* the package manager's change; database: its lock is there
  recovery,    \* the administrator's recovery
  files,       \* installed versions: of the command line, of the proxy
  gateway,     \* network unit and gateway unit, and what the latter runs
  changes

packageVars == <<configLock, worker, block, package, recovery, files, gateway, changes>>

Files == {"cli", "proxy"}
Stopped == [network |-> FALSE, pc |-> "inactive", cli |-> Absent, proxy |-> Absent]

Change ==
  [pc : {"idle", "hook", "prepare", "mark", "replace", "post"},
   kind : {"none", "install", "upgrade", "remove"},
   new : Packages \cup {Absent}, database : BOOLEAN]
Gateway ==
  [network : BOOLEAN, pc : {"inactive", "staging", "staged", "active"},
   cli : Packages \cup {Absent}, proxy : Packages \cup {Absent}]

PackageTypeOK ==
  /\ configLock \in {"none", "package", "recovery", "setup"}
  /\ worker \in BOOLEAN /\ block \in BOOLEAN
  /\ package \in Change /\ gateway \in Gateway
  /\ recovery \in {"idle", "inspect", "finish"}
  /\ files \in [Files -> Packages \cup {Absent}]
  /\ changes \in 0 .. MaxChanges

(* flock: an exclusive holder waits for the shared ones as well.           *)
Shareable == configLock = "none"
Lockable  == configLock = "none" /\ ~worker

installed == files["cli"] # Absent
whole     == installed /\ files["cli"] = files["proxy"]

(* checkRunningNativeContract.                                             *)
contractHolds ==
  \/ gateway.pc = "inactive"
  \/ gateway.pc = "active" /\ installed /\ Contract[gateway.cli] = Contract[files["cli"]]

(***************************************************************************)
(* The package manager.  An installation has no hook before it.            *)
(***************************************************************************)
Step(pc) == package' = [package EXCEPT !.pc = pc]
NoChange  == [pc |-> "idle", kind |-> "none", new |-> Absent, database |-> FALSE]
EndChange == package' = NoChange

BeginChange ==
  /\ package.pc = "idle" /\ ~package.database /\ changes < MaxChanges
  /\ changes' = changes + 1
  /\ \E v \in (Packages \cup {Absent}) \ {files["cli"]} :
       package' = [pc   |-> IF installed THEN "hook" ELSE "replace",
                   kind |-> IF ~installed THEN "install"
                            ELSE IF v = Absent THEN "remove" ELSE "upgrade",
                   new  |-> v, database |-> TRUE]
  /\ UNCHANGED <<configLock, worker, block, recovery, files, gateway>>

LockForChange ==
  /\ package.pc = "hook" /\ Lockable
  /\ configLock' = "package" /\ Step("prepare")
  /\ UNCHANGED <<worker, block, recovery, files, gateway, changes>>

(* A hook that fails, or waits too long, aborts the change.                *)
HookFails ==
  /\ package.pc \in {"hook", "prepare"} /\ EndChange
  /\ configLock' = IF package.pc = "prepare" THEN "none" ELSE configLock
  /\ UNCHANGED <<worker, block, recovery, files, gateway, changes>>

PrepareUpgrade ==
  /\ package.pc = "prepare" /\ package.kind = "upgrade" /\ contractHolds
  /\ Step("mark")
  /\ UNCHANGED <<configLock, worker, block, recovery, files, gateway, changes>>

PrepareRemoval ==
  /\ package.pc = "prepare" /\ package.kind = "remove"
  /\ gateway' = Stopped /\ Step("mark")
  /\ UNCHANGED <<configLock, worker, block, recovery, files, changes>>

SetBlock ==
  /\ package.pc = "mark"
  /\ block' = TRUE /\ configLock' = "none" /\ Step("replace")
  /\ UNCHANGED <<worker, recovery, files, gateway, changes>>

ReplaceFiles ==
  /\ package.pc = "replace"
  /\ \E f \in Files : files[f] # package.new /\ files' = [files EXCEPT ![f] = package.new]
  /\ UNCHANGED <<configLock, worker, block, package, recovery, gateway, changes>>

(* All files, or, when the change is undone, none of them.                 *)
EndReplacing ==
  /\ package.pc = "replace" /\ files["cli"] = files["proxy"]
  /\ IF installed THEN Step("post") ELSE EndChange
  /\ UNCHANGED <<configLock, worker, block, recovery, files, gateway, changes>>

(* completeNativePackageChangeLocked: it validates, then lifts the block.  *)
lifted == IF whole /\ contractHolds THEN FALSE ELSE block

CompleteChange ==
  /\ package.pc = "post" /\ Lockable
  /\ block' = lifted /\ EndChange
  /\ UNCHANGED <<configLock, worker, recovery, files, gateway, changes>>

(* The package manager dies; its database lock may stay behind.            *)
AbortChange ==
  /\ package.pc \in {"replace", "post"}
  /\ package.kind = "install" /\ ~whole => "torn" \in Hazards
  /\ \E left \in BOOLEAN : package' = [NoChange EXCEPT !.database = left]
  /\ UNCHANGED <<configLock, worker, block, recovery, files, gateway, changes>>

RemoveDatabaseLock ==
  /\ package.pc = "idle" /\ package.database
  /\ EndChange
  /\ UNCHANGED <<configLock, worker, block, recovery, files, gateway, changes>>

(***************************************************************************)
(* RecoverNativePackageChange.                                             *)
(***************************************************************************)
(* Mutant: the database is inspected before the lock is taken.             *)
RecoverUnlocked ==
  /\ recovery = "idle"
  /\ recovery' = "inspect"
  /\ UNCHANGED <<configLock, worker, block, package, files, gateway, changes>>

Recover ==
  /\ recovery = "idle" /\ Lockable
  /\ configLock' = "recovery" /\ recovery' = "inspect"
  /\ UNCHANGED <<worker, block, package, files, gateway, changes>>

RecoverInspect ==
  /\ recovery = "inspect"
  /\ IF package.database
       THEN recovery' = "idle" /\ configLock' = "none"
       ELSE recovery' = "finish" /\ UNCHANGED configLock
  /\ UNCHANGED <<worker, block, package, files, gateway, changes>>

RecoverFinish ==
  /\ recovery = "finish"
  /\ block' = lifted /\ recovery' = "idle" /\ configLock' = "none"
  /\ UNCHANGED <<worker, package, files, gateway, changes>>

(***************************************************************************)
(* Starts.  The network unit's start holds the lock, shared, throughout;   *)
(* staging the runtime looks at the block only.                            *)
(***************************************************************************)
StartNetwork(incomplete) ==
  /\ ~gateway.network /\ Shareable /\ ~block /\ ~incomplete /\ installed
  /\ gateway' = [gateway EXCEPT !.network = TRUE]
  /\ UNCHANGED <<configLock, worker, block, package, recovery, files, changes>>

StageNativeRuntime ==
  /\ gateway.network /\ gateway.pc = "inactive" /\ installed /\ ~block
  /\ package.pc = "mark" => "window" \in Hazards
  /\ gateway' = [gateway EXCEPT !.pc = "staging"]
  /\ UNCHANGED <<configLock, worker, block, package, recovery, files, changes>>

copyRuntimeBinary ==
  /\ gateway.pc = "staging" /\ files["proxy"] # Absent
  /\ gateway' = [gateway EXCEPT !.pc = "staged", !.proxy = files["proxy"]]
  /\ UNCHANGED <<configLock, worker, block, package, recovery, files, changes>>

Serve ==
  /\ gateway.pc = "staged" /\ installed
  /\ gateway' = [gateway EXCEPT !.pc = "active", !.cli = files["cli"]]
  /\ UNCHANGED <<configLock, worker, block, package, recovery, files, changes>>

(* Stopped, or failed; the network may stay.                               *)
GatewayStops ==
  /\ gateway.network
  /\ \E up \in {gateway.pc # "inactive", FALSE} : gateway' = [Stopped EXCEPT !.network = up]
  /\ UNCHANGED <<configLock, worker, block, package, recovery, files, changes>>

StartWorker(incomplete) ==
  /\ ~worker /\ Shareable /\ ~block /\ gateway.pc = "active" /\ ~incomplete
  /\ worker' = TRUE
  /\ UNCHANGED <<configLock, block, package, recovery, files, gateway, changes>>

WorkerEnds ==
  /\ worker /\ worker' = FALSE
  /\ UNCHANGED <<configLock, block, package, recovery, files, gateway, changes>>

(* A power cut empties /run.                                               *)
PowerCut ==
  /\ package.pc \in {"replace", "post"} \/ ~whole => "torn" \in Hazards
  /\ configLock' = "none" /\ worker' = FALSE /\ block' = FALSE /\ recovery' = "idle"
  /\ package' = [NoChange EXCEPT !.database = package.database] /\ gateway' = Stopped
  /\ UNCHANGED <<files, changes>>

PackageInit ==
  /\ configLock = "none" /\ worker = FALSE /\ block = FALSE /\ recovery = "idle"
  /\ package = NoChange
  /\ files \in {[f \in Files |-> v] : v \in Installed}
  /\ gateway = Stopped /\ changes = 0

(* incomplete: the setup's inhibitor is there.                             *)
PackageNext(incomplete) ==
  \/ BeginChange \/ LockForChange \/ HookFails \/ PrepareUpgrade \/ PrepareRemoval
  \/ SetBlock \/ ReplaceFiles \/ EndReplacing \/ CompleteChange \/ RemoveDatabaseLock
  \/ Recover \/ RecoverInspect \/ RecoverFinish
  \/ StartNetwork(incomplete) \/ StageNativeRuntime \/ copyRuntimeBinary \/ Serve
  \/ GatewayStops \/ StartWorker(incomplete) \/ WorkerEnds

(***************************************************************************)
(* Properties.                                                             *)
(***************************************************************************)

(* While a change that had a hook replaces files nothing may be started    *)
(* and no worker of an operation runs, whoever recovers, completes or      *)
(* aborts what (PrepareNativePackageUpgrade, RecoverNativePackageChange).  *)
ChangeExcludes ==
  package.pc = "replace" /\ package.kind # "install" => block /\ ~worker

(* The proxy that an active gateway keeps to is of the same package as its *)
(* supervisor: "subsequent proxy restarts use the same code as the         *)
(* supervisor" (native_hot_upgrade_linux.go:35).                        *)
PinnedSameCode == gateway.pc = "active" => gateway.proxy = gateway.cli

(* Once a change is over and starts are allowed again, a gateway that ran  *)
(* through it honours the contract of the package now installed            *)
(* (checkRunningNativeContract, CompleteNativePackageChange).              *)
RunningIsCompatible ==
  package.pc = "idle" /\ ~block /\ gateway.pc = "active" =>
    installed /\ Contract[gateway.cli] = Contract[files["cli"]]

(* No change of packages, interrupted or not, pulls the code from under    *)
(* what runs.                                                              *)
PackageSafe == ChangeExcludes /\ PinnedSameCode /\ RunningIsCompatible
==============================================================================
