# local-vpn-kde: formal models

TLA+ models of the parts of this repository that keep state other processes
depend on, the TLC runs that check them, and TLAPS proofs about them. Paths are
relative to `src/`. Definitions have the names of the code they translate where
TLA+ allows it; `PROJECT.json` ("map") gives the lines of each.

## 1. The system

local-vpn-kde runs a sing-box based VPN on a Linux desktop, in one of two
editions: a container managed by Docker (`scripts/vpnkit/vpnkit-local.sh`,
`docker/`), or a native gateway in a network namespace of its own, run by systemd
(`internal/nativegateway`, `internal/localvpn/native_*`). A Go command,
`vibe-vpn`, selects the server and applies it; a terminal UI
(`scripts/vpnkit/tui`) talks to a bridge (`internal/localvpn/bridge_linux.go`).

| Component | State it keeps | Operations | Talks to | Hard behaviour |
|---|---|---|---|---|
| **Native network transaction** `internal/nativegateway/{transaction,network,journal,inspect,identity*}_linux.go`, `internal/localvpn/native_network_linux.go` | some twenty kernel effects (namespace, veth, rules, routes, nft, sysctls), a durable journal with phases and identities | Start, Status, Stop, rollback, reconcile, repair of routes, final sweep | kernel tools; systemd units call it | crash between any two commands, reboot, other administrators, processes inside the namespace, reused names |
| **Selection transaction** `cmd/vibe-vpn/main.go`, `internal/state`, `internal/singbox`, `internal/localvpn/{container,dns,routing}_linux.go` | runtime configuration, two state files, transaction journal, request/acknowledgement/generation files | apply, abort, recover, DNS switch; the gateway's sync, take, restart, acknowledge | files only: the lock, the restart request, the acknowledgement | crash, late or lost acknowledgement, gateway death, failing writes, two-file state |
| **Operation supervisor** `cmd/vibe-vpn-server-op-supervisor`, `vpnkit-local.sh: server_browser_command` | one record per token, a worker's process group | prepare, run, cancel, verify | `docker exec`, /proc, signals | four concurrent commands on one record, PID reuse, killed runner, detached client |
| **Package changes** `native_configuration_lock_linux.go`, `native_package*_linux.go`, `native_hot_upgrade_linux.go` | shared/exclusive lock, a block in /run, the installed files, the pinned runtime | hooks of install, upgrade, removal; recovery; starts and staging | the package manager, systemd | interrupted upgrade, recovery beside a live change, a gateway that goes on through an upgrade |
| **Native setup** `native_configure*_linux.go`, `native_profile_transaction_linux.go`, `native_config_publish_linux.go`, `native_setup_inhibitor_linux.go` | root configuration, client profile, imported connection, runtime, a persistent inhibitor | generate, stage, publish, commit, roll back, select, acknowledge | desktop supervisor, root helper, profile child, over pipes | any of three processes dies, unsynced directories, edits by the user |
| **TUI bridge** `bridge_linux.go`, `process_linux.go`, `native_{configure_client,operations}_linux.go`, `tui/bridge.ts` | requests in flight, two admission gates, a status | request, cancel, refresh, reconnect | the TUI over stdio, child process groups, privileged helpers over pipes | shared/exclusive admission, cancellation, descendants, helpers that outlive a cancelled setup or profile request, stale status |
| **Server catalog** `cmd/vibe-vpn/server_browser.go`, `internal/picker/browser.go`, `internal/state` | six sealed files, a generation and a revision | list, refresh, measure, select; publish, abort, recover, migrate | the state lock | crash between files, publications overtaking each other |
| **Batch checks** `cmd/vibe-vpn/server_{check,speed}_batch.go`, `internal/picker/check_stream.go`, `internal/nettest` | worker pool, download slot, publication mutex | ping, availability, download, publish, report | a proxy per worker, the catalog, the reader of its output | frames and publications racing cancellation |
| Native units and services `native_service_linux.go`, `units_linux.go`, `native_runtime_linux.go`, `native_notify_linux.go` | systemd unit states, invocation IDs | start, stop, status, readiness, policy reload | systemd, the network transaction | stale exit status, ordering of units, failure propagation |
| Desktop VPN, autostart `networkmanager_linux.go`, `autostart*_linux.go`, `native_desktop_linux.go` | NetworkManager connection, capability file, user unit, last result | import, harden, activate, migrate, retry at login | nmcli, systemd --user | partial import, ownership, retries |
| Profiles and subscriptions | profile cache | fetch, parse | HTTP | parsing of untrusted text |
| Rendering, installer, packaging, diagnostics, screens | generated files | sequential | package managers, Docker | mostly I/O |
| Shell host routing `vpnkit-local-underlay-routing.sh` | routes of the container edition, an ownership record | up, down, recover | ip, NetworkManager | crash, foreign routes |

What makes each of the modelled parts correct, in a sentence: everything the network
service has on the host can be found and removed again, and nothing else is ever
removed; the server that is recorded is the server that runs; a caller told that its
operation is over is told the truth; no package change pulls the code from under what
runs; configuration, profile, import and runtime are of one setup, or marked
incomplete; what the bridge runs for an exclusive request runs alone, and the answers
that report on the system are not older than what the requests in hand did to it;
readers of the catalog see whole publications that are never taken back; what is
reported as complete is published. The properties below say it in parts, with their
exceptions.

## 2. Plan

1. `NetworkPlan`, `NativeNetwork`; proofs of types, ledger, write-ahead and all step
   properties. **Done.**
2. `SelectionTransaction` and the abstract `AtomicSelection` it implements; proofs of
   types, `SelectionAgrees`, `RuntimeProved` and the refinement. **Done.**
3. `OpSupervisor`; proofs of types and all safety properties. **Done.**
4. `PackageChange`, composed with `NativeConfigure`; proofs of types and all safety
   properties. **Done.**
5. `TuiBridge`; proofs of types and all safety properties. **Done.**
6. `ServerChecks`; proofs of types and all safety properties. **Done.**
7. `ServerCatalog` and the abstract `AtomicCatalog` it implements; proofs of types, all
   safety properties and the refinement. **Done.**
8. Later: `NativeLifecycle` (units, `NativeService.Start/Stop` with invocations) and
   `DesktopConnection` (ownership of the NetworkManager connection).

Each component has one run with every hazard that does not make a stated
exception true, with its liveness in the same run where the instance is small
enough, and at most one run per finding.

## 3. Modules

| Module | What it is |
|---|---|
| `NetworkPlan` | data of the network transaction: the plan and its order, the ledger, identities, `validateJournal` |
| `NativeNetwork` | control of the network transaction and its environment; properties |
| `MCNativeNetwork` | instances: the full plan of `PlanNetwork`; a small plan with one effect of each sort |
| `NativeNetworkProofs` | type correctness |
| `NativeLedgerProofs` | the ledger invariant, write-ahead; what a start and a stop rely on |
| `AtomicSelection` | abstract: a selection changes whole or not at all |
| `SelectionTransaction`, `MCSelection` | the apply transaction, the restart handshake; instances |
| `SelectionProofs` | types, agreement of the files, what an acknowledgement means, the refinement |
| `OpSupervisor`, `MCOpSupervisor` | one server operation; instances |
| `OpSupervisorProofs` | types, whose group is signalled, when it is reaped and settled, what a return means |
| `PackageChange` | lock, block, hooks, recovery, and the starts they exclude |
| `NativeConfigure`, `MCNativeConfigure` | setting the gateway up, composed with `PackageChange`; instance |
| `NativeConfigureProofs` | types, package changes, what a setup replaces and what it leaves agreeing |
| `TuiBridge`, `MCTuiBridge` | client, bridge, gates and process groups; instance |
| `TuiBridgeProofs` | types, the gates, answers |
| `AtomicCatalog` | abstract: one whole refresh or measurement after the other |
| `ServerCatalog`, `MCServerCatalog` | the catalog's six files and its commands; instance |
| `ServerCatalogProofs` | types, recovery, what a selection wins, the refinement |
| `ServerChecks`, `MCServerChecks` | batches of checks and speed tests; instance |
| `ServerChecksProofs` | types, order of frames, what a reported completion says |

### NativeNetwork

*State.* `host` is what `Inspect` would report of every effect (absent, exact,
conflict) and `ident` the kernel identities of namespace and veth. `journal` is
the file `FileJournal` saves: entries in plan order with a phase (intent,
applied, removing, removed, relinquished) and an identity; version 4 is a
journal whose boot is `LegacyBoot`. The controller is one process (the journal's
flock) with `pc`, the entry `idx` it is at and the little it remembers.

*Actions.* `BeginStart`/`BeginStop` are `RunNativeNetwork` up to the first
decision (the read of the journal, discovery of the uplink).
`StartFresh`, `StartRefuse`, `StartReconcile`, `StartRepair`, `StartNeedsCleanup`
are the branches of `Controller.Start` before the loop; `SaveIntent`, `Run`,
`Confirm`, `Rollback` the loop's save, command, inspection and save; `PlanDone`,
`InitializeNamespace` the end. `ProveNoProcesses`, `StopPriorBoot`, `StopPreflight`
and the `Stop…` actions are `stopNativeNetwork`, `Controller.Stop`,
`preflightStop` and `stopJournal`, entry by entry from the last; `StopSweep`,
`StopClear` its final inspection. A step ends where the code touches host or
journal, so a `Crash` may fall between any two. A creation command may work, work and
report an error, or fail without an effect (`RunCreation`); a removal may fail having
worked. Deletion of a namespace or veth cascades (`GoneWith`).

*Environment.* `Hazards` names which of it an instance has: reboots, link flaps
that drop routes, administrators who alter or replace resources, uplink changes,
`ip_forward` switched by others, processes entering the namespace.

*Not modelled.* Text of the commands and their parsing (`Observed` is its
outcome); a namespace left half made, whose name is there without its mount
(`inspect_linux.go:198`): a creation has its effect whole or not at all; identities are
never reused within a boot; `Replace` and `HolderEnter`
happen between operations, `Tamper` also under a Start or its rollback, and none of
them inside a Stop: the code checks and then acts, and between the two (say between `ip netns pids` and the deletion) it has
no means to exclude anybody. Properties about them are therefore about what the
checks establish, not about that window.

### SelectionTransaction

*State.* `runtime` (server and DNS mode of the sing-box file), `state` (the node
file and the link file, separately), `journal` (phase, old and candidate
configuration, old state, and whether all files are there), `request`, `ack`, the
`gateway` (what its sing-box serves, which request it has taken), and `client`:
the state directory's lock admits one of apply, recovery and DNS watchdog.

*Actions.* `BeginApply` … `RemoveJournal` are `applyResultLockedWithOptionsOutput`
with `recoverTransactionsLocked` in front (`OpenClean`, `RecoverTransaction`),
`BeginTransaction`, `WriteRuntime`, `RequestRestart`, the wait (`Acknowledged`,
`Unanswered`), `AcknowledgeTransaction`, `RestoreNode`, `RestoreLink`,
`CommitPhase` and `CompleteTransaction`, which removes files one at a time.
`Compensated`, `HandshakeFails`, `AcknowledgeOld`, `SaveCurrentFails` are the
error paths and `abortTransactionLocked`. The gateway's loop is `SyncConfig`,
`StartGateway`, `TakeRequest`, `RestartSingBox`, `WriteAck`, `CompareRequest`,
`RemoveRequest`: comparing and removing the request are two steps, as in
`serveGateway`.

*Abstractions.* Restart tokens come from a pool of four, as many as the files and
processes can hold; the generation is the bit "of the present generation";
`client.proven` remembers for the properties which configuration the gateway
proved to this client. A crash is the kill of a process: what it had written stays
written (power loss is not modelled). Not modelled: backup sidecars, migration of
legacy state, the bootstrap pick. The native initial selection is one step of
`NativeConfigure`.

### OpSupervisor

*State.* One token (records are independent, only the lock is shared): its
`record`, the `lock`, the processes of the worker's group (`proc`; "dying" has a
SIGKILL pending, "zombie" is the unreaped leader), who has the worker's PID
afterwards (`foreign`), the `runner` command, up to two of prepare, cancel and
verify (`helper`), and the `shell`.

*Actions.* `RunLaunch`, `RunPublish`, `RunPoll`, `Drain…`, `SignalGroup`, `Reap`,
`RunFinish` are `run`, `awaitWorker`, `stopGroup` and the record's cleanup;
`RunLaunchFails` is `killStartedWorker`. `Prepare`, `Cancel…`, `Verify`,
`HelperIdentity`, `HelperList`, `HelperStat`, `HelperSettle` are the helpers: a
command holds the lock throughout, but a look at /proc is two steps, because the
processes it looks at do not. The `Shell…` actions are `server_browser_command`
and `server_browser_cancel_and_verify`; a client that times out leaves its helper
running.

*Not modelled.* The container being stopped or replaced (the shell then returns
at once); the native caller, which asks for cancel and verify once and ignores
the answers; a signal to the shell before it sets its traps or after it resets
them; reuse of the runner's PID. A process that is listed and forks before its
entry is read ("outrun") makes a group look empty; no passing run includes it, so
`ReapedAfterDrain`, `SettledWhenGone` and `ReturnMeansClosed` are shown only for
workers that do not fork in that instant. Add it to `OpLifecycle.cfg` and TLC finds
each of the three violated; `SignalsStayOwn` still holds.

### PackageChange

*State.* Who holds the configuration lock exclusively, and whether a worker of a
server operation holds it shared; the block; the package manager's `package`; the
administrator's `recovery`; the version of each of the two installed `files` that
matter (the command and the proxy); the `gateway` with the network unit before it,
and which version of command and proxy it runs. A version has a runtime `Contract`.

*Actions.* `LockForChange` … `SetBlock` are the hooks before a change
(`PrepareNativePackageUpgrade`, `PrepareNativePackageRemoval`), `ReplaceFiles` the
package manager file by file, `CompleteChange` the hook after it
(`completeNativePackageChangeLocked`: the block goes only if the files are whole and
what runs honours the contract), `Recover…` `RecoverNativePackageChange`. Against them
`StartNetwork` (holds the lock, shared, throughout, so that it is one step),
`StageNativeRuntime`, `copyRuntimeBinary`, `Serve` and the workers.

*Abstractions.* The content of units and contracts is a version; unit files that
are not valid are the same as files that are not whole; the tests of ownership and mode
on the lock file only decide whether it is taken at all. Left out: the operations that
hold the lock exclusively to republish the configuration, toggle-mode and profiles
(`native_operations_linux.go:177`), and a removal without a running system manager, which
has nothing to stop (`native_package_linux.go:21`).

### NativeConfigure

*State.* Inhibitor, root configuration, client profile and runtime, each with what
is there `now` and what a power cut may leave (`disk`); what the desktop has
`imported`; the three processes `desktop`, `helper` and, for each setup, `child`. A
version is the number of the setup that generated it; `Foreign` is somebody else's.

*Actions.* `BeginSetup` … `DesktopExits` are `configureNativeDesktop`;
`ReadRequest` … `Clear` are `configureNativeInstallation`, one action per outcome
the next step depends on; `Snapshot`, `Exchange`, `Commit`, `RollbackAsked` and
`Interrupted` are `RunNativeProfileTransaction`. `PackageNext` runs beside them with
the same lock, and the inhibitor keeps starts out. Generation and every start of a
program may fail without a fault; errors of file operations, kills,
cancellations, edits and power cuts are counted. An `Unsynced` change may or may
not survive a cut.

*Abstractions.* The configuration tree is exchanged as one directory, so that it is one
version; checking a name and the rename after it are one step; the import may
fail, which leaves the profile unimported and the inhibitor in place. `Select` is a step
of the helper, while the code has a child process of its own for it
(`native_initial_selection_linux.go:344`), which a helper that is killed may leave behind
to publish a moment after the helper's lock is gone.

### TuiBridge

*State.* The two pipes, the `scanner` of `Bridge.Serve`, one worker per request
(`work`, with its context and whether a setup or profile request succeeded), the gates
`mutationMu`, `operationMu` and `refreshMu`, the live processes of each request
(`procs`: leader and one descendant, or a privileged helper), and `shown`: whether the
bridge's status is unknown, current, older than an effect of a request in hand (stale),
or perhaps older than one of a helper whose request was given up (overtaken).

*Kinds.* Requests that are admitted, run and answered alike are one kind. Shared: status,
probe (all that only reads or measures) and select. Exclusive: change (the lifecycle
commands, the only ones that read the status again whether or not they succeed), setup
(the native subscription, which does so when it succeeded), profiles, and update
(`servers/refresh`, `autostart/*`, the Docker subscription), which do not.

*Actions.* `Request`, `Cancel`, `Receive`, `Fail`, `Reconnect` are `tui/bridge.ts`;
`ScanRequest` … `Exit`, `Signalled` the scanner and `main`'s signal handlers;
`AdmitMutation`, `AdmitOperation`, `Refused` `bridgeGate.acquire`; `Start`,
`LeaderExited` … `Drained` `RunProcess`; `Start`, `Helped`, `GiveUp`
`ConfigureNativeDesktop` with `runNativeDesktopProtocol`, where the leader is the
supervisor, and `NativeOperationsClient`, which has none; `BeginRefresh` …
`Refreshed` `Bridge.refresh`; `Answer` and `Release` the reply, sent before the gates are
given back.

*What the model makes visible.* `operationMu` gives its writers no preference, so
that a change may wait for ever behind new readers (only its cancellation settles
it). `RunProcess` drains the group of a command before the reply, and nothing drains a
privileged helper: the end of the context kills a setup's supervisor
(`native_configure_client_linux.go:32-36`), or closes the input of a profile request and
waits half a minute (`native_operations_linux.go:58-61`), and then the bridge answers and
gives its gates back while the helper may still publish or roll back, beside the next
request. Helpers exclude each other by the configuration lock (`NativeConfigure`,
`PackageChange`), not by the bridge's gates, so `ChangesAlone` and `QuietAfterAnswer`
except the helper of a request that was cut short or failed, and that one only. Nor does every
answer carry what its request did: a setup that fails may have published its configuration
and imported its profile (`native_configure_client_linux.go:88-94`, `188-194`) and is
answered with the status of before (`bridge_linux.go:448-449`, `546`); so are profile
requests, updates, and whatever is cancelled. `ReplyShowsChange` speaks of the others.

*Abstractions.* The autostart preference and the Docker subscription, which the bridge
writes itself, calling `systemctl` for the former, are taken for a command. A setup's
helper stands for everything below its supervisor: the profile child, and an `nmcli` that a
killed supervisor leaves. A reply keeps the freshness of its status and whether a setup
or profile request succeeded; what a status says of the selected server, which
selections change without a refresh, is not part of it. `Kill` empties a group, while a member that
runs as root, below `vpnkit-native.sh` and `pkexec`, cannot be signalled: `drainGroup`
counts it as alive, so the reply waits for its end all the same, which is then due to the
end of its input. *Not modelled.* A bridge that is killed: its commands have sessions of
their own and outlive it.

### ServerCatalog

*State.* The six files of the publication as the directory shows them (`files`), the
directories a power cut may leave (`durable`), the state lock, and the commands. A
command's `todo` is the sequence of files it still has to write or remove, under the
lock; every holder of the lock begins with the program that recovers (`recovery`).

*Actions.* `List`, `Select`, `Capture`, `Compare`, `PublishRefresh`,
`PublishMeasurement` are the commands of `server_browser.go`; `Write`, `WriteFails`,
`Cancelled` one file operation of `internal/state` each. `publication`, `recovery`,
`normalization` and `abortion` are the sequences of the functions of those names,
with the tests by which a recovery tells what it found. `Init` has an empty
directory and both sorts an earlier edition may have left.

*Power cuts.* A sync of the directory makes all earlier changes durable
(`durable' = {files'}`); one that fails, or that a kill forestalls, adds the new
directory to those a cut may leave. A file system may also write unsynced changes
in another order: with "reorder", a cut leaves each file as it is in any of them (`Mixed`).

*Abstractions.* Seals and digests are equality of what was written; a row of the
catalog is, for each kind of measurement, the number of the command that made it.
The application of a selected server is `SelectionTransaction`'s and one step here; that a
failed one, or a recovery, rewrites `current-node.json` is left out: in the code a few more
refreshes are refused as overtaken. A measurement is of one kind, while a batch of speed
tests writes latency, availability and speed in one publication
(`server_speed_batch.go:243-245`). `Cancelled` may strike between the two removals of a
finished publication, where the code does not look at the context: more behaviours than
it has.

### ServerChecks

*State.* The feeder's `jobs`, each `worker` with its server, what it found and the
frame it is about to write, the download `slot`, `publicationMu` (`publisher`), the
state lock, the catalog's version and rows, and the `reader` with what `CheckStream`
remembers.

*Actions.* `Take`, `Ping`, `Proxy`, `Site`, `Slot`, `Download`, `Completed` are
`checkNodes` with `checkNode` or `speedNodeUsing`; `BeginPublish` … `Unlock` the
publication of one server; `Close`, `Wait`, `Final`, `Publish`, `Answer` the command.
`PublishFails` leaves the catalog as it was, while the error of a last removal
(`server_browser.go:1070-1072`) is returned when the publication already stands.
A frame is composed when the context is looked at and written later (`Encode`), as
with `outputMu`. A publication is one step here, `ServerCatalog` has its files.

*What the model makes visible.* Frames of a check are told before the batch is
published and may be for nothing; only those of a speed test are final. A batch whose
reader goes away is ended by SIGPIPE (`Kill`).

## 4. Runs

Small instances suffice because every actor's protocol state is in them in full:
what grows with a larger instance is the number of equal effects, servers or children.

| Run | Instance and bounds | What it shows |
|---|---|---|
| `network_crash` | full plan; crash anywhere, two boots, flaps, a version 4 journal | `TypeOK`, `LedgerInv`, `MutationsAreLedgered`, `NeverUnbarred`, `StartedIsReady` |
| `network_rivals` | small plan, two identities (symmetric), two uplinks; tampering, replacement, holders | `OwnedEffectsAreLedgered`, `ForeignIdentityUntouched`, `ConflictFreezesCleanup`, `HeldNamespaceSurvivesStop` |
| `network_live` | small plan, two boots, every disturbance until the network is retired | `NetworkConverges` |
| `network_interrupted_stop` | full plan, crash | **violates** `JournalStaysValid` |
| `selection_failures` | two servers, no kills of a client, two gateway deaths, slow acknowledgement, cancel, failing I/O, DNS switch | `TypeOK`, `RuntimeProved` |
| `selection_crash` | one kill at any step but the end of an abort, one gateway death, cancel, failing I/O, DNS switch | `SelectionAgrees`, `ApplyIsAtomic` (refinement of `AtomicSelection`), `SelectionSettles` |
| `selection_abort_crash` | one kill, also at the end of an abort | **violates** `SelectionAgrees` |
| `op_lifecycle` | one child, two helpers, one client given up; runner killed or interrupted, stuck processes, PID reuse | `TypeOK`, `ReturnMeansClosed`, `SignalsStayOwn`, `ReapedAfterDrain`, `SettledWhenGone`, `CancelReturns` |
| `native_setup` | two setups, one package change over three versions, two faults of six kinds (654 000 states) | `TypeOK`, `PairAgrees`, `PackageSafe`, `ConfigStable`, `ForeignKept`, `SetupEnds` |
| `tui_bridge` | two requests, in eight pairs in which every kind meets others at a gate, two faults of six kinds, one reconnect (208 000 states) | `TypeOK`, `ChangesAlone`, `QuietAfterAnswer`, `ReplyShowsChange`, `CancelSettles` |
| `server_catalog` | two processes and two servers (symmetric), three commands, two faults of four kinds, cuts that reorder (1.1 million states) | `TypeOK`, `Recoverable`, `CatalogIsAtomic` (refinement of `AtomicCatalog`), `SelectionWins` |
| `server_checks` | two workers, three servers, one of them behind a proxy only, one fault of four kinds (905 000 states) | `TypeOK`, `FramesAccepted`, `CompletedIsPublished`, `ChecksEnd` |

Bounds: `MaxBoots` (a reboot from every state, and what the second boot makes of
it), `MaxCrashes`, `MaxDeaths` (one kill finds every half-done state; two gateway
deaths include one during recovery), `MaxTimeouts` (one abandoned helper beside a
live one), `MaxSetups` (an interrupted setup and the next one), `MaxChanges` (one
change, aborted and recovered, or completed over a running gateway), `MaxFaults` (a
fault, and one while it is being recovered from), `MaxCommands` (a publication, one it
overtakes, and the command that recovers), `Pipe` and `MaxReconnects` (one unread
message each way is enough for both sides to be out of step). Deadlock is not
checked: the systems rest when nobody asks for anything, and a bounded environment
comes to an end.

### What the violations say

* `network_interrupted_stop`: a Stop killed while an entry is *removing*, and later
  entries are already gone, then a Start: `reconcile` sets the entry back to applied
  and saves a journal `validateJournal` rejects ever after. Start, Stop and Status fail
  from then on.
* `selection_abort_crash`: an abort records the old runtime as the acknowledged one
  while the journal keeps the candidate's state; killed there, recovery takes the old
  runtime for the candidate and records a server that does not run.

### Exceptions

Where the code leaves a window it cannot close, or does not, the passing runs leave
the window out under a name. Add the name to `Hazards` and TLC finds the property
violated.

| Name | Run | What it lets happen | Violates |
|---|---|---|---|
| "abortkill" | `selection_crash` | a kill at the end of an abort (above) | `SelectionAgrees` |
| "launchKill" | `op_lifecycle` | the runner is killed between the worker's start and the publication of its identity (`supervisor.go:520`) | `ReturnMeansClosed` |
| "outrun" | `op_lifecycle` | a listed process forks before its entry is read | `ReapedAfterDrain`, `SettledWhenGone`, `ReturnMeansClosed` |
| "displace" | `native_setup` | an editor replaces the profile between snapshot and exchange; the exchange is not undone (`native_profile_transaction_linux.go:116`) | `ForeignKept` |
| "stall" | `native_setup` | a profile child whose helper was killed rolls back only after a next setup has begun | `ForeignKept` |
| "window" | `native_setup` | a gateway is staged between an upgrade's contract check and its block (`native_hot_upgrade_linux.go:36`) | `PackageSafe` |
| "torn" | `native_setup` | half replaced files without a block: after a power cut, which empties /run, or an aborted first installation | `PackageSafe` |
| "reorder" | `server_catalog` | two changes whose syncs were lost are lost in another order (below) | `Recoverable`, with `MaxFaults = 3` |
| "link" | `server_catalog` | a kill between link and unlink of the salt (`state.go:351`) leaves a file every command refuses | `Recoverable` |

Two exceptions of the catalog need three faults and are beyond the bounds of its run;
the proofs, which have no bounds, brought them up, and their theorems have them as hypotheses.

* A migration renames the commit into place and its sync fails. The next command finds
  that commit and goes on; its removal of the backup syncs nothing, since
  `RemovePrivateFileLocked` returns when the file is not there (`state.go:126-129`), and the
  sync after the rename of the generation fails too. A power cut then keeps the generation
  and loses the commit, and `normalizeBrowserPublicationLocked` refuses that pair ever
  after. A journal that is lost to the generation its recovery writes ends
  the same way. It takes a file system that writes the later change and not the earlier
  one ("reorder"); without that `Recoverable` holds, for every bound.
* A command is killed between the rename of the commit and its sync. The next one
  finds the publication whole and removes the journal, but the sync after that fails;
  a third reads the new catalog, to which the directory holds nothing more to sync; a
  power cut brings the journal back with the old state, and with it the old catalog.
  `CatalogIsAtomic` fails with `MaxFaults = 3` and `MaxCommands = 4`: to a cut after a
  kill and an error, what was shown may be taken back.

Four more are known and have no run: a cancelled setup or profile request of the bridge is
answered beside its privileged helper, and a setup that failed is answered with the status
of before (section 3, `TuiBridge`, whose properties say so); a Start that rolls back
deletes the namespace without asking who is in it (`transaction_linux.go:330`; the process check is Stop's),
and `os.RemoveAll` on a finished journal is not atomic (`transaction.go:319`): killed
inside it, a client can leave a journal every later command refuses to read, for
which `SelectionSettles` makes an exception (`journal.intact`).

The interrupted stop is in `network_crash` and `network_live`, which show that what
goes wrong is the journal's validity and not its truth (`OwnedEffectsAreLedgered`
holds there; `NetworkConverges` asks for a ledger that Stop accepts).

### Fairness

`NativeNetwork`: the controller takes its next step; a removal tried again and
again succeeds in the end (the code retries only through a new Stop); once the
network is retired, Stop is asked for until it succeeds; processes leave the
namespace. `SelectionTransaction`: client and gateway take their steps (the
client's waits have deadlines, which is why an unanswered handshake is one of its steps);
the gateway gets the lock in the end; its recovery child is started whenever it
comes up (strong fairness: an apply may hold the lock each time). Strong fairness
of `RemoveRequest` while a client is about to write a request says that the
gateway's removal does not for ever hit the one fresh request. `OpSupervisor`:
commands run, the lock is passed on, grace periods end, a killed process dies,
init reaps. A worker never has to exit by itself.

`NativeConfigure` and `ServerChecks` have one weak fairness condition each: some
process, or goroutine, that can take a step takes one. That is enough because none of
their loops is endless: the helper's context ends after ten minutes or with its
desktop, and every probe has a deadline. `TuiBridge`: the client's event loop, the
scanner, and each request's worker, which includes the grace period after a signal, the
three seconds a killed supervisor's pipes are waited for and the half minute of a profile
request; a command or helper never has to end by itself and the half hour of a request need
not pass.
`ServerCatalog` has safety properties only: its lock is waited for with a deadline.

## 5. Proofs

| Theorem | Statement |
|---|---|
| `NativeNetworkProofs!TypeCorrect` | `Spec => []TypeOK` |
| `NativeLedgerProofs!LedgerCorrect` | `Spec => []LedgerInv` |
| `NativeLedgerProofs!LedgerCoversHost` | `Spec => []OwnedEffectsAreLedgered` |
| `NativeLedgerProofs!MutationsLedgered` | `Spec => MutationsAreLedgered` |
| `NativeLedgerProofs!HeldSurvives` | `Spec => HeldNamespaceSurvivesStop` |
| `NativeLedgerProofs!ConflictsFreeze` | `Spec => ConflictFreezesCleanup` |
| `NativeLedgerProofs!ForeignUntouched` | `Spec => ForeignIdentityUntouched` |
| `NativeLedgerProofs!Unbarred` | `Spec => NeverUnbarred`, if nobody else removes the barrier |
| `NativeLedgerProofs!StartsReady` | `Spec => StartedIsReady`, if nobody tampers with an effect |
| `OpSupervisorProofs!TypeCorrect` | `Spec => []TypeOK` |
| `OpSupervisorProofs!SignalsOwn` | `Spec => SignalsStayOwn` |
| `OpSupervisorProofs!ReapsDrained` | `Spec => ReapedAfterDrain`, without "outrun" |
| `OpSupervisorProofs!SettlesWhenGone` | `Spec => SettledWhenGone`, without "outrun" |
| `OpSupervisorProofs!RecordIsGone` | `Spec => [](shell.pc = "returned" => record = Absent)` |
| `OpSupervisorProofs!ReturnsClosed` | `Spec => []ReturnMeansClosed`, without "outrun" and "launchKill" |
| `SelectionProofs!TypeCorrect` | `Spec => []TypeOK` |
| `SelectionProofs!FilesAgree` | `Spec => []SelectionAgrees`, without "abortkill" |
| `SelectionProofs!RuntimeIsProved` | `Spec => RuntimeProved`, without "abortkill" |
| `SelectionProofs!ApplyImplementsAtomic` | `Spec => ApplyIsAtomic`, without "abortkill" |
| `NativeConfigureProofs!TypeCorrect` | `Spec => []TypeOK` |
| `NativeConfigureProofs!ConfigIsStable` | `Spec => ConfigStable` |
| `NativeConfigureProofs!PackageIsSafe` | `Spec => []PackageSafe`, without "window" and "torn" |
| `NativeConfigureProofs!ForeignIsKept` | `Spec => ForeignKept`, without "displace" and "stall" |
| `NativeConfigureProofs!PairsAgree` | `Spec => []PairAgrees`, without "stall" |
| `TuiBridgeProofs!TypeCorrect` | `Spec => []TypeOK` |
| `TuiBridgeProofs!ChangesRunAlone` | `Spec => []ChangesAlone` |
| `TuiBridgeProofs!AnswersAreLast` | `Spec => []QuietAfterAnswer` |
| `TuiBridgeProofs!RepliesShowChange` | `Spec => ReplyShowsChange` |
| `ServerCatalogProofs!TypeCorrect` | `Spec => []TypeOK` |
| `ServerCatalogProofs!RecoverableHolds` | `Spec => []Recoverable`, without "link", and either without "reorder" or with `MaxFaults` at most 2 |
| `ServerCatalogProofs!SelectionsWin` | `Spec => SelectionWins` |
| `ServerCatalogProofs!CatalogImplementsAtomic` | `Spec => CatalogIsAtomic`, without "link" and with `MaxFaults` at most 2, or without "cut", or without "io", "kill" and "link" |
| `ServerChecksProofs!TypeCorrect` | `Spec => []TypeOK` |
| `ServerChecksProofs!FramesAreAccepted` | `Spec => []FramesAccepted` |
| `ServerChecksProofs!CompletionsArePublished` | `Spec => CompletedIsPublished` |

"Without" is the hypothesis that the name is not in `Hazards`: it is one of the
exceptions of section 4, each with a counterexample TLC finds once the name is added
(for the catalog's "reorder" and "cut", with the bounds given there: three faults, so that
the two of its theorems are as many as there can be).
The two "if" of the network are about `Flappable` and `Tamperable`; on the instance of
`network_rivals`, whose administrators do touch the barrier, both properties fail.
Every other hazard may strike, any number of times. `RuntimeProved` and `ApplyIsAtomic`
have their hypothesis because they rest on the invariant of `SelectionAgrees`.

*The network.* They hold for every plan, set of identities, of uplinks and of hazards, from the
assumptions `PlanShape`, `PlanBegins` and `PlanIds` of `NetworkPlan` (a plan lists every
exclusive effect once, and `ip_forward` exactly when it was off; it begins, as
`PlanNetwork` does at `network_linux.go:112-119`, with the namespace, the pair, its move
and the barrier) and `HazardShape` and `TamperShape` of `NativeNetwork`; TLC evaluates
all of them on the instances.

That every effect on the host is claimed by the journal is not
inductive: it needs to know which entry the controller may act on. `ControlInv`
says so for each value of `pc` (in *run* and *confirm* the entry at `idx` still
claims; in *remove* it has a teardown; the repairs still to do are claimed), and
`ConflictsAreTampered` keeps a conflicting resource from turning into an owned
one. `LedgerInv` is their conjunction with the claim, and with the strengthened
type invariant `Typed` (a journal *fits* its plan: at most as many entries as the
plan has) it is inductive. The preservation proofs have one step per action; the
lemmas `OwnedQuiet`, `OwnedSaved`, `OwnedCreated`, `OwnedPhase`, `OwnedReconciled`
and `OwnedIntent` say once what a step may do to host and journal, and each
action cites the one that fits. TLC checks `LedgerInv` itself (`network_crash`).
`MutationsAreLedgered` follows from `Inv` alone, action by action.

The other step properties are about checks that are used many steps later.
`ServiceInv` adds to `Inv` what holds in between. `Identified`: a resource that is there has an
identity. `StartInv`: between its look at the ledger and its success, every applied
entry of an effect nobody else changes is of what stands, with the identity
recorded (`Standing`), and while a command runs only the last entry is open
(`OnlyLastOpen`), so that everything planned before it is there; a guest path is planned
after the barrier, and `NeverUnbarred` follows, as `StartedIsReady` does at the end of the
plan. `StopInv`: what preflight found holds through every removal (`Frozen`: removals
take away, and leave the identities of what is left; an administrator who comes between is
excluded, as `Tamper` says), the namespace held nobody when it was looked at (`Unheld`;
`HolderEnter` says what that leaves out), and the pair is gone before the namespace is
removed (`PairGone`, for the loop goes backwards and `OwnedEffectsAreLedgered` gives
the pair an entry), so that no pair goes with the namespace whose identity was
not compared (`ForeignIdentityUntouched`).

*The operation supervisor.* They hold for any number of helpers, of descendants of the worker and of
timeouts, from `MemberShape` and `HelperShape` of `OpSupervisor`. `OwnGroup` ties the runner's pc to
the state of the leader, the anchor of its group, and says that a PID is used again
only after the leader is gone; `SignalsStayOwn` follows. `Held` says that a command
inside an inspection holds the lock over a record that names its processes, so that
neither the runner nor another command changes the record it judges. `Observed`
says what each look at /proc is worth later: a listing in hand names every process
of the group that still runs, and once one found none, none can start again. That
needs that nothing forks between a listing and its reading, hence the hypothesis
`"outrun" \notin Hazards`; without it `Observed` is lost, as TLC shows. A cancel
looks at the leader's identity before and after the group, and `Settling` keeps
what the first look showed for the second.

`ReturnMeansClosed` follows one caller through three commands, each of which it may give
up while the helper goes on. Half of it needs no hypothesis (`RecordIsGone`): `Asked` says
that the shell waits for the command of the step it is at and that a prepare still pending is
its own or one it gave up together with the run, so that none comes late; `Over` that
once a verify has answered "ok" the record is gone and stays so; `Reserved` that a
worker is started only from a prepared record, kept until its identity is published, so
that a runner that comes late finds nothing to start from. The other half is
`Accounted`: a process that may still act for itself is named by an open record, or by the
runner about to name it. It rests on `Observed` wherever a record is settled or
removed, and "launchKill" is the one other step it does not survive.

*The selection.* For any servers, kills and deaths of the gateway, from
`SelectionShape` (there is a server; at least four restart tokens, none of them the
absent one: the model reuses what the code draws at random, and three may be in use
at once). `SelectionAgrees` speaks of the quiet states only; what makes it inductive is
what each half-done state knows. `Paths` says for each `pc` of the client whether it
has a journal and what it goes on with; `Handshake` that a token in the
acknowledgement or in the gateway's hands is this client's only if the gateway serves
the configuration it was sent for; `Journaled` that the old state in the journal
agreed with the old runtime, and that what is acknowledged in it is the new server's
configuration, or the old one while an abort closes it; `Applied` what the client has
written at each of its steps; `Agreed` that without a journal the state files, the
runtime and what the gateway serves name one server. "abortkill" is the one step
`Journaled` does not survive. The refinement maps the files to the abstract selection
while no journal is there and to the journal's old state while one is; all steps
stutter but the removal of the journal.

*Package changes and setup.* For any number of setups, changes, packages and faults,
from `SetupShape` and `PackageShape`. `Locks` ties the configuration lock to its
holder. `Changes` and `Blocked` say that the block stands from an upgrade's hook until
the files are whole, and `Runs` that what runs is of one package and honours the
installed contract: "window" is a start between check and block, "torn" a block that
does not survive. `SetupHolds` says that a helper past its check has the lock and the
inhibitor, which gives `ConfigStable` with no hypothesis. `Alone` says that
there is one profile transaction at a time, and none once its setup selects: "stall"
denies it. `Exchanges` says that the profile about to be exchanged is the one of the
snapshot. `PairAgrees` needs `Numbered` (setups are numbered in order, and none is
committed before its configuration is published) and one conjunct for each thing a failure may leave:
`Inhibited` (an unfinished setup is marked, on the disk too), `Undoable` (what a
rollback needs is there), `Published`, `Acked` and `Agrees`.

*The bridge.* For any requests, faults and pipes, from `BridgeShape`. `Gates` says for
each `pc` of a request which gates it holds and which processes it may have, so that two
commands of a kind that excludes the other hold one lock; a helper that was left runs
without any, and only of a request past its run. `Once` and `AnsweredLast` say that a
final reply is the last of its request and what of it may run, although the reply is sent
before the gates are given back; `Told` and `Done` that a setup or profile request
answered as done has no helper, and does not get one again, since no identifier is used
twice. `Fresh` says that the status a request is about to answer with is not older than
any effect but a left helper's, because the gate it still holds keeps changes out.

*The catalog.* For any commands, servers, kinds of measurement and faults, from
`CatalogShape` (absence is no content of a file). A publication, a recovery or an abort can
be interrupted anywhere, by a command that begins another; what one leaves another must
find. `Recovering`, `Preparing`, `Publishing` and `Aborting` name the places of these
programs: what is still to write (`todo`) and what the files say meanwhile. The lemmas
`...Begins` say that each program begins at a place, and `...GoesOn` that the next write
leads from a place to the next. `IInv` says that the holder of the lock is at a place
(`Going`), that what a command numbers is bounded by the number of commands begun, so that
revisions stay within their type (`Counts`), and that every directory a cut may leave holds
a sound journal or none (`Kept`). From any place, a fault leaves files that are not refused,
which gives `Accepted`: nothing in `durable` is refused. `Lost` says that one fault leaves
at most two directories, which differ in one file, because every write that ends well syncs
what changed before it; so a second fault, though it be a cut that reorders, finds one of
the two. `Accepted` and `Lost` are `Recoverable`'s invariant; its second half is a
calculation over the six files of what `recovery` ends with. `SelectionInv` numbers
selections by commands: one that overtakes is later than the one captured. `ShownInv` says
that the catalog a reader sees next is the one shown last, or the one change that the
journal announces (`Awaited`), and that the journals still to be written announce a change
to what was shown (`Told`); a cut keeps it when nothing is unsynced (`Lossless`). When
something is, `Lagging` says what the other directory of `Lost` is worth: it leads on from
what was shown, or it has the journal of a publication that was finished and read meanwhile.
In that case a cut loses `ShownInv`, and `Regained` takes its place: the journal is of what
was shown, and is only cleaned up, before anyone reads, after which `ShownInv` holds again.
With a third fault that journal may meet an earlier state (section 4): there the argument
ends, and so does the property.

*The batches.* For any workers, batch, order and faults, from `BatchShape` (the batch
names each server once; markers for "nobody" are not servers, frames or answers).
`Apart` says that no two workers have to do with one server and that nobody told
anything of a server still queued; `Tellings` what may be told next given what was heard;
`Waited` that the answer comes after all frames. Acceptance is the conjunction.
For publication, `Baseline` says what the catalog holds of the servers not yet written,
`Published` that a frame about to say "completed" has its row in the catalog or was
overtaken, `Everyone` that at an "ok" no server is missing; it is a step property
besides, since a publication may never replace what others wrote (`OthersKept`).

Each of these invariants was checked by TLC on its component's instance before
it was proved.

*Assumed.* Nothing but the named assumptions on the constants: no theorem cites an
unproved fact, and TLC evaluates each assumption on the instances.

*Only model-checked.* Every safety property of a passing run is stated by a theorem whose
hypotheses the instance of the run satisfies. Liveness under fairness (`NetworkConverges`,
`SelectionSettles`, `CancelReturns`, `SetupEnds`, `CancelSettles`, `ChecksEnd`) and
ENABLED, and what recursive definitions compute for every input, are out of the prover's
reach and stay with TLC; no module here has a RECURSIVE operator.

## 6. Not modelled

`NativeService.Start` and `Stop` with their comparison of invocations, the notify
socket, the policy reload and the UDP forwarder; NetworkManager's connection and
autostart (state of other services, reached by sequences of commands); the screens of
the TUI; parsing of subscriptions and rendering of files (data conversion); the shell's
host routing of the container edition (the native transaction is the same idea with
stronger proofs); installer and diagnostics. Within the modelled parts: the text of
commands and their output, ownership and mode of files, filtering and ordering of
servers, and whatever a paragraph of section 3 lists.

## 7. Running

    tlc -workers 2 -config NetworkCrash.cfg MCNativeNetwork.tla
    tlc -workers 2 -config SelectionFailures.cfg MCSelection.tla
    tlc -workers 2 -config OpLifecycle.cfg MCOpSupervisor.tla
    tlc -workers 2 -config NativeSetup.cfg MCNativeConfigure.tla
    tlc -workers 2 -config TuiBridge.cfg MCTuiBridge.tla
    tlc -workers 2 -config ServerCatalog.cfg MCServerCatalog.tla
    tlc -workers 2 -config ServerChecks.cfg MCServerChecks.tla
    tlapm NativeLedgerProofs.tla
    tlapm NativeNetworkProofs.tla
    tlapm SelectionProofs.tla
    tlapm OpSupervisorProofs.tla
    tlapm NativeConfigureProofs.tla
    tlapm TuiBridgeProofs.tla
    tlapm ServerCatalogProofs.tla
    tlapm ServerChecksProofs.tla

An operator whose comment begins with "Mutant:" is a plausible bug; no
specification uses it. `PROJECT.json` pairs each property with the mutant that
breaks it.
