-------------------------- MODULE SelectionTransaction --------------------------
(***************************************************************************)
(* Applying a server (cmd/vibe-vpn): the runtime configuration and the     *)
(* selected state are two sets of files, kept in step by a transaction     *)
(* journal, and a gateway process has to prove, by a restart handshake     *)
(* over three files, that it serves the configuration.                     *)
(*                                                                         *)
(* The state directory's lock admits one client at a time (an apply, the   *)
(* gateway's own recovery child, or its DNS watchdog), so the clients are  *)
(* one record; the gateway runs beside it and takes the lock only to       *)
(* synchronise its configuration when it starts.                           *)
(***************************************************************************)
EXTENDS Naturals, FiniteSets

CONSTANTS
  Selections,   \* the servers one may select
  Tokens,       \* restart tokens; one no file holds any more may come again
  Hazards,      \* "slow" acknowledgements, "cancel"led applies, failing "io",
                \* "dns" failover, applies while the gateway is down ("unserved"),
                \* "abortkill": kills may also hit the end of an abort
  MaxCrashes,   \* bound on kills of the process that holds the lock
  MaxDeaths     \* bound on deaths of the gateway

NoToken == "none"

ASSUME SelectionShape ==
  /\ Selections # {} /\ "nothing" \notin Selections
  /\ IsFiniteSet(Tokens) /\ Cardinality(Tokens) > 3 /\ NoToken \notin Tokens
  /\ MaxCrashes \in Nat /\ MaxDeaths \in Nat

VARIABLES
  runtime,   \* the sing-box configuration file
  state,     \* current-node.json and current-link.txt
  journal,   \* the transaction directory
  request,   \* the restart request file
  ack,       \* the acknowledgement file; .current: of the present generation
  gateway,   \* the gateway process
  client,    \* the process that holds the lock
  crashes, deaths

files  == <<runtime, state, journal>>
bounds == <<crashes, deaths>>
vars   == <<files, request, ack, gateway, client, bounds>>

DNS    == {"remote-dns", "remote-dns-fallback"}
Config == [sel : Selections, dns : DNS]
NoConfig == [sel |-> "none", dns |-> "none"]
Snapshot == [node : Selections, link : Selections]
Selected(s) == [node |-> s, link |-> s]

TransactionPhase ==
  {"prepared", "runtime-acknowledged", "state-committed"}
NoJournal ==
  [phase |-> "none", old |-> NoConfig, candidate |-> NoConfig,
   oldState |-> [node |-> "none", link |-> "none"], new |-> "none", intact |-> TRUE]
Pending == journal.phase # "none"

(* Why the client restarts the gateway; "undo" while it compensates.       *)
Restoring == {"abort", "prepared", "reverted", "fallback"}
Why == {"none", "apply", "recheck", "dns"} \cup Restoring
ClientStep ==
  {"idle", "open", "begin", "write", "request", "wait", "acknowledge",
   "node", "link", "ackOld", "commit", "complete"}
Idle == [pc |-> "idle", op |-> "none", target |-> "none", why |-> "none",
         undo |-> FALSE, prior |-> NoConfig, mine |-> NoToken,
         advanced |-> FALSE, proven |-> NoConfig]

Down == [pc |-> "down", serves |-> NoConfig, last |-> NoToken, due |-> FALSE]

Journal ==
  [phase : TransactionPhase, old : Config, candidate : Config \cup {NoConfig},
   oldState : Snapshot, new : Selections, intact : BOOLEAN]
Ack == [token : Tokens \cup {NoToken}, current : BOOLEAN]
GatewayState ==
  [pc : {"down", "starting", "up", "restart", "ack", "compare", "remove"},
   serves : Config \cup {NoConfig}, last : Tokens \cup {NoToken}, due : BOOLEAN]
ClientState ==
  [pc : ClientStep, op : {"none", "apply", "recover", "dns"},
   target : Selections \cup {"none"}, why : Why, undo : BOOLEAN,
   prior : Config \cup {NoConfig}, mine : Tokens \cup {NoToken},
   advanced : BOOLEAN, proven : Config \cup {NoConfig}]

TypeOK ==
  /\ runtime \in Config
  /\ state \in Snapshot
  /\ journal \in Journal \cup {NoJournal}
  /\ request \in Tokens \cup {NoToken}
  /\ ack \in Ack
  /\ gateway \in GatewayState
  /\ client \in ClientState
  /\ crashes \in 0..MaxCrashes /\ deaths \in 0..MaxDeaths

(***************************************************************************)
(* The client's ways on and out.                                           *)
(***************************************************************************)
At(step) == [client EXCEPT !.pc = step, !.prior = NoConfig,
                           !.mine = NoToken, !.advanced = FALSE]
Goto(step) == client' = At(step)

(* The lock is released.  A recovery that failed takes the gateway that    *)
(* started it down.                                                        *)
Finish(ok) ==
  /\ client' = Idle
  /\ gateway' = IF client.op = "recover" /\ ~ok THEN Down ELSE gateway

(* RestoreBackupWithRestartLockedContext: the old configuration again.     *)
Restore(why) ==
  client' = [At("write") EXCEPT !.why = why, !.undo = FALSE]

(***************************************************************************)
(* Who may take the lock.                                                  *)
(***************************************************************************)
BeginApply ==
  /\ client.pc = "idle"
  /\ gateway.pc # "down" \/ "unserved" \in Hazards
  /\ \E s \in Selections :
       client' = [Idle EXCEPT !.pc = "open", !.op = "apply", !.target = s]
  /\ UNCHANGED <<files, request, ack, gateway, bounds>>

BeginRecovery ==
  /\ client.pc = "idle" /\ gateway.due
  /\ client' = [Idle EXCEPT !.pc = "open", !.op = "recover"]
  /\ gateway' = [gateway EXCEPT !.due = FALSE]
  /\ UNCHANGED <<files, request, ack, bounds>>

SwitchDNS ==
  /\ client.pc = "idle" /\ "dns" \in Hazards
  /\ gateway.pc \notin {"down", "starting"}
  /\ client' = [Idle EXCEPT !.pc = "write", !.op = "dns", !.why = "dns"]
  /\ UNCHANGED <<files, request, ack, gateway, bounds>>

(***************************************************************************)
(* recoverTransactionsLocked, then BeginTransactionWithMetadata.           *)
(***************************************************************************)
(* A journal whose artifacts cannot be read stops every client.            *)
OpenRefused ==
  /\ client.pc = "open" /\ Pending /\ ~journal.intact
  /\ Finish(FALSE)
  /\ UNCHANGED <<files, request, ack, bounds>>

OpenClean ==
  /\ client.pc = "open" /\ ~Pending
  /\ IF client.op = "apply" THEN Goto("begin") /\ UNCHANGED gateway
                            ELSE Finish(TRUE)
  /\ UNCHANGED <<files, request, ack, bounds>>

(* Mutant: a prepared transaction needs no more than the old state.        *)
RecoverStateOnly ==
  /\ client.pc = "open" /\ Pending /\ journal.intact
  /\ \/ /\ journal.phase = "prepared"
        /\ client' = [client EXCEPT !.pc = "node", !.why = "prepared"]
     \/ /\ journal.phase # "prepared" /\ runtime = journal.candidate
        /\ client' = [client EXCEPT !.pc = "request", !.why = "recheck"]
     \/ /\ journal.phase # "prepared" /\ runtime # journal.candidate
        /\ Restore("reverted")
  /\ UNCHANGED <<files, request, ack, gateway, bounds>>

(* Whatever the journal's phase says, the configuration is proved again.   *)
RecoverTransaction ==
  /\ client.pc = "open" /\ Pending /\ journal.intact
  /\ \/ journal.phase = "prepared" /\ Restore("prepared")
     \/ /\ journal.phase # "prepared" /\ runtime = journal.candidate
        /\ client' = [client EXCEPT !.pc = "request", !.why = "recheck"]
     \/ /\ journal.phase # "prepared" /\ runtime # journal.candidate
        /\ Restore("reverted")
  /\ UNCHANGED <<files, request, ack, gateway, bounds>>

(* Mutant: the candidate state is not in the journal.                      *)
BeginTransactionPartly ==
  /\ client.pc = "begin"
  /\ journal' = [phase |-> "prepared", old |-> runtime, candidate |-> NoConfig,
                 oldState |-> state, new |-> "none", intact |-> TRUE]
  /\ client' = [client EXCEPT !.pc = "write", !.target = "none",
                              !.why = "apply", !.undo = FALSE]
  /\ UNCHANGED <<runtime, state, request, ack, gateway, bounds>>

BeginTransaction ==
  /\ client.pc = "begin"
  /\ journal' = [phase |-> "prepared", old |-> runtime, candidate |-> NoConfig,
                 oldState |-> state, new |-> client.target, intact |-> TRUE]
  /\ client' = [client EXCEPT !.pc = "write", !.target = "none",
                              !.why = "apply", !.undo = FALSE]
  /\ UNCHANGED <<runtime, state, request, ack, gateway, bounds>>

(***************************************************************************)
(* Writing a configuration and having the gateway prove it.                *)
(***************************************************************************)
Written ==
  IF client.undo THEN client.prior
  ELSE IF client.why = "apply" THEN [runtime EXCEPT !.sel = journal.new]
  ELSE IF client.why = "dns"
    THEN [runtime EXCEPT !.dns = CHOOSE d \in DNS : d # runtime.dns]
  ELSE journal.old

WriteRuntime ==
  /\ client.pc = "write"
  /\ runtime' = Written
  /\ client' = [client EXCEPT !.pc = "request",
                              !.prior = IF client.undo THEN @ ELSE runtime]
  /\ UNCHANGED <<state, journal, request, ack, gateway, bounds>>

(* The candidate cannot be built or is rejected by sing-box check, or the  *)
(* apply is cancelled, before the file is written.                         *)
ApplyRefused ==
  /\ client.pc = "write" /\ client.why = "apply" /\ ~client.undo
  /\ "cancel" \in Hazards
  /\ Restore("abort")
  /\ UNCHANGED <<files, request, ack, gateway, bounds>>

RequestRestart ==
  /\ client.pc = "request"
  /\ request' = CHOOSE t \in Tokens : t \notin {request, gateway.last, ack.token}
  /\ client' = [client EXCEPT !.pc = "wait", !.mine = request',
                              !.advanced = FALSE]
  /\ UNCHANGED <<files, ack, gateway, bounds>>

Acknowledged ==
  /\ request = NoToken /\ client.advanced
  /\ ack.token = client.mine /\ ack.current

(* The wait may end without an acknowledgement: the gateway is down, or it *)
(* removed this request while it finished an older one, or it is slow, or  *)
(* the apply is cancelled.                                                 *)
Unanswered ==
  \/ gateway.pc = "down"
  \/ request = NoToken /\ ack.token # client.mine
  \/ "slow" \in Hazards
  \/ "cancel" \in Hazards /\ client.why = "apply" /\ ~client.undo

(* After compensating, whether that was acknowledged or not.  A failed     *)
(* restore still puts the old state back if the old configuration is in    *)
(* place, and keeps the journal.                                           *)
Compensated ==
  \/ client.why = "apply" /\ Restore("abort") /\ UNCHANGED gateway
  \/ client.why = "dns" /\ Finish(TRUE)
  \/ /\ client.why \in Restoring
     /\ IF client.why \in {"abort", "fallback"} /\ runtime = journal.old
          THEN /\ client' = [At("node") EXCEPT !.why = "fallback", !.undo = FALSE]
               /\ UNCHANGED gateway
          ELSE Finish(FALSE)

HandshakeOk ==
  /\ client.pc = "wait" /\ Acknowledged
  /\ \/ client.undo /\ Compensated
     \/ ~client.undo /\ client.why = "dns" /\ Finish(TRUE)
     \/ /\ ~client.undo /\ client.why # "dns"
        /\ client' = [At(IF client.why = "apply" THEN "acknowledge" ELSE "node")
                        EXCEPT !.proven = runtime]
        /\ UNCHANGED gateway
  /\ UNCHANGED <<files, request, ack, bounds>>

HandshakeFails ==
  /\ client.pc = "wait" /\ Unanswered
  /\ \/ client.undo /\ Compensated
     \/ /\ ~client.undo /\ UNCHANGED gateway
        /\ IF client.why = "recheck" THEN Restore("fallback")
           ELSE client' = [client EXCEPT !.pc = "write", !.undo = TRUE,
                                         !.mine = NoToken, !.advanced = FALSE]
  /\ UNCHANGED <<files, request, ack, bounds>>

(***************************************************************************)
(* The journal's phases and the selected state.                            *)
(***************************************************************************)
AcknowledgeTransaction ==
  /\ client.pc = "acknowledge"
  /\ journal' = [journal EXCEPT !.phase = "runtime-acknowledged",
                                !.candidate = runtime]
  /\ Goto("node")
  /\ UNCHANGED <<runtime, state, request, ack, gateway, bounds>>

(* Mutant: an abort saves the candidate's state.                           *)
PublishedCandidate ==
  IF client.why \in {"apply", "recheck", "abort"} THEN Selected(journal.new)
                                                  ELSE journal.oldState

Published ==
  IF client.why \in {"apply", "recheck"} THEN Selected(journal.new)
                                         ELSE journal.oldState

RestoreNode ==
  /\ client.pc = "node"
  /\ state' = [state EXCEPT !.node = Published.node]
  /\ Goto("link")
  /\ UNCHANGED <<runtime, journal, request, ack, gateway, bounds>>

(* Mutant: a recovery that fell back closes the journal too.               *)
RestoreLinkAlways ==
  /\ client.pc = "link"
  /\ state' = [state EXCEPT !.link = Published.link]
  /\ Goto(IF journal.phase = "prepared" THEN "ackOld"
          ELSE IF journal.phase = "runtime-acknowledged" THEN "commit"
          ELSE "complete")
  /\ UNCHANGED <<runtime, journal, request, ack, gateway, bounds>>

RestoreLink ==
  /\ client.pc = "link"
  /\ state' = [state EXCEPT !.link = Published.link]
  /\ IF client.why = "fallback" THEN Finish(FALSE)
     ELSE /\ Goto(IF journal.phase = "prepared" THEN "ackOld"
                  ELSE IF journal.phase = "runtime-acknowledged" THEN "commit"
                  ELSE "complete")
          /\ UNCHANGED gateway
  /\ UNCHANGED <<runtime, journal, request, ack, bounds>>

(* SaveCurrent fails and undoes itself, or the apply is cancelled.         *)
SaveCurrentFails ==
  /\ client.pc \in {"node", "link"} /\ client.why = "apply" /\ "io" \in Hazards
  /\ state' = journal.oldState
  /\ Restore("abort")
  /\ UNCHANGED <<runtime, journal, request, ack, gateway, bounds>>

(* The restored old configuration takes the candidate's place.             *)
AcknowledgeOld ==
  /\ client.pc = "ackOld"
  /\ journal' = [journal EXCEPT !.phase = "runtime-acknowledged",
                                !.candidate = journal.old]
  /\ Goto("commit")
  /\ UNCHANGED <<runtime, state, request, ack, gateway, bounds>>

CommitPhase ==
  /\ client.pc = "commit"
  /\ journal' = [journal EXCEPT !.phase = "state-committed"]
  /\ Goto("complete")
  /\ UNCHANGED <<runtime, state, request, ack, gateway, bounds>>

(* os.RemoveAll takes the directory's files one by one, in any order.      *)
RemoveArtifact ==
  /\ client.pc = "complete" /\ journal.intact
  /\ journal' = [journal EXCEPT !.intact = FALSE]
  /\ UNCHANGED <<runtime, state, request, ack, gateway, client, bounds>>

RemoveJournal ==
  /\ client.pc = "complete"
  /\ journal' = NoJournal
  /\ IF client.op = "apply" /\ client.why \notin {"apply", "abort"}
       THEN Goto("begin") /\ UNCHANGED gateway
       ELSE Finish(TRUE)
  /\ UNCHANGED <<runtime, state, request, ack, bounds>>

(* The process that holds the lock is killed; under "abortkill" also when  *)
(* its journal names the old configuration beside the new state.           *)
Killable ==
  crashes < MaxCrashes
    /\ (Pending /\ journal.candidate = journal.old => "abortkill" \in Hazards)

Crash ==
  /\ client.op \in {"apply", "recover"} /\ Killable
  /\ crashes' = crashes + 1 /\ Finish(FALSE)
  /\ UNCHANGED <<files, request, ack, deaths>>

Client ==
  \/ OpenRefused \/ OpenClean \/ RecoverTransaction \/ BeginTransaction
  \/ WriteRuntime \/ ApplyRefused \/ RequestRestart \/ HandshakeOk
  \/ HandshakeFails \/ AcknowledgeTransaction \/ RestoreNode \/ RestoreLink
  \/ SaveCurrentFails \/ AcknowledgeOld \/ CommitPhase \/ RemoveArtifact
  \/ RemoveJournal

(***************************************************************************)
(* The gateway (serveGateway).                                             *)
(***************************************************************************)
(* sync-sing-box-config, with recovery deferred: a pending transaction     *)
(* keeps the configuration as it is, and one that cannot be read keeps the *)
(* gateway down.                                                           *)
SyncConfig ==
  /\ gateway.pc = "down" /\ client.pc = "idle" /\ (Pending => journal.intact)
  /\ runtime' = IF Pending THEN runtime
                ELSE [runtime EXCEPT !.dns = "remote-dns"]
  /\ gateway' = [gateway EXCEPT !.pc = "starting"]
  /\ UNCHANGED <<state, journal, request, ack, client, bounds>>

(* The generation file moves on to a number it never held.                 *)
NextGeneration ==
  /\ ack' = [ack EXCEPT !.current = FALSE]
  /\ client' = [client EXCEPT !.advanced = client.pc = "wait"]

(* Mutant: nothing recovers pending transactions when the gateway starts.  *)
StartUnrecovered ==
  /\ gateway.pc = "starting"
  /\ gateway' = [pc |-> "up", serves |-> runtime, last |-> NoToken, due |-> FALSE]
  /\ NextGeneration
  /\ UNCHANGED <<files, request, bounds>>

StartGateway ==
  /\ gateway.pc = "starting"
  /\ gateway' = [pc |-> "up", serves |-> runtime, last |-> NoToken, due |-> TRUE]
  /\ NextGeneration
  /\ UNCHANGED <<files, request, bounds>>

TakeRequest ==
  /\ gateway.pc = "up" /\ request \notin {NoToken, gateway.last}
  /\ gateway' = [gateway EXCEPT !.pc = "restart", !.last = request]
  /\ UNCHANGED <<files, request, ack, client, bounds>>

RestartSingBox ==
  /\ gateway.pc = "restart"
  /\ gateway' = [gateway EXCEPT !.pc = "ack", !.serves = runtime]
  /\ NextGeneration
  /\ UNCHANGED <<files, request, bounds>>

WriteAck ==
  /\ gateway.pc = "ack"
  /\ ack' = [token |-> gateway.last, current |-> TRUE]
  /\ gateway' = [gateway EXCEPT !.pc = "compare"]
  /\ UNCHANGED <<files, request, client, bounds>>

CompareRequest ==
  /\ gateway.pc = "compare"
  /\ gateway' = [gateway EXCEPT !.pc = IF request = gateway.last THEN "remove" ELSE "up"]
  /\ UNCHANGED <<files, request, ack, client, bounds>>

(* Whatever the request file holds by now.                                 *)
RemoveRequest ==
  /\ gateway.pc = "remove"
  /\ request' = NoToken
  /\ gateway' = [gateway EXCEPT !.pc = "up"]
  /\ UNCHANGED <<files, ack, client, bounds>>

(* A child exits, a health check fails, the service is stopped.  The       *)
(* recovery child dies with it; the DNS watchdog puts the configuration    *)
(* back if it gets to.                                                     *)
GatewayDies ==
  /\ gateway.pc # "down" /\ deaths < MaxDeaths
  /\ client.op = "recover" => Killable
  /\ deaths' = deaths + 1 /\ gateway' = Down
  /\ crashes' = IF client.op = "recover" THEN crashes + 1 ELSE crashes
  /\ client' = IF client.op \in {"recover", "dns"} THEN Idle ELSE client
  /\ runtime' \in {runtime} \cup
       (IF client.op = "dns" /\ client.prior # NoConfig THEN {client.prior} ELSE {})
  /\ UNCHANGED <<state, journal, request, ack>>

Gateway ==
  \/ SyncConfig \/ StartGateway \/ TakeRequest \/ RestartSingBox
  \/ WriteAck \/ CompareRequest \/ RemoveRequest

Init ==
  /\ \E s \in Selections :
       runtime = [sel |-> s, dns |-> "remote-dns"] /\ state = Selected(s)
  /\ journal = NoJournal
  /\ request = NoToken
  /\ ack = [token |-> NoToken, current |-> FALSE]
  /\ gateway = Down /\ client = Idle
  /\ crashes = 0 /\ deaths = 0

Next ==
  \/ BeginApply \/ BeginRecovery \/ SwitchDNS \/ Client \/ Crash
  \/ Gateway \/ GatewayDies

Spec == Init /\ [][Next]_vars

(***************************************************************************)
(* Safety.                                                                 *)
(***************************************************************************)

(* With no transaction pending, the node file, the link file, the runtime  *)
(* configuration and what an idle gateway serves all name one server.      *)
SelectionAgrees ==
  ~Pending =>
    /\ state = Selected(runtime.sel)
    /\ gateway.pc = "up" => gateway.serves.sel = runtime.sel

(* The same however failures and late answers meet, because an             *)
(* acknowledgement means what it says: the gateway, unless it has died     *)
(* since, serves exactly the bytes of the configuration file (token,       *)
(* generation and consumption of the request together).  And a journal is  *)
(* closed only over a configuration this very client has had proved,       *)
(* whatever an earlier process recorded in it (recoverTransactionLocked).  *)
RuntimeProved ==
  /\ []SelectionAgrees
  /\ [][HandshakeOk => gateway.serves \in {runtime, NoConfig}]_vars
  /\ [][Pending /\ journal' = NoJournal => client.proven = runtime]_vars

(* Applying is atomic: between two states without a journal the selection  *)
(* changed as one to what was asked for, or not at all.                    *)
Atomic == INSTANCE AtomicSelection WITH
  selected <- IF Pending
    THEN [node |-> journal.oldState.node, link |-> journal.oldState.link,
          config |-> journal.old.sel]
    ELSE [node |-> state.node, link |-> state.link, config |-> runtime.sel],
  wanted <- IF Pending THEN journal.new ELSE "nothing"
ApplyIsAtomic == Atomic!Spec

(***************************************************************************)
(* Liveness.                                                               *)
(***************************************************************************)
Fairness ==
  /\ WF_vars(Client) /\ WF_vars(Gateway) /\ SF_vars(SyncConfig)
  /\ SF_vars(BeginRecovery)
  /\ SF_vars(client.pc = "request" /\ RemoveRequest)

FairSpec == Spec /\ Fairness

(* Every client gives the lock back; and a transaction that was pending    *)
(* when the gateway went down is resolved after it is back up, unless its  *)
(* journal cannot be read (AcquireLock's holders, serveGateway).           *)
SelectionSettles ==
  /\ client.pc # "idle" ~> client.pc = "idle"
  /\ (Pending /\ gateway.pc = "down") ~> (~Pending \/ ~journal.intact)
==============================================================================
