-------------------------------- MODULE TuiBridge --------------------------------
(***************************************************************************)
(* The terminal UI and its bridge process: requests multiplexed over a     *)
(* pair of pipes, admitted by two read/write gates, run as child process   *)
(* groups, cancelled, timed out and answered.                              *)
(*                                                                         *)
(* Client: the Bridge class of tui/bridge.ts.  Bridge: Bridge.Serve, with  *)
(* one worker per request.  RunProcess gives a command a session of its    *)
(* own, of which the leader and one descendant are modelled.  A native     *)
(* setup and a profile request have a privileged helper instead, which the *)
(* desktop user cannot signal: a setup under an unprivileged supervisor,   *)
(* the leader, a profile request under the bridge itself.                  *)
(***************************************************************************)
EXTENDS Naturals, Sequences, FiniteSets, SequencesExt

CONSTANTS
  Requests,      \* request identifiers; the UI never uses one again
  Asked,         \* what each may ask for: functions from Requests to Kinds
  Hazards,       \* "fail": the client gives the bridge up, "signal"s to it,
                 \* "busy": sixteen other requests are active, "fork"ing
                 \* commands, "timeout"s, "abandon"ed captures
  MaxFaults,     \* bound on their number
  Pipe,          \* bound on requests, and on progress, not yet read
  MaxReconnects  \* bound on bridge processes started again

(* change: a lifecycle command.  update: a refresh of the catalog, and what *)
(* is exclusive without a command of its own, the autostart preference and *)
(* the Docker subscription.  setup: the native subscription.               *)
Kinds == {"status", "probe", "select", "change", "update", "setup", "profiles"}
ASSUME BridgeShape ==
  /\ Asked \subseteq [Requests -> Kinds] /\ IsFiniteSet(Requests)
  /\ Pipe \in Nat \ {0}
  /\ {MaxReconnects, MaxFaults} \subseteq Nat
  /\ "none" \notin Requests

VARIABLES
  kind,       \* what each request asks for
  outcome,    \* of each request's promise
  closed,     \* the client has given up this bridge process
  faults,     \* how many have happened
  reconnects,
  requests,   \* the bridge's stdin
  replies,    \* the bridge's stdout
  scanner,    \* the loop of Serve
  work,       \* the worker of each request: its pc, its context, and
              \* whether the setup or profile request succeeded
  mutation,   \* who holds mutationMu
  operation,  \* operationMu: its readers, its writer
  refreshing, \* who holds refreshMu
  procs,      \* live processes of each request's current command
  shown       \* what the bridge's status is to the system

clientVars == <<kind, outcome, closed, reconnects, faults>>
gates  == <<mutation, operation, refreshing>>
host   == <<procs, shown>>
vars   == <<clientVars, requests, replies, scanner, work, gates, host>>

Pc == {"none", "mutation", "operation", "start", "run", "drain",
       "refresh", "observing", "reply", "release"}
Context == {"open", "done"}
Idle    == [pc |-> "none", ctx |-> "open", ok |-> FALSE]
Work    == [pc : Pc, ctx : Context, ok : BOOLEAN]

(* stale: read before an effect of a request in hand; overtaken: before    *)
(* one of a helper whose request had been given up.                        *)
Shown     == {"unknown", "current", "stale", "overtaken"}
Processes == {"leader", "child", "helper"}

Message == [op : {"request", "cancel"}, id : Requests]
Reply   == [op : {"progress", "final"}, id : Requests, ok : BOOLEAN]

TypeOK ==
  /\ kind \in Asked
  /\ outcome \in [Requests -> {"new", "pending", "resolved", "rejected"}]
  /\ closed \in BOOLEAN /\ reconnects \in 0 .. MaxReconnects /\ faults \in 0 .. MaxFaults
  /\ requests \in Seq(Message) /\ replies \in Seq(Reply)
  /\ scanner \in {"scan", "wait", "exited"}
  /\ work \in [Requests -> Work]
  /\ mutation \in Requests \cup {"none"} /\ refreshing \in Requests \cup {"none"}
  /\ operation \in [readers : SUBSET Requests, writer : Requests \cup {"none"}]
  /\ procs \in [Requests -> SUBSET Processes]
  /\ shown \in Shown

shared(r)    == kind[r] \in {"status", "probe", "select"}
mutates(r)   == ~shared(r) \/ kind[r] = "select"
helped(r)    == kind[r] \in {"setup", "profiles"}
observes(r)  == kind[r] \in {"status", "change"} \/ (kind[r] = "setup" /\ work[r].ok)
left(r)      == "helper" \in procs[r] /\ work[r].pc # "run"
active       == {r \in Requests : work[r].pc # "none"}
pending      == {r \in Requests : outcome[r] = "pending"}

Fault(h) == h \in Hazards /\ faults < MaxFaults /\ faults' = faults + 1

(***************************************************************************)
(* The client.                                                             *)
(***************************************************************************)
Request(r) ==
  /\ ~closed /\ outcome[r] = "new" /\ Len(requests) < Pipe
  /\ outcome' = [outcome EXCEPT ![r] = "pending"]
  /\ requests' = Append(requests, [op |-> "request", id |-> r])
  /\ UNCHANGED <<kind, closed, reconnects, faults, replies, scanner, work, gates, host>>

(* Cancelling twice does what cancelling once does.                        *)
cancelSent(r) ==
  work[r].ctx # "open" \/ \E i \in DOMAIN requests :
                            requests[i] = [op |-> "cancel", id |-> r]

Cancel(r) ==
  /\ ~closed /\ r \in pending /\ ~cancelSent(r) /\ Len(requests) < Pipe
  /\ requests' = Append(requests, [op |-> "cancel", id |-> r])
  /\ UNCHANGED <<clientVars, replies, scanner, work, gates, host>>

(* Progress is for the screen; a final reply settles its promise.          *)
Receive ==
  /\ ~closed /\ replies # <<>>
  /\ LET reply == Head(replies) IN
       outcome' = IF reply.op = "final" /\ reply.id \in pending
                    THEN [outcome EXCEPT ![reply.id] = "resolved"] ELSE outcome
  /\ replies' = Tail(replies)
  /\ UNCHANGED <<kind, closed, reconnects, faults, requests, scanner, work, gates, host>>

(* fail: a malformed reply, a broken pipe or the bridge's exit.            *)
Fail ==
  /\ ~closed /\ (IF scanner = "exited" THEN UNCHANGED faults ELSE Fault("fail"))
  /\ closed' = TRUE /\ replies' = <<>>
  /\ outcome' = [r \in Requests |-> IF r \in pending THEN "rejected" ELSE outcome[r]]
  /\ requests' = requests \o SetToSeq({[op |-> "cancel", id |-> r] : r \in pending})
  /\ UNCHANGED <<kind, reconnects, scanner, work, gates, host>>

(* A new process only once the old one is seen to have exited.             *)
Reconnect ==
  /\ closed /\ scanner = "exited" /\ reconnects < MaxReconnects
  /\ closed' = FALSE /\ reconnects' = reconnects + 1
  /\ requests' = <<>> /\ replies' = <<>> /\ scanner' = "scan" /\ shown' = "unknown"
  /\ UNCHANGED <<kind, outcome, faults, work, gates, procs>>

(***************************************************************************)
(* The bridge's scanner.                                                   *)
(***************************************************************************)
(* A final reply carries what shown is when it is said.                    *)
Emit(op, r) ==
  replies' = IF closed THEN replies ELSE
       Append(replies, [op |-> op, id |-> r, ok |-> work[r].ok])

ScanRequest ==
  /\ scanner = "scan" /\ requests # <<>> /\ Head(requests).op = "request"
  /\ requests' = Tail(requests)
  /\ LET r == Head(requests).id IN
       \/ /\ work' = [work EXCEPT ![r] = [Idle EXCEPT
                !.pc = IF mutates(r) THEN "mutation" ELSE "operation"]]
          /\ UNCHANGED <<faults, replies>>
       \/ Fault("busy") /\ Emit("final", r) /\ UNCHANGED work
  /\ UNCHANGED <<kind, outcome, closed, reconnects, scanner, gates, host>>

stop(ids) ==
  [r \in Requests |-> IF r \in ids /\ r \in active /\ work[r].ctx = "open"
                        THEN [work[r] EXCEPT !.ctx = "done"] ELSE work[r]]

ScanCancel ==
  /\ scanner = "scan" /\ requests # <<>> /\ Head(requests).op = "cancel"
  /\ requests' = Tail(requests)
  /\ work' = stop({Head(requests).id})
  /\ UNCHANGED <<clientVars, replies, scanner, gates, host>>

(* The end of the input cancels nothing: workers.Wait.                     *)
ScanEnd ==
  /\ scanner = "scan" /\ closed /\ requests = <<>>
  /\ scanner' = "wait"
  /\ UNCHANGED <<clientVars, requests, replies, work, gates, host>>

(* SIGUSR1 cancels all requests; another signal closes the input as well.  *)
Signalled ==
  /\ Fault("signal") /\ scanner = "scan"
  /\ scanner' \in {"scan", "wait"} /\ work' = stop(Requests)
  /\ UNCHANGED <<kind, outcome, closed, reconnects, requests, replies, gates, host>>

Exit ==
  /\ scanner = "wait" /\ active = {}
  /\ scanner' = "exited"
  /\ UNCHANGED <<clientVars, requests, replies, work, gates, host>>

Timeout(r) ==
  /\ Fault("timeout") /\ r \in active /\ work[r].ctx = "open"
  /\ work' = stop({r})
  /\ UNCHANGED <<kind, outcome, closed, reconnects, requests, replies, scanner, gates, host>>

(***************************************************************************)
(* The worker of a request: bridgeGate, twice.                             *)
(***************************************************************************)
Goto(r, pc) == work' = [work EXCEPT ![r].pc = pc]

(* Mutant: the waiting for a gate does not watch the context.              *)
RefusedDeaf(r) ==
  /\ work[r].pc = "start" /\ work[r].ctx # "open"
  /\ Goto(r, "reply")
  /\ UNCHANGED <<clientVars, requests, replies, scanner, gates, host>>

Refused(r) ==
  /\ work[r].pc \in {"mutation", "operation", "start"} /\ work[r].ctx # "open"
  /\ Goto(r, "reply")
  /\ UNCHANGED <<clientVars, requests, replies, scanner, gates, host>>

AdmitMutation(r) ==
  /\ work[r].pc = "mutation" /\ work[r].ctx = "open" /\ mutation = "none"
  /\ mutation' = r /\ Goto(r, "operation")
  /\ UNCHANGED <<clientVars, requests, replies, scanner, operation, refreshing, host>>

(* Mutant: a writer does not wait for the readers.                         *)
AdmitOperationEager(r) ==
  /\ work[r].pc = "operation" /\ work[r].ctx = "open" /\ operation.writer = "none"
  /\ operation' = IF shared(r)
                    THEN [operation EXCEPT !.readers = @ \cup {r}]
                    ELSE [operation EXCEPT !.writer = r]
  /\ Goto(r, IF kind[r] = "status" THEN "refresh" ELSE "start")
  /\ UNCHANGED <<clientVars, requests, replies, scanner, mutation, refreshing, host>>

AdmitOperation(r) ==
  /\ work[r].pc = "operation" /\ work[r].ctx = "open" /\ operation.writer = "none"
  /\ \/ /\ shared(r)
        /\ operation' = [operation EXCEPT !.readers = @ \cup {r}]
     \/ /\ ~shared(r) /\ operation.readers = {}
        /\ operation' = [operation EXCEPT !.writer = r]
  /\ Goto(r, IF kind[r] = "status" THEN "refresh" ELSE "start")
  /\ UNCHANGED <<clientVars, requests, replies, scanner, mutation, refreshing, host>>

(***************************************************************************)
(* The processes of the request: RunProcess's, or a helper.                *)
(***************************************************************************)
Start(r) ==
  /\ work[r].pc = "start" /\ work[r].ctx = "open"
  /\ procs' = [procs EXCEPT ![r] = {p \in {"leader", "helper"} :
                 IF p = "leader" THEN kind[r] # "profiles" ELSE helped(r)}]
  /\ Goto(r, "run")
  /\ UNCHANGED <<clientVars, requests, replies, scanner, gates, shown>>

Progress(r) ==
  /\ work[r].pc \in {"run", "drain"} /\ procs[r] # {} /\ kind[r] \in {"probe", "change", "setup"}
  /\ Len(replies) < Pipe
  /\ Emit("progress", r)
  /\ UNCHANGED <<clientVars, requests, scanner, work, gates, host>>

Fork(r) ==
  /\ Fault("fork") /\ work[r].pc \in {"run", "drain"} /\ procs[r] = {"leader"} /\ ~helped(r)
  /\ procs' = [procs EXCEPT ![r] = {"leader", "child"}]
  /\ UNCHANGED <<kind, outcome, closed, reconnects, requests, replies, scanner, work, gates, shown>>

(* What runs for an exclusive request may change the system until it ends. *)
Effect(r) ==
  IF shared(r) \/ work[r].pc = "observing" \/ shown \in {"unknown", "stale"}
    THEN UNCHANGED shown
    ELSE shown' = IF left(r) THEN "overtaken" ELSE "stale"

ProcessExits(r) ==
  /\ \E p \in procs[r] : procs' = [procs EXCEPT ![r] = @ \ {p}]
  /\ Effect(r)
  /\ UNCHANGED <<clientVars, requests, replies, scanner, work, gates>>

(* Wait returned: what the leader left behind is drained all the same.     *)
LeaderExited(r) ==
  /\ ~helped(r) /\ work[r].pc = "run" /\ "leader" \notin procs[r]
  /\ Goto(r, "drain")
  /\ UNCHANGED <<clientVars, requests, replies, scanner, gates, host>>

(* SIGTERM to the group, because the request's context is done ...         *)
Terminate(r) ==
  /\ ~helped(r) /\ work[r].pc = "run" /\ work[r].ctx # "open"
  /\ Goto(r, "drain")
  /\ UNCHANGED <<clientVars, requests, replies, scanner, gates, host>>

(* ... or the capture's own: too much output, a frame that is not valid.   *)
Abandon(r) ==
  /\ Fault("abandon") /\ kind[r] \in {"probe", "select", "update"}
  /\ work[r].pc = "run" /\ work[r].ctx = "open"
  /\ Goto(r, "drain")
  /\ UNCHANGED <<kind, outcome, closed, reconnects, requests, replies, scanner, gates, host>>

(* The grace period is over: SIGKILL to the whole group.                   *)
Kill(r) ==
  /\ work[r].pc = "drain" /\ procs[r] # {}
  /\ procs' = [procs EXCEPT ![r] = {}] /\ Effect(r)
  /\ UNCHANGED <<clientVars, requests, replies, scanner, work, gates>>

(* Mutant: a command is over when its leader is.                           *)
DrainedByLeader(r) ==
  /\ work[r].pc = "drain"
  /\ Goto(r, IF kind[r] = "change" THEN "refresh" ELSE "reply")
  /\ UNCHANGED <<clientVars, requests, replies, scanner, gates, host>>

Drained(r) ==
  /\ work[r].pc = "drain" /\ procs[r] = {}
  /\ Goto(r, IF kind[r] = "change" THEN "refresh" ELSE "reply")
  /\ UNCHANGED <<clientVars, requests, replies, scanner, gates, host>>

(* A supervisor that ends by itself reports success only when its helper   *)
(* has ended; one that fails, even after the helper published, may leave   *)
(* it behind.  A profile request waits for its helper.                     *)
Helped(r) ==
  /\ helped(r) /\ work[r].pc = "run" /\ "leader" \notin procs[r]
  /\ kind[r] = "setup" \/ procs[r] = {}
  /\ \E ok \in BOOLEAN :
       /\ ok => procs[r] = {}
       /\ work' = [work EXCEPT ![r].ok = ok,
                    ![r].pc = IF ok /\ kind[r] = "setup" THEN "refresh" ELSE "reply"]
  /\ UNCHANGED <<clientVars, requests, replies, scanner, gates, host>>

(* The context is done: SIGKILL for the supervisor, whose end the helper   *)
(* sees; the end of the input and half a minute for a profile request.     *)
GiveUp(r) ==
  /\ helped(r) /\ work[r].pc = "run" /\ work[r].ctx # "open"
  /\ procs' = [procs EXCEPT ![r] = @ \ {"leader"}] /\ Effect(r)
  /\ Goto(r, "reply")
  /\ UNCHANGED <<clientVars, requests, replies, scanner, gates>>

(***************************************************************************)
(* refresh: what the bridge says of the system.                            *)
(***************************************************************************)
BeginRefresh(r) ==
  /\ work[r].pc = "refresh"
  /\ IF work[r].ctx = "open"
       THEN /\ refreshing = "none" /\ refreshing' = r /\ Goto(r, "observing")
            /\ procs' = [procs EXCEPT ![r] = {"leader"}]
       ELSE Goto(r, "reply") /\ UNCHANGED <<refreshing, procs>>
  /\ UNCHANGED <<clientVars, requests, replies, scanner, mutation, operation, shown>>

(* The status command is killed after its own ten seconds at the latest.   *)
ObserveExpires(r) ==
  /\ work[r].pc = "observing" /\ procs[r] # {}
  /\ procs' = [procs EXCEPT ![r] = {}]
  /\ UNCHANGED <<clientVars, requests, replies, scanner, work, gates, shown>>

(* Mutant: a status that could not be read is left out of the reply.       *)
RefreshedMissing(r) ==
  /\ work[r].pc = "observing" /\ procs[r] = {}
  /\ shown' \in {"current", "missing"}
  /\ refreshing' = "none" /\ Goto(r, "reply")
  /\ UNCHANGED <<clientVars, requests, replies, scanner, mutation, operation, procs>>

(* Mutant: a status that could not be read leaves the one before.          *)
RefreshedKeeping(r) ==
  /\ work[r].pc = "observing" /\ procs[r] = {}
  /\ shown' \in {"current", shown}
  /\ refreshing' = "none" /\ Goto(r, "reply")
  /\ UNCHANGED <<clientVars, requests, replies, scanner, mutation, operation, procs>>

(* A helper given up may have acted after the status was read.             *)
Refreshed(r) ==
  /\ work[r].pc = "observing" /\ procs[r] = {}
  /\ shown' \in {"current", "unknown"} \cup ({shown} \cap {"overtaken"})
  /\ refreshing' = "none" /\ Goto(r, "reply")
  /\ UNCHANGED <<clientVars, requests, replies, scanner, mutation, operation, procs>>

(***************************************************************************)
(* The reply goes out before the gates are given back.                     *)
(***************************************************************************)
Answer(r) ==
  /\ work[r].pc = "reply"
  /\ Emit("final", r)
  /\ Goto(r, "release")
  /\ UNCHANGED <<clientVars, requests, scanner, gates, host>>

Release(r) ==
  /\ work[r].pc = "release"
  /\ operation' = [readers |-> operation.readers \ {r},
                   writer  |-> IF operation.writer = r THEN "none" ELSE operation.writer]
  /\ mutation' = IF mutation = r THEN "none" ELSE mutation
  /\ work' = [work EXCEPT ![r] = Idle]
  /\ UNCHANGED <<clientVars, requests, replies, scanner, refreshing, host>>

Worker(r) ==
  \/ Refused(r) \/ AdmitMutation(r) \/ AdmitOperation(r) \/ Start(r)
  \/ LeaderExited(r) \/ Terminate(r) \/ Kill(r) \/ Drained(r)
  \/ Helped(r) \/ GiveUp(r)
  \/ BeginRefresh(r) \/ ObserveExpires(r) \/ Refreshed(r)
  \/ Answer(r) \/ Release(r)

Scan == ScanRequest \/ ScanCancel \/ ScanEnd \/ Exit

Init ==
  /\ kind \in Asked
  /\ outcome = [r \in Requests |-> "new"] /\ closed = FALSE /\ reconnects = 0 /\ faults = 0
  /\ requests = <<>> /\ replies = <<>> /\ scanner = "scan"
  /\ work = [r \in Requests |-> Idle]
  /\ mutation = "none" /\ refreshing = "none"
  /\ operation = [readers |-> {}, writer |-> "none"]
  /\ procs = [r \in Requests |-> {}] /\ shown = "unknown"

Next ==
  \/ Receive \/ Fail \/ Reconnect \/ Scan \/ Signalled
  \/ \E r \in Requests :
       \/ Request(r) \/ Cancel(r) \/ Timeout(r) \/ Worker(r)
       \/ Progress(r) \/ Abandon(r) \/ Fork(r) \/ ProcessExits(r)

Spec == Init /\ [][Next]_vars

(***************************************************************************)
(* Properties.                                                             *)
(***************************************************************************)

running(r) == IF work[r].pc = "run" THEN procs[r] # {} ELSE procs[r] \ {"helper"} # {}

(* What runs for an exclusive request runs alone: no probe, no selection   *)
(* and no status of another request, and none of their descendants, runs   *)
(* beside it, and two selections never run at once.  Only the helper of a  *)
(* request that no longer waits for it may (Serve, bridgeGate, RunProcess, *)
(* ConfigureNativeDesktop, NativeOperationsClient).                        *)
ChangesAlone ==
  \A r, q \in Requests :
    r # q /\ running(r) /\ running(q) => shared(r) /\ shared(q)
                                          /\ ~(mutates(r) /\ mutates(q))

Answered(r) == \E i \in DOMAIN replies : replies[i].op = "final" /\ replies[i].id = r

(* A final reply is the last and the only one, and nothing runs any more   *)
(* of the request, except the helper of a setup or profile request that    *)
(* was cut short or failed: one answered as done has none left (RunProcess *)
(* drains before the reply; runNativeDesktopProtocol reports success only  *)
(* of a helper it has reaped).                                             *)
QuietAfterAnswer ==
  \A i \in DOMAIN replies : replies[i].op = "final" =>
    LET r == replies[i].id IN
    /\ procs[r] \subseteq {"helper"}
    /\ procs[r] # {} => helped(r) /\ ~replies[i].ok
    /\ \A j \in i + 1 .. Len(replies) : replies[j].id # r

(* A status request, a lifecycle command, whether or not it succeeded, and *)
(* a native setup that succeeded, unless cut short, are answered with a    *)
(* status read after the last effect of any request the bridge had in      *)
(* hand, or with none, never with one from before.  A helper given up may  *)
(* overtake it; a setup that failed, a profile request and an update are   *)
(* answered with whatever was read last (request, refresh, RunProcess).    *)
ReplyShowsChange ==
  [][\A r \in Requests :
       /\ work[r].pc = "reply" /\ work[r].ctx = "open" /\ observes(r)
       /\ work'[r].pc = "release"
       => shown # "stale"]_vars

(***************************************************************************)
(* Fairness: the bridge's goroutines and the client's event loop run, and  *)
(* a command's time after a signal is limited.  A command need not end by  *)
(* itself, and the half hour of a request need not pass.                   *)
(***************************************************************************)
Fairness ==
  /\ WF_vars(Receive) /\ WF_vars(Scan) /\ WF_vars(Fail /\ scanner = "exited")
  /\ \A r \in Requests : WF_vars(Worker(r))

FairSpec == Spec /\ Fairness

Cancelled(r) ==
  \E i \in DOMAIN requests : requests[i] = [op |-> "cancel", id |-> r]

(* Cancelling settles the promise of a request and a bridge that is given  *)
(* up exits, whatever else runs for ever or waits for whatever gate: "a    *)
(* queued request can finish without waiting for a slow lifecycle          *)
(* operation" (bridge_linux.go:41-43).                                     *)
CancelSettles ==
  /\ \A r \in Requests :
       Cancelled(r) ~> outcome[r] \in {"resolved", "rejected"}
  /\ closed ~> (scanner = "exited" \/ ~closed)
==============================================================================
