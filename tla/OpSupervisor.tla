------------------------------- MODULE OpSupervisor -------------------------------
(***************************************************************************)
(* One server-browser operation: the shell that asks for it                *)
(* (server_browser_command), and vibe-vpn-server-op-supervisor inside the  *)
(* container, which prepares it, runs it as a worker with a process group  *)
(* of its own, cancels it, and verifies that it is over.                   *)
(*                                                                         *)
(* Operations share only the lock, so one token is modelled.  A command    *)
(* holds the lock while it runs, but the processes it inspects do not:     *)
(* each look at /proc is a step.                                           *)
(***************************************************************************)
EXTENDS Naturals, FiniteSets

CONSTANTS
  Children,   \* processes the worker may have in its group
  Helpers,    \* prepare, cancel and verify commands that may run at once
  Hazards,    \* "kill" and "launchKill" of the runner, "interrupt"ed runner,
              \* "detach"ed client, "stuck" processes, "reuse" of the worker's
              \* PID, "unwritable" records, processes that "outrun" a look at
              \* /proc
  MaxTimeouts \* bound on the helpers whose clients are given up

Leader  == "worker"
Members == {Leader} \cup Children
ASSUME MemberShape == Leader \notin Children /\ IsFiniteSet(Children)
ASSUME HelperShape ==
  /\ Helpers # {} /\ {"free", "runner", "none"} \cap Helpers = {}
  /\ MaxTimeouts \in Nat

VARIABLES
  record,    \* record.json of the token; published: it has process identities
  lock,      \* the state root's flock
  proc,      \* the processes of the group the runner started
  foreign,   \* who has the worker's PID after it was reaped
  runner,    \* the "run" command
  helper,    \* the other commands
  shell      \* server_browser_command

vars == <<record, lock, proc, foreign, runner, helper, shell>>

Status == {"absent", "prepared", "running", "cancelling", "closed"}
Absent == [status |-> "absent", published |-> FALSE]

(* "dying": SIGKILL is pending, the process runs no more of its program.   *)
ProcState == {"unborn", "live", "dying", "zombie", "gone"}

NoHelper == [cmd |-> "none", pc |-> "idle", rounds |-> 0, listed |-> {},
             answer |-> "none"]

TypeOK ==
  /\ record \in [status : Status, published : BOOLEAN]
  /\ lock \in {"free", "runner"} \cup Helpers
  /\ proc \in [Members -> ProcState]
  /\ foreign \in {"none", "leads", "plain", "spent"}
  /\ runner \in [pc : {"idle", "inflight", "started", "await", "list", "stat",
                       "signal", "reap", "finish", "done", "killed", "lost"},
                 stage : {"check", "term", "kill"}, listed : SUBSET Members,
                 cancelled : BOOLEAN]
  /\ helper \in [Helpers ->
       [cmd : {"none", "prepare", "cancel", "verify"},
        pc : {"idle", "sent", "identity", "list", "stat", "settle", "answered"},
        rounds : 0..2, listed : SUBSET Members,
        answer : {"none", "ok", "open", "failed"}]]
  /\ shell \in [pc : {"start", "prepare", "run", "cancel", "verify", "returned", "gaveUp"},
                on : Helpers \cup {"none"}, timeouts : 0..MaxTimeouts]

(***************************************************************************)
(* What is read from /proc.  Listing the PIDs and reading their stat files *)
(* are two steps; a process that has exited or gone does not count.        *)
(***************************************************************************)
Reused == foreign \in {"leads", "plain"}

Present ==
  {m \in Members : proc[m] \in {"live", "dying", "zombie"}}
    \cup (IF Reused THEN {Leader} ELSE {})

groupLive(listed) ==
  \E m \in listed : IF m = Leader /\ Reused THEN foreign = "leads"
                    ELSE proc[m] \in {"live", "dying"}

workerGone == proc[Leader] = "gone" /\ ~Reused

runnerLive == runner.pc \notin {"idle", "inflight", "done", "killed", "lost"}

(***************************************************************************)
(* The shell.                                                              *)
(***************************************************************************)
Send(pc, cmd) ==
  \E h \in Helpers :
    /\ helper[h].pc = "idle"
    /\ helper' = [helper EXCEPT ![h] = [NoHelper EXCEPT !.cmd = cmd, !.pc = "sent"]]
    /\ shell' = [shell EXCEPT !.pc = pc, !.on = h]

ShellGoes(pc) == shell' = [shell EXCEPT !.pc = pc, !.on = "none"]

ShellPrepare ==
  /\ shell.pc = "start" /\ Send("prepare", "prepare")
  /\ UNCHANGED <<record, lock, proc, foreign, runner>>

Hear(answers) ==
  /\ shell.on # "none" /\ helper[shell.on].pc = "answered"
  /\ helper[shell.on].answer \in answers
  /\ helper' = [helper EXCEPT ![shell.on] = NoHelper]

ShellPrepareFails ==
  /\ shell.pc = "prepare" /\ Hear({"open", "failed"})
  /\ ShellGoes("gaveUp")
  /\ UNCHANGED <<record, lock, proc, foreign, runner>>

(* The container is no longer provably ours, or the run is sent to it.     *)
ShellPrepared ==
  /\ shell.pc = "prepare" /\ Hear({"ok"})
  /\ \/ ShellGoes("cancel") /\ UNCHANGED runner
     \/ /\ ShellGoes("run")
        /\ runner' = [runner EXCEPT !.pc = "inflight"]
  /\ UNCHANGED <<record, lock, proc, foreign>>

(* The exec client returned; what it returned proves nothing.              *)
ShellRunReturns ==
  /\ shell.pc = "run"
  /\ runner.pc \in {"done", "killed", "lost"} \/ "detach" \in Hazards
  /\ ShellGoes("verify")
  /\ UNCHANGED <<record, lock, proc, foreign, runner, helper>>

ShellSignalled ==
  /\ shell.pc = "run"
  /\ ShellGoes("cancel")
  /\ UNCHANGED <<record, lock, proc, foreign, runner, helper>>

ShellSends ==
  /\ shell.on = "none" /\ shell.pc \in {"cancel", "verify"}
  /\ Send(shell.pc, shell.pc)
  /\ UNCHANGED <<record, lock, proc, foreign, runner>>

(* Whatever cancel said, verify decides.                                   *)
ShellHearsCancel ==
  /\ shell.pc = "cancel" /\ Hear({"ok", "open", "failed"})
  /\ ShellGoes("verify")
  /\ UNCHANGED <<record, lock, proc, foreign, runner>>

ShellHearsVerify ==
  /\ shell.pc = "verify"
  /\ \/ Hear({"ok"}) /\ ShellGoes("returned")
     \/ Hear({"open", "failed"}) /\ ShellGoes("cancel")
  /\ UNCHANGED <<record, lock, proc, foreign, runner>>

(* The client of a helper is given up; the helper itself goes on.          *)
ShellTimesOut ==
  /\ shell.timeouts < MaxTimeouts /\ shell.on # "none"
  /\ helper[shell.on].pc # "answered"
  /\ shell' = [pc |-> CASE shell.pc = "prepare" -> "gaveUp"
                        [] shell.pc = "cancel"  -> "verify"
                        [] OTHER                -> "cancel",
               on |-> "none", timeouts |-> shell.timeouts + 1]
  /\ UNCHANGED <<record, lock, proc, foreign, runner, helper>>

(***************************************************************************)
(* prepare, cancel and verify.                                             *)
(***************************************************************************)
Answered(h, a) ==
  /\ helper' = [helper EXCEPT ![h] =
       IF shell.on = h THEN [NoHelper EXCEPT !.cmd = helper[h].cmd,
                                             !.pc = "answered", !.answer = a]
       ELSE NoHelper]
  /\ lock' = "free"

Continue(h, pc) ==
  /\ helper' = [helper EXCEPT ![h].pc = pc, ![h].listed = {}]
  /\ lock' = h

Begins(h, cmd) == helper[h].pc = "sent" /\ helper[h].cmd = cmd /\ lock = "free"

(* A record that cannot be written is no reservation, and leaves nothing.  *)
Prepare(h) ==
  /\ Begins(h, "prepare")
  /\ \/ /\ record = Absent
        /\ record' = [status |-> "prepared", published |-> FALSE]
        /\ Answered(h, "ok")
     \/ /\ record # Absent \/ "unwritable" \in Hazards
        /\ Answered(h, "failed") /\ UNCHANGED record
  /\ UNCHANGED <<proc, foreign, runner, shell>>

(* Nothing to cancel, or nothing started yet: it never will.               *)
CancelUnstarted(h) ==
  /\ Begins(h, "cancel") /\ record.status \in {"absent", "prepared"}
  /\ record' = IF record = Absent THEN Absent
               ELSE [status |-> "closed", published |-> FALSE]
  /\ Answered(h, "ok")
  /\ UNCHANGED <<proc, foreign, runner, shell>>

CancelClosed(h) ==
  /\ Begins(h, "cancel") /\ record.status = "closed"
  /\ Continue(h, "list")
  /\ UNCHANGED <<record, proc, foreign, runner, shell>>

(* While its runner lives, it alone signals the worker.                    *)
CancelStarted(h) ==
  /\ Begins(h, "cancel") /\ record.status \in {"running", "cancelling"}
  /\ record' = [record EXCEPT !.status = "cancelling"]
  /\ IF runnerLive THEN Answered(h, "ok")
     ELSE /\ helper' = [helper EXCEPT ![h].pc = "identity", ![h].rounds = 2]
          /\ lock' = h
  /\ UNCHANGED <<proc, foreign, runner, shell>>

Verify(h) ==
  /\ Begins(h, "verify")
  /\ \/ record = Absent /\ Answered(h, "ok")
     \/ record.status = "prepared" /\ Answered(h, "open")
     \/ record.status \in {"running", "cancelling", "closed"} /\ Continue(h, "list")
  /\ UNCHANGED <<record, proc, foreign, runner, shell>>

HelperIdentity(h) ==
  /\ helper[h].pc = "identity"
  /\ IF workerGone
       THEN Continue(h, IF helper[h].cmd = "cancel" THEN "list" ELSE "settle")
       ELSE Answered(h, "open")
  /\ UNCHANGED <<record, proc, foreign, runner, shell>>

HelperList(h) ==
  /\ helper[h].pc = "list"
  /\ helper' = [helper EXCEPT ![h].pc = "stat",
                  ![h].listed = IF record.published THEN Present ELSE {}]
  /\ UNCHANGED <<record, lock, proc, foreign, runner, shell>>

(* Mutant: an empty group is enough, whoever the leader's PID belongs to.  *)
HelperStatUnidentified(h) ==
  /\ helper[h].pc = "stat"
  /\ IF groupLive(helper[h].listed) THEN Answered(h, "open")
     ELSE IF helper[h].cmd = "cancel" /\ record.status = "closed" THEN Answered(h, "ok")
     ELSE Continue(h, "settle")
  /\ UNCHANGED <<record, proc, foreign, runner, shell>>

HelperStat(h) ==
  LET again == helper[h].rounds > 1 IN
  /\ helper[h].pc = "stat"
  /\ \/ groupLive(helper[h].listed) /\ Answered(h, "open")
     \/ /\ ~groupLive(helper[h].listed) /\ record.status = "closed"
        /\ IF helper[h].cmd = "cancel" THEN Answered(h, "ok") ELSE Continue(h, "settle")
     \/ /\ ~groupLive(helper[h].listed) /\ record.status # "closed"
        /\ helper' = [helper EXCEPT ![h].listed = {},
              ![h].pc = IF helper[h].cmd = "verify" \/ again THEN "identity" ELSE "settle",
              ![h].rounds = IF again THEN 1 ELSE 0]
        /\ lock' = h
  /\ UNCHANGED <<record, proc, foreign, runner, shell>>

HelperSettle(h) ==
  /\ helper[h].pc = "settle"
  /\ record' = IF helper[h].cmd = "cancel" THEN [record EXCEPT !.status = "closed"]
               ELSE Absent
  /\ Answered(h, "ok")
  /\ UNCHANGED <<proc, foreign, runner, shell>>

Helper(h) ==
  \/ Prepare(h) \/ CancelUnstarted(h) \/ CancelClosed(h) \/ CancelStarted(h)
  \/ Verify(h) \/ HelperIdentity(h) \/ HelperList(h) \/ HelperStat(h)
  \/ HelperSettle(h)

(***************************************************************************)
(* run.                                                                    *)
(***************************************************************************)
(* The worker starts before its identity is published, under the lock.     *)
RunLaunch ==
  /\ runner.pc = "inflight" /\ lock = "free"
  /\ IF record.status = "prepared"
       THEN /\ runner' = [runner EXCEPT !.pc = "started"]
            /\ proc' = [proc EXCEPT ![Leader] = "live"] /\ lock' = "runner"
       ELSE runner' = [runner EXCEPT !.pc = "done"] /\ UNCHANGED <<proc, lock>>
  /\ UNCHANGED <<record, foreign, helper, shell>>

RunPublish ==
  /\ runner.pc = "started"
  /\ record' = [status |-> "running", published |-> TRUE]
  /\ runner' = [runner EXCEPT !.pc = "await"] /\ lock' = "free"
  /\ UNCHANGED <<proc, foreign, helper, shell>>

Doomed == [m \in Members |-> IF proc[m] = "live" THEN "dying" ELSE proc[m]]

(* killStartedWorker: the identity cannot be proved or not be written.     *)
RunLaunchFails ==
  /\ runner.pc = "started"
  /\ proc' = [Doomed EXCEPT ![Leader] = "gone"]
  /\ runner' = [runner EXCEPT !.pc = "done"] /\ lock' = "free"
  /\ UNCHANGED <<record, foreign, helper, shell>>

Drain == runner' = [runner EXCEPT !.pc = "list", !.stage = "check"]

(* Mutant: the record is not read while the worker runs.                   *)
RunPollDeaf ==
  /\ runner.pc = "await" /\ lock = "free"
  /\ proc[Leader] = "zombie" /\ Drain
  /\ UNCHANGED <<record, lock, proc, foreign, helper, shell>>

(* Mutant: the exit is observed with Wait, which gives up the anchor.      *)
RunPollReaps ==
  /\ runner.pc = "await" /\ lock = "free"
  /\ \/ /\ record.status \in {"cancelling", "closed"}
        /\ runner' = [runner EXCEPT !.pc = "list", !.cancelled = TRUE]
        /\ UNCHANGED proc
     \/ /\ record.status = "running" /\ proc[Leader] = "zombie" /\ Drain
        /\ proc' = [proc EXCEPT ![Leader] = "gone"]
  /\ UNCHANGED <<record, lock, foreign, helper, shell>>

RunPoll ==
  /\ runner.pc = "await" /\ lock = "free"
  /\ \/ /\ record.status \in {"cancelling", "closed"}
        /\ runner' = [runner EXCEPT !.pc = "list", !.cancelled = TRUE]
     \/ record = Absent /\ runner' = [runner EXCEPT !.pc = "lost"]
     \/ record.status = "running" /\ proc[Leader] = "zombie" /\ Drain
  /\ UNCHANGED <<record, lock, proc, foreign, helper, shell>>

(* A signal to the runner is a request to cancel like any other.           *)
RunInterrupted ==
  /\ "interrupt" \in Hazards /\ runner.pc = "await" /\ lock = "free"
  /\ record.status = "running" /\ ~runner.cancelled
  /\ record' = [record EXCEPT !.status = "cancelling"]
  /\ runner' = [runner EXCEPT !.cancelled = TRUE]
  /\ UNCHANGED <<lock, proc, foreign, helper, shell>>

DrainList ==
  /\ runner.pc = "list"
  /\ runner' = [runner EXCEPT !.pc = "stat", !.listed = Present]
  /\ UNCHANGED <<record, lock, proc, foreign, helper, shell>>

(* Mutant: the leader's exit is taken for the group's.                     *)
DrainedByLeader ==
  /\ runner.pc = "stat" /\ proc[Leader] = "zombie"
  /\ runner' = [runner EXCEPT !.pc = "reap", !.listed = {}]
  /\ UNCHANGED <<record, lock, proc, foreign, helper, shell>>

Drained ==
  /\ runner.pc = "stat" /\ ~groupLive(runner.listed)
  /\ runner' = [runner EXCEPT !.pc = "reap", !.listed = {}]
  /\ UNCHANGED <<record, lock, proc, foreign, helper, shell>>

(* Live: look again until the grace period of the last signal is over.     *)
DrainLooksAgain ==
  /\ runner.pc = "stat" /\ groupLive(runner.listed) /\ runner.stage # "check"
  /\ runner' = [runner EXCEPT !.pc = "list", !.listed = {}]
  /\ UNCHANGED <<record, lock, proc, foreign, helper, shell>>

DrainEscalates ==
  /\ runner.pc = "stat" /\ groupLive(runner.listed) /\ runner.stage # "kill"
  /\ runner' = [runner EXCEPT !.pc = "signal", !.listed = {},
                  !.stage = IF runner.stage = "check" THEN "term" ELSE "kill"]
  /\ UNCHANGED <<record, lock, proc, foreign, helper, shell>>

DrainGivesUp ==
  /\ "stuck" \in Hazards
  /\ runner.pc = "stat" /\ groupLive(runner.listed) /\ runner.stage = "kill"
  /\ runner' = [runner EXCEPT !.pc = "lost", !.listed = {}]
  /\ UNCHANGED <<record, lock, proc, foreign, helper, shell>>

SignalGroup ==
  /\ runner.pc = "signal"
  /\ proc' = IF runner.stage = "kill" THEN Doomed ELSE proc
  /\ runner' = [runner EXCEPT !.pc = "list"]
  /\ UNCHANGED <<record, lock, foreign, helper, shell>>

(* command.Wait: only now may the worker's PID be used again.              *)
Reap ==
  /\ runner.pc = "reap" /\ proc[Leader] = "zombie"
  /\ proc' = [proc EXCEPT ![Leader] = "gone"]
  /\ runner' = [runner EXCEPT !.pc = "finish"]
  /\ UNCHANGED <<record, lock, foreign, helper, shell>>

(* Mutant: the runner does not notice that its record was cleaned up.      *)
RunFinishBlind ==
  /\ runner.pc = "finish" /\ lock = "free"
  /\ record' = IF runner.cancelled \/ record.status \in {"absent", "cancelling", "closed"}
                 THEN [status |-> "closed", published |-> TRUE] ELSE Absent
  /\ runner' = [runner EXCEPT !.pc = "done"]
  /\ UNCHANGED <<lock, proc, foreign, helper, shell>>

(* Mutant: an interrupted run is recorded under a status of its own.       *)
RunFinishInterrupted ==
  /\ runner.pc = "finish" /\ lock = "free"
  /\ record' = IF runner.cancelled THEN [record EXCEPT !.status = "interrupted"]
               ELSE Absent
  /\ runner' = [runner EXCEPT !.pc = "done"]
  /\ UNCHANGED <<lock, proc, foreign, helper, shell>>

RunFinish ==
  /\ runner.pc = "finish" /\ lock = "free"
  /\ record' = IF record # Absent
                    /\ (runner.cancelled \/ record.status \in {"cancelling", "closed"})
                 THEN [record EXCEPT !.status = "closed"] ELSE Absent
  /\ runner' = [runner EXCEPT !.pc = "done"]
  /\ UNCHANGED <<lock, proc, foreign, helper, shell>>

Runner ==
  \/ RunLaunch \/ RunPublish \/ RunPoll \/ DrainList \/ Drained
  \/ DrainLooksAgain \/ SignalGroup \/ Reap \/ RunFinish

(***************************************************************************)
(* The processes and the kernel.                                           *)
(***************************************************************************)
RunnerKilled ==
  /\ runnerLive
  /\ IF runner.pc = "started" THEN "launchKill" \in Hazards ELSE "kill" \in Hazards
  /\ runner' = [runner EXCEPT !.pc = "killed", !.listed = {}]
  /\ lock' = IF lock = "runner" THEN "free" ELSE lock
  /\ UNCHANGED <<record, proc, foreign, helper, shell>>

Looking == runner.pc = "stat" \/ \E h \in Helpers : helper[h].pc = "stat"

Fork ==
  /\ "outrun" \in Hazards \/ ~Looking
  /\ \E m \in Members : proc[m] = "live"
  /\ \E c \in Children : /\ proc[c] = "unborn"
                         /\ proc' = [proc EXCEPT ![c] = "live"]
  /\ UNCHANGED <<record, lock, foreign, runner, helper, shell>>

Exited(m) ==
  proc' = [proc EXCEPT ![m] = IF m = Leader THEN "zombie" ELSE "gone"]

Exit ==
  /\ \E m \in Members : proc[m] = "live" /\ Exited(m)
  /\ UNCHANGED <<record, lock, foreign, runner, helper, shell>>

Die ==
  /\ \E m \in Members : proc[m] = "dying" /\ Exited(m)
  /\ UNCHANGED <<record, lock, foreign, runner, helper, shell>>

InitReaps ==
  /\ proc[Leader] = "zombie" /\ runner.pc \in {"killed", "lost"}
  /\ proc' = [proc EXCEPT ![Leader] = "gone"]
  /\ UNCHANGED <<record, lock, foreign, runner, helper, shell>>

(* A PID is free once its process is reaped and its group is empty.        *)
ForeignTakesPid ==
  /\ "reuse" \in Hazards /\ foreign = "none" /\ proc[Leader] = "gone"
  /\ \A m \in Children : proc[m] \notin {"live", "dying"}
  /\ foreign' \in {"leads", "plain"}
  /\ UNCHANGED <<record, lock, proc, runner, helper, shell>>

ForeignExits ==
  /\ Reused /\ foreign' = "spent"
  /\ UNCHANGED <<record, lock, proc, runner, helper, shell>>

Init ==
  /\ record = Absent /\ lock = "free"
  /\ proc = [m \in Members |-> "unborn"] /\ foreign = "none"
  /\ runner = [pc |-> "idle", stage |-> "check", listed |-> {}, cancelled |-> FALSE]
  /\ helper = [h \in Helpers |-> NoHelper]
  /\ shell = [pc |-> "start", on |-> "none", timeouts |-> 0]

Shell ==
  \/ ShellPrepare \/ ShellPrepareFails \/ ShellPrepared \/ ShellRunReturns
  \/ ShellSends \/ ShellHearsCancel \/ ShellHearsVerify

Next ==
  \/ Shell \/ ShellSignalled \/ ShellTimesOut
  \/ \E h \in Helpers : Helper(h)
  \/ Runner \/ RunLaunchFails \/ RunInterrupted \/ DrainEscalates \/ DrainGivesUp
  \/ RunnerKilled \/ Fork \/ Exit \/ Die \/ InitReaps
  \/ ForeignTakesPid \/ ForeignExits

Spec == Init /\ [][Next]_vars

(***************************************************************************)
(* Properties.                                                             *)
(***************************************************************************)

(* When the shell returns, the operation is over for good: nothing of it   *)
(* runs or will ever start, and its record is gone (cancel_and_verify,     *)
(* prepare before run).                                                    *)
ReturnMeansClosed ==
  shell.pc = "returned" =>
    record = Absent /\ \A m \in Members : proc[m] # "live"

(* A group signal goes to the group the runner started, whose leader it    *)
(* has not reaped: never to a process that was given the same number.      *)
SignalsStayOwn ==
  [][SignalGroup => proc[Leader] \in {"live", "dying", "zombie"} /\ ~Reused]_vars

(* The worker is reaped only after all its group has exited: nothing it    *)
(* left behind goes on unobserved.                                         *)
ReapedAfterDrain ==
  [][Reap => \A m \in Children : proc[m] \notin {"live", "dying"}]_vars

(* A record is settled by a helper only when every process it could speak  *)
(* of is gone; a PID that belongs to somebody else keeps it open.          *)
SettledWhenGone ==
  [][\A h \in Helpers : HelperSettle(h) /\ record.status # "closed" =>
       proc[Leader] = "gone" /\ \A m \in Children : proc[m] \notin {"live", "dying"}]_vars

(***************************************************************************)
(* Fairness: processes and commands take their steps, the lock is passed   *)
(* on, grace periods end, a killed process dies, a foreign process exits.  *)
(* A worker never has to exit.                                             *)
(***************************************************************************)
Fairness ==
  /\ WF_vars(Shell) /\ \A h \in Helpers : SF_vars(Helper(h))
  /\ SF_vars(Runner) /\ SF_vars(DrainEscalates)
  /\ WF_vars(Die) /\ WF_vars(InitReaps) /\ WF_vars(ForeignExits)

FairSpec == Spec /\ Fairness

(* A shell that cancels or verifies returns, because the runner stops even *)
(* a group that ignores SIGTERM -- unless the runner is gone before it     *)
(* could, when nothing is left that may signal the group.                  *)
CancelReturns ==
  shell.pc \in {"cancel", "verify"} ~>
    (shell.pc = "returned" \/ runner.pc \in {"killed", "lost"})
==============================================================================
