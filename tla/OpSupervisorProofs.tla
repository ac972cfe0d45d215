-------------------------- MODULE OpSupervisorProofs --------------------------
(***************************************************************************)
(* Theorems about OpSupervisor, for any number of helpers and of processes *)
(* in the worker's group.                                                  *)
(***************************************************************************)
EXTENDS OpSupervisor, TLAPS

-----------------------------------------------------------------------------
(* Types.                                                                  *)

HelperRecord ==
  [cmd : {"none", "prepare", "cancel", "verify"},
   pc : {"idle", "sent", "identity", "list", "stat", "settle", "answered"},
   rounds : 0..2, listed : SUBSET Members,
   answer : {"none", "ok", "open", "failed"}]

LEMMA MembersFacts == Leader \in Members /\ Children \subseteq Members
BY DEF Members

RunnerRecord ==
  [pc : {"idle", "inflight", "started", "await", "list", "stat", "signal", "reap",
         "finish", "done", "killed", "lost"},
   stage : {"check", "term", "kill"}, listed : SUBSET Members, cancelled : BOOLEAN]

LEMMA PresentType == Present \subseteq Members
BY DEF Present, Members

LEMMA NoHelperType == NoHelper \in HelperRecord
<1>1. 0 \in 0..2 /\ {} \subseteq Members
  OBVIOUS
<1> QED BY <1>1 DEF NoHelper, HelperRecord

LEMMA OneHelper ==
  ASSUME helper \in [Helpers -> HelperRecord], NEW h \in Helpers,
         NEW r \in HelperRecord, helper' = [helper EXCEPT ![h] = r]
  PROVE  helper' \in [Helpers -> HelperRecord]
OBVIOUS

LEMMA HelperFields ==
  ASSUME NEW r \in HelperRecord
  PROVE  /\ r.cmd \in {"none", "prepare", "cancel", "verify"}
         /\ r.rounds \in 0..2 /\ r.listed \subseteq Members
         /\ \A pc \in {"identity", "list", "stat", "settle"}, l \in SUBSET Members,
              n \in 0..2 :
              /\ [r EXCEPT !.pc = pc, !.listed = l] \in HelperRecord
              /\ [r EXCEPT !.pc = pc, !.rounds = n] \in HelperRecord
              /\ [r EXCEPT !.pc = pc, !.listed = l, !.rounds = n] \in HelperRecord
BY DEF HelperRecord

LEMMA AnsweredType ==
  ASSUME helper \in [Helpers -> HelperRecord], NEW h \in Helpers,
         NEW a \in {"none", "ok", "open", "failed"}, Answered(h, a)
  PROVE  helper' \in [Helpers -> HelperRecord] /\ lock' = "free"
<1> DEFINE heard == [NoHelper EXCEPT !.cmd = helper[h].cmd,
                                     !.pc = "answered", !.answer = a]
<1>2. helper[h].cmd \in {"none", "prepare", "cancel", "verify"}
  BY HelperFields
<1>4. heard \in HelperRecord
  BY <1>2, NoHelperType DEF HelperRecord
<1>5. NoHelper \in HelperRecord
  BY NoHelperType
<1> HIDE DEF heard
<1>6. helper' = [helper EXCEPT ![h] = IF shell.on = h THEN heard ELSE NoHelper]
  BY DEF Answered, heard
<1>7. (IF shell.on = h THEN heard ELSE NoHelper) \in HelperRecord
  BY <1>4, <1>5
<1> QED BY <1>6, <1>7, OneHelper DEF Answered

LEMMA ContinueType ==
  ASSUME helper \in [Helpers -> HelperRecord], NEW h \in Helpers,
         NEW pc \in {"identity", "list", "stat", "settle"}, Continue(h, pc)
  PROVE  helper' \in [Helpers -> HelperRecord] /\ lock' = h
<1> DEFINE next == [helper[h] EXCEPT !.pc = pc, !.listed = {}]
<1>1. next \in HelperRecord
  BY HelperFields
<1>2. helper' = [helper EXCEPT ![h] = next]
  BY DEF Continue
<1> HIDE DEF next
<1> QED BY <1>1, <1>2, OneHelper DEF Continue

LEMMA RunnerLooks ==
  ASSUME NEW r \in RunnerRecord, NEW pc \in {"list", "signal", "reap", "lost"},
         NEW stage \in {"check", "term", "kill"}
  PROVE  /\ [r EXCEPT !.pc = pc, !.listed = {}] \in RunnerRecord
         /\ [r EXCEPT !.pc = pc, !.listed = {}, !.stage = stage] \in RunnerRecord
BY DEF RunnerRecord

LEMMA SendType ==
  ASSUME helper \in [Helpers -> HelperRecord],
         NEW cmd \in {"prepare", "cancel", "verify"}, NEW pc, Send(pc, cmd)
  PROVE  /\ helper' \in [Helpers -> HelperRecord]
         /\ \E h \in Helpers : shell' = [shell EXCEPT !.pc = pc, !.on = h]
<1>1. PICK h \in Helpers :
        /\ helper' = [helper EXCEPT ![h] = [NoHelper EXCEPT !.cmd = cmd, !.pc = "sent"]]
        /\ shell' = [shell EXCEPT !.pc = pc, !.on = h]
  BY DEF Send
<1>2. [NoHelper EXCEPT !.cmd = cmd, !.pc = "sent"] \in HelperRecord
  BY NoHelperType DEF HelperRecord
<1> QED BY <1>1, <1>2, OneHelper

LEMMA ShellType ==
  ASSUME TypeOK,
         ShellPrepare \/ ShellPrepareFails \/ ShellPrepared \/ ShellRunReturns
           \/ ShellSignalled \/ ShellSends \/ ShellHearsCancel \/ ShellHearsVerify
           \/ ShellTimesOut
  PROVE  TypeOK'
<1> USE DEF TypeOK
<1>a. NoHelper \in HelperRecord
  BY NoHelperType
<1>b. \A pc, cmd : /\ Send(pc, cmd)
                   /\ cmd \in {"prepare", "cancel", "verify"}
                   /\ pc \in {"prepare", "cancel", "verify"}
        => /\ helper' \in [Helpers -> HelperRecord]
           /\ shell' \in [pc : {"start", "prepare", "run", "cancel", "verify",
                                "returned", "gaveUp"},
                          on : Helpers \cup {"none"}, timeouts : 0..MaxTimeouts]
  <2> SUFFICES ASSUME NEW pc \in {"prepare", "cancel", "verify"},
                      NEW cmd \in {"prepare", "cancel", "verify"}, Send(pc, cmd)
               PROVE  /\ helper' \in [Helpers -> HelperRecord]
                      /\ shell' \in [pc : {"start", "prepare", "run", "cancel",
                                           "verify", "returned", "gaveUp"},
                                     on : Helpers \cup {"none"},
                                     timeouts : 0..MaxTimeouts]
    OBVIOUS
  <2>1. helper \in [Helpers -> HelperRecord]
    BY DEF HelperRecord
  <2>2. shell \in [pc : {"start", "prepare", "run", "cancel", "verify",
                        "returned", "gaveUp"},
                  on : Helpers \cup {"none"}, timeouts : 0..MaxTimeouts]
    OBVIOUS
  <2> HIDE DEF TypeOK
  <2>3. /\ helper' \in [Helpers -> HelperRecord]
        /\ \E h \in Helpers : shell' = [shell EXCEPT !.pc = pc, !.on = h]
    BY <2>1, SendType, ZenonT(20)
  <2>4. PICK h \in Helpers : shell' = [shell EXCEPT !.pc = pc, !.on = h]
    BY <2>3
  <2>5. shell' \in [pc : {"start", "prepare", "run", "cancel", "verify",
                         "returned", "gaveUp"},
                   on : Helpers \cup {"none"}, timeouts : 0..MaxTimeouts]
    BY <2>2, <2>4
  <2> QED BY <2>3, <2>5
<1>c. \A pc : /\ ShellGoes(pc)
              /\ pc \in {"start", "prepare", "run", "cancel", "verify",
                         "returned", "gaveUp"}
        => shell' \in [pc : {"start", "prepare", "run", "cancel", "verify",
                             "returned", "gaveUp"},
                       on : Helpers \cup {"none"}, timeouts : 0..MaxTimeouts]
  BY DEF ShellGoes
<1>d. \A answers : Hear(answers) => helper' \in [Helpers -> HelperRecord]
  BY <1>a DEF Hear, HelperRecord
<1>1. CASE ShellPrepare
  BY <1>1, <1>b DEF ShellPrepare, HelperRecord
<1>2. CASE ShellPrepareFails
  BY <1>2, <1>c, <1>d DEF ShellPrepareFails, HelperRecord
<1>3. CASE ShellPrepared
  BY <1>3, <1>c, <1>d DEF ShellPrepared, HelperRecord
<1>4. CASE ShellRunReturns \/ ShellSignalled
  BY <1>4, <1>c DEF ShellRunReturns, ShellSignalled
<1>5. CASE ShellSends
  BY <1>5, <1>b DEF ShellSends, HelperRecord
<1>6. CASE ShellHearsCancel
  BY <1>6, <1>c, <1>d DEF ShellHearsCancel, HelperRecord
<1>7. CASE ShellHearsVerify
  BY <1>7, <1>c, <1>d DEF ShellHearsVerify, HelperRecord
<1>8. CASE ShellTimesOut
  <2>1. MaxTimeouts \in Nat
    BY HelperShape
  <2>2. shell.timeouts + 1 \in 0..MaxTimeouts
    BY <1>8, <2>1 DEF ShellTimesOut
  <2>3. shell'.pc \in {"gaveUp", "verify", "cancel"}
    BY <1>8 DEF ShellTimesOut
  <2> QED BY <1>8, <2>2, <2>3 DEF ShellTimesOut
<1> QED BY <1>1, <1>2, <1>3, <1>4, <1>5, <1>6, <1>7, <1>8

LEMMA HelperType ==
  ASSUME TypeOK, NEW h \in Helpers, Helper(h)
  PROVE  TypeOK'
<1> USE DEF TypeOK
<1>a. helper \in [Helpers -> HelperRecord]
  BY DEF HelperRecord
<1>b. \A a \in {"none", "ok", "open", "failed"} : Answered(h, a) =>
        helper' \in [Helpers -> HelperRecord] /\ lock' \in {"free"}
  BY <1>a, AnsweredType
<1>c. \A pc \in {"identity", "list", "stat", "settle"} : Continue(h, pc) =>
        helper' \in [Helpers -> HelperRecord] /\ lock' \in Helpers
  BY <1>a, ContinueType
<1>1. CASE Prepare(h)
  <2>1. record' \in [status : Status, published : BOOLEAN]
    <3>1. record' = [status |-> "prepared", published |-> FALSE] \/ UNCHANGED record
      BY <1>1 DEF Prepare
    <3>2. [status |-> "prepared", published |-> FALSE]
            \in [status : Status, published : BOOLEAN]
      BY Zenon DEF Status
    <3>3. record \in [status : Status, published : BOOLEAN]
      OBVIOUS
    <3> HIDE DEF TypeOK
    <3> QED BY <3>1, <3>2, <3>3
  <2>2. helper' \in [Helpers -> HelperRecord] /\ lock' \in {"free"}
    BY <1>1, <1>b DEF Prepare
  <2> QED BY <1>1, <2>1, <2>2 DEF Prepare, HelperRecord
<1>2. CASE CancelUnstarted(h)
  BY <1>2, <1>b DEF CancelUnstarted, Absent, Status, HelperRecord
<1>3. CASE CancelClosed(h) \/ Verify(h)
  BY <1>3, <1>b, <1>c DEF CancelClosed, Verify, HelperRecord
<1>4. CASE CancelStarted(h)
  <2>1. record' \in [status : Status, published : BOOLEAN]
    BY <1>4 DEF CancelStarted, Status
  <2>2. helper' \in [Helpers -> HelperRecord] /\ lock' \in {"free", h}
    <3>1. CASE runnerLive
      BY <1>4, <1>b, <3>1 DEF CancelStarted
    <3>2. CASE ~runnerLive
      <4> HIDE DEF TypeOK
      <4> DEFINE next == [helper[h] EXCEPT !.pc = "identity", !.rounds = 2]
      <4>0. /\ helper' = [helper EXCEPT ![h].pc = "identity", ![h].rounds = 2]
            /\ lock' = h
        BY <1>4, <3>2 DEF CancelStarted
      <4>1. helper' = [helper EXCEPT ![h] = next]
        BY ONLY <1>a, <4>0, h \in Helpers DEF HelperRecord
      <4>2. helper[h] \in HelperRecord
        BY <1>a
      <4>a. 2 \in 0 .. 2 /\ {} \in SUBSET Members
        OBVIOUS
      <4>3. next \in HelperRecord
        BY <4>2, <4>a, HelperFields
      <4> HIDE DEF next
      <4> QED BY <1>a, <4>0, <4>1, <4>3, OneHelper
    <3> QED BY <3>1, <3>2
  <2> QED BY <1>4, <2>1, <2>2 DEF CancelStarted, HelperRecord
<1>5. CASE HelperIdentity(h)
  BY <1>5, <1>b, <1>c DEF HelperIdentity, HelperRecord
<1>6. CASE HelperList(h)
  <2>1. PICK l \in SUBSET Members :
          helper' = [helper EXCEPT ![h] = [helper[h] EXCEPT !.pc = "stat", !.listed = l]]
    BY <1>6, PresentType DEF HelperList
  <2>2. [helper[h] EXCEPT !.pc = "stat", !.listed = l] \in HelperRecord
    BY <1>a, HelperFields
  <2>3. helper' \in [Helpers -> HelperRecord]
    BY <1>a, <2>1, <2>2, OneHelper
  <2> QED BY <1>6, <2>3 DEF HelperList, HelperRecord
<1>7. CASE HelperStat(h)
  <2>1. helper' \in [Helpers -> HelperRecord] /\ lock' \in {"free", h}
    BY <1>7, <1>b, <1>c DEF HelperStat, HelperRecord, Continue, Answered
  <2> QED BY <1>7, <2>1 DEF HelperStat, HelperRecord
<1>8. CASE HelperSettle(h)
  BY <1>8, <1>b DEF HelperSettle, Absent, Status, HelperRecord
<1> QED BY <1>1, <1>2, <1>3, <1>4, <1>5, <1>6, <1>7, <1>8 DEF Helper

LEMMA RunnerType ==
  ASSUME TypeOK,
         Runner \/ RunLaunchFails \/ RunInterrupted \/ DrainEscalates
           \/ DrainGivesUp \/ RunnerKilled
  PROVE  TypeOK'
<1> USE DEF TypeOK
<1>a. Doomed \in [Members -> ProcState]
  BY DEF Doomed, ProcState
<1>1. CASE RunLaunch
  BY <1>1, MembersFacts DEF RunLaunch, ProcState
<1>2. CASE RunPublish
  BY <1>2 DEF RunPublish, Status
<1>3. CASE RunPoll
  <2>1. /\ UNCHANGED <<record, lock, proc, foreign, helper, shell>>
        /\ \/ runner' = [runner EXCEPT !.pc = "list", !.cancelled = TRUE]
           \/ runner' = [runner EXCEPT !.pc = "lost"]
           \/ runner' = [runner EXCEPT !.pc = "list", !.stage = "check"]
    BY <1>3 DEF RunPoll, Drain
  <2>2. runner \in RunnerRecord
    BY DEF RunnerRecord
  <2>3. runner' \in RunnerRecord
    BY ONLY <2>1, <2>2 DEF RunnerRecord
  <2> QED BY <2>1, <2>3 DEF RunnerRecord
<1>4. CASE DrainList
  BY <1>4, PresentType DEF DrainList
<1>5. CASE Drained \/ DrainLooksAgain \/ DrainEscalates \/ DrainGivesUp
  <2>1. /\ UNCHANGED <<record, lock, proc, foreign, helper, shell>>
        /\ runner \in RunnerRecord /\ runner.stage \in {"check", "term", "kill"}
    BY <1>5 DEF Drained, DrainLooksAgain, DrainEscalates, DrainGivesUp, RunnerRecord
  <2>2. runner' \in RunnerRecord
    <3> HIDE DEF TypeOK
    <3>1. CASE Drained
      BY <2>1, <3>1, RunnerLooks DEF Drained
    <3>2. CASE DrainLooksAgain
      BY <2>1, <3>2, RunnerLooks DEF DrainLooksAgain
    <3>3. CASE DrainEscalates
      <4>1. PICK stage \in {"term", "kill"} :
              runner' = [runner EXCEPT !.pc = "signal", !.listed = {}, !.stage = stage]
        BY <3>3 DEF DrainEscalates
      <4> QED BY <2>1, <4>1, RunnerLooks
    <3>4. CASE DrainGivesUp
      BY <2>1, <3>4, RunnerLooks DEF DrainGivesUp
    <3> QED BY <1>5, <3>1, <3>2, <3>3, <3>4
  <2> QED BY <2>1, <2>2 DEF RunnerRecord
<1>6. CASE SignalGroup
  BY <1>6, <1>a DEF SignalGroup
<1>7. CASE Reap
  BY <1>7 DEF Reap, ProcState
<1>8. CASE RunFinish
  BY <1>8 DEF RunFinish, Absent, Status
<1>9. CASE RunLaunchFails
  BY <1>9, <1>a, MembersFacts DEF RunLaunchFails, ProcState
<1>10. CASE RunInterrupted
  BY <1>10 DEF RunInterrupted, Status
<1>11. CASE RunnerKilled
  BY <1>11 DEF RunnerKilled
<1> QED BY <1>1, <1>2, <1>3, <1>4, <1>5, <1>6, <1>7, <1>8, <1>9, <1>10, <1>11
           DEF Runner

LEMMA KernelType ==
  ASSUME TypeOK,
         Fork \/ Exit \/ Die \/ InitReaps \/ ForeignTakesPid \/ ForeignExits
  PROVE  TypeOK'
<1> USE DEF TypeOK
<1>1. CASE Fork \/ InitReaps
  BY <1>1, MembersFacts DEF Fork, InitReaps, ProcState
<1>2. CASE Exit \/ Die
  BY <1>2 DEF Exit, Die, Exited, ProcState
<1>3. CASE ForeignTakesPid \/ ForeignExits
  BY <1>3 DEF ForeignTakesPid, ForeignExits
<1> QED BY <1>1, <1>2, <1>3

(* Every record that is written has one of the statuses readRecord         *)
(* accepts, and the actors keep to their steps.                            *)
THEOREM TypeCorrect == Spec => []TypeOK
<1>1. Init => TypeOK
  <2> SUFFICES ASSUME Init PROVE TypeOK
    OBVIOUS
  <2>1. NoHelper \in HelperRecord /\ 0 \in 0..MaxTimeouts
    BY NoHelperType, HelperShape
  <2> QED BY <2>1 DEF Init, TypeOK, Absent, Status, ProcState, HelperRecord
<1>2. TypeOK /\ [Next]_vars => TypeOK'
  <2> SUFFICES ASSUME TypeOK, [Next]_vars PROVE TypeOK'
    OBVIOUS
  <2>1. CASE UNCHANGED vars
    BY <2>1 DEF vars, TypeOK
  <2>2. CASE Next
    BY <2>2, ShellType, HelperType, RunnerType, KernelType DEF Next, Shell
  <2> QED BY <2>1, <2>2
<1> QED BY <1>1, <1>2, PTL DEF Spec

-----------------------------------------------------------------------------
(* The group the runner may signal.                                        *)

(* The runner keeps the anchor of its group, the unreaped leader, from the *)
(* launch to the reap; and a PID is used again only after it.              *)
OwnGroup ==
  /\ shell.pc \in {"start", "prepare"} => runner.pc = "idle"
  /\ runner.pc \in {"idle", "inflight"} => proc[Leader] = "unborn"
  /\ runner.pc \in {"started", "await", "list", "stat", "signal", "reap"} =>
       proc[Leader] \in {"live", "dying", "zombie"}
  /\ foreign # "none" => proc[Leader] = "gone"

LEMMA OwnGroupShell ==
  ASSUME TypeOK, OwnGroup, Shell \/ ShellSignalled \/ ShellTimesOut
  PROVE  OwnGroup'
<1>1. UNCHANGED <<proc, foreign>>
  BY DEF Shell, ShellPrepare, ShellPrepareFails, ShellPrepared, ShellRunReturns,
         ShellSignalled, ShellSends, ShellHearsCancel, ShellHearsVerify, ShellTimesOut
<1>2. CASE ShellPrepared
  <2>1. runner.pc = "idle" /\ shell'.pc \in {"cancel", "run"}
        /\ runner'.pc \in {"idle", "inflight"}
    BY <1>2 DEF ShellPrepared, ShellGoes, OwnGroup, TypeOK
  <2> QED BY <1>1, <2>1 DEF OwnGroup
<1>3. CASE ShellPrepare
  <2>1. UNCHANGED runner /\ runner.pc = "idle"
    BY <1>3 DEF ShellPrepare, OwnGroup
  <2> QED BY <1>1, <2>1 DEF OwnGroup
<1>4. CASE (Shell /\ ~ShellPrepared /\ ~ShellPrepare) \/ ShellSignalled \/ ShellTimesOut
  <2>1. UNCHANGED runner
    BY <1>4 DEF Shell, ShellPrepareFails, ShellRunReturns, ShellSignalled, ShellSends,
                ShellHearsCancel, ShellHearsVerify, ShellTimesOut
  <2>2. shell'.pc \notin {"start", "prepare"}
    <3>1. CASE ShellSends
      <4>1. PICK h \in Helpers : shell' = [shell EXCEPT !.pc = shell.pc, !.on = h]
        BY <3>1 DEF ShellSends, Send
      <4> QED BY <3>1, <4>1 DEF ShellSends, TypeOK
    <3>2. CASE ShellTimesOut
      BY <3>2 DEF ShellTimesOut
    <3> QED BY <1>4, <3>1, <3>2
            DEF Shell, ShellPrepareFails, ShellRunReturns, ShellSignalled,
                ShellHearsCancel, ShellHearsVerify, ShellGoes, TypeOK
  <2> QED BY <1>1, <2>1, <2>2 DEF OwnGroup
<1> QED BY <1>2, <1>3, <1>4

LEMMA OwnGroupHelper ==
  ASSUME TypeOK, OwnGroup, NEW h \in Helpers, Helper(h)
  PROVE  OwnGroup'
<1>1. UNCHANGED <<proc, foreign, runner, shell>>
  BY DEF Helper, Prepare, CancelUnstarted, CancelClosed, CancelStarted, Verify,
         HelperIdentity, HelperList, HelperStat, HelperSettle
<1> QED BY <1>1 DEF OwnGroup

LEMMA OwnGroupRunner ==
  ASSUME TypeOK, OwnGroup,
         Runner \/ RunLaunchFails \/ RunInterrupted \/ DrainEscalates
           \/ DrainGivesUp \/ RunnerKilled
  PROVE  OwnGroup'
<1>0. Leader \in Members /\ UNCHANGED <<foreign, shell>>
  BY MembersFacts
     DEF Runner, RunLaunch, RunPublish, RunPoll, DrainList, Drained, DrainLooksAgain,
         SignalGroup, Reap, RunFinish, RunLaunchFails, RunInterrupted, DrainEscalates,
         DrainGivesUp, RunnerKilled
<1>b. runner.pc # "idle" => shell.pc \notin {"start", "prepare"}
  BY DEF OwnGroup
<1>a. /\ runner.pc # "idle" /\ runner'.pc # "idle"
      /\ shell.pc \notin {"start", "prepare"}
  BY <1>b DEF TypeOK, Runner, RunLaunch, RunPublish, RunPoll, DrainList, Drained,
         DrainLooksAgain, SignalGroup, Reap, RunFinish, RunLaunchFails, RunInterrupted,
         DrainEscalates, DrainGivesUp, RunnerKilled, runnerLive, Drain
<1>1. CASE RunLaunch
  <2>1. \/ proc' = [proc EXCEPT ![Leader] = "live"] /\ runner'.pc = "started"
        \/ UNCHANGED proc /\ runner'.pc = "done"
    <3>1. CASE record.status = "prepared"
      BY <1>1, <3>1 DEF RunLaunch, TypeOK
    <3>2. CASE record.status # "prepared"
      BY <1>1, <3>2 DEF RunLaunch, TypeOK
    <3> QED BY <3>1, <3>2
  <2>2. foreign = "none"
    BY <1>1 DEF RunLaunch, OwnGroup
  <2> QED BY <1>0, <1>a, <2>1, <2>2 DEF OwnGroup, TypeOK
<1>2. CASE SignalGroup
  <2>1. proc'[Leader] \in {"live", "dying", "zombie"}
    BY <1>0, <1>2 DEF SignalGroup, Doomed, OwnGroup
  <2>2. foreign = "none"
    BY <1>2 DEF SignalGroup, OwnGroup
  <2> QED BY <1>0, <1>a, <2>1, <2>2, <1>2 DEF OwnGroup, TypeOK, SignalGroup
<1>3. CASE Reap \/ RunLaunchFails
  <2>1. proc'[Leader] = "gone" /\ runner'.pc \in {"finish", "done"}
    BY <1>0, <1>3 DEF Reap, RunLaunchFails, Doomed, TypeOK
  <2> QED BY <1>0, <1>a, <2>1 DEF OwnGroup
<1>4. CASE RunPublish \/ RunPoll \/ DrainList \/ Drained \/ DrainLooksAgain
           \/ RunInterrupted \/ DrainEscalates
  <2>1. /\ UNCHANGED proc
        /\ runner.pc \in {"started", "await", "list", "stat"}
    BY <1>4 DEF RunPublish, RunPoll, DrainList, Drained, DrainLooksAgain,
                RunInterrupted, DrainEscalates
  <2>2. runner'.pc \notin {"idle", "inflight"}
    BY <1>4 DEF TypeOK, RunPublish, RunPoll, DrainList, Drained, DrainLooksAgain,
                RunInterrupted, DrainEscalates, Drain
  <2> QED BY <1>0, <1>a, <2>1, <2>2 DEF OwnGroup
<1>5. CASE RunFinish \/ DrainGivesUp \/ RunnerKilled
  <2>1. UNCHANGED proc /\ runner'.pc \in {"done", "lost", "killed"}
    BY <1>5 DEF RunFinish, DrainGivesUp, RunnerKilled, TypeOK
  <2> QED BY <1>0, <1>a, <2>1 DEF OwnGroup
<1> QED BY <1>1, <1>2, <1>3, <1>4, <1>5 DEF Runner

LEMMA OwnGroupKernel ==
  ASSUME TypeOK, OwnGroup,
         Fork \/ Exit \/ Die \/ InitReaps \/ ForeignTakesPid \/ ForeignExits
  PROVE  OwnGroup'
<1>0. UNCHANGED <<runner, shell>> /\ Leader \in Members
  BY MembersFacts DEF Fork, Exit, Die, InitReaps, ForeignTakesPid, ForeignExits
<1>1. CASE Fork
  BY <1>0, <1>1, MembersFacts, MemberShape DEF Fork, OwnGroup, TypeOK
<1>2. CASE Exit \/ Die
  <2>1. UNCHANGED foreign
        /\ (proc'[Leader] = proc[Leader]
              \/ (proc[Leader] \in {"live", "dying"} /\ proc'[Leader] = "zombie"))
    <3>1. UNCHANGED foreign
      BY <1>2 DEF Exit, Die
    <3>2. PICK m \in Members : proc[m] \in {"live", "dying"} /\ Exited(m)
      BY <1>2 DEF Exit, Die
    <3>3. proc \in [Members -> ProcState]
      BY DEF TypeOK
    <3>4. proc' = [proc EXCEPT ![m] = IF m = Leader THEN "zombie" ELSE "gone"]
      BY <3>2 DEF Exited
    <3>5. m # Leader => proc'[Leader] = proc[Leader]
      BY <1>0, <3>3, <3>4
    <3>6. m = Leader => proc'[Leader] = "zombie"
      BY <1>0, <3>3, <3>4
    <3>7. CASE m = Leader
      BY <3>1, <3>2, <3>6, <3>7
    <3>8. CASE m # Leader
      BY <3>1, <3>5, <3>8
    <3> QED BY <3>7, <3>8
  <2> QED BY <1>0, <2>1 DEF OwnGroup
<1>3. CASE InitReaps
  BY <1>0, <1>3 DEF InitReaps, OwnGroup, TypeOK
<1>4. CASE ForeignTakesPid \/ ForeignExits
  BY <1>0, <1>4 DEF ForeignTakesPid, ForeignExits, Reused, OwnGroup
<1> QED BY <1>1, <1>2, <1>3, <1>4

THEOREM OwnGroupInvariant == Spec => []OwnGroup
<1>1. Init => OwnGroup
  BY MembersFacts DEF Init, OwnGroup
<1>2. TypeOK /\ OwnGroup /\ [Next]_vars => OwnGroup'
  <2> SUFFICES ASSUME TypeOK, OwnGroup, [Next]_vars PROVE OwnGroup'
    OBVIOUS
  <2>1. CASE UNCHANGED vars
    BY <2>1 DEF vars, OwnGroup
  <2>2. CASE Next
    BY <2>2, OwnGroupShell, OwnGroupHelper, OwnGroupRunner, OwnGroupKernel DEF Next
  <2> QED BY <2>1, <2>2
<1> QED BY <1>1, <1>2, TypeCorrect, PTL DEF Spec

(* No group signal ever reaches a process that was given the worker's PID: *)
(* the runner signals only while the leader it started is not reaped       *)
(* (runWorker, signalGroup).                                               *)
THEOREM SignalsOwn == Spec => SignalsStayOwn
<1>1. OwnGroup /\ [Next]_vars
        => [SignalGroup => proc[Leader] \in {"live", "dying", "zombie"} /\ ~Reused]_vars
  <2>1. ASSUME OwnGroup, SignalGroup
        PROVE  proc[Leader] \in {"live", "dying", "zombie"} /\ ~Reused
    BY <2>1 DEF OwnGroup, SignalGroup, Reused
  <2> QED BY <2>1
<1> QED BY <1>1, OwnGroupInvariant, PTL DEF Spec, SignalsStayOwn

-----------------------------------------------------------------------------
(* The lock: a command that inspects processes holds it, so the record it  *)
(* read is the record it settles.                                          *)

Busy == {"identity", "list", "stat", "settle"}

Held ==
  /\ runner.pc = "started" => lock = "runner"
  /\ \A h \in Helpers : helper[h].pc \in Busy =>
       /\ lock = h /\ helper[h].cmd \in {"cancel", "verify"}
       /\ record.status \in {"running", "cancelling", "closed"}
  /\ record.status \in {"running", "cancelling"} => record.published

LEMMA AnsweredStep ==
  ASSUME TypeOK, NEW h \in Helpers, NEW a, Answered(h, a)
  PROVE  /\ helper'[h].pc \notin Busy /\ lock' = "free"
         /\ \A o \in Helpers \ {h} : helper'[o] = helper[o]
<1> DEFINE heard == [NoHelper EXCEPT !.cmd = helper[h].cmd,
                                     !.pc = "answered", !.answer = a]
<1>1. heard.pc = "answered" /\ NoHelper.pc = "idle"
  BY DEF NoHelper
<1>2. helper' = [helper EXCEPT ![h] = IF shell.on = h THEN heard ELSE NoHelper]
  BY DEF Answered
<1>3. DOMAIN helper = Helpers
  BY DEF TypeOK
<1> HIDE DEF heard
<1>4. helper'[h] = (IF shell.on = h THEN heard ELSE NoHelper)
  BY <1>2, <1>3
<1>5. \A o \in Helpers \ {h} : helper'[o] = helper[o]
  BY <1>2, <1>3
<1>6. helper'[h].pc \in {"answered", "idle"}
  BY <1>1, <1>4
<1> QED BY <1>5, <1>6 DEF Answered, Busy

(* What a step leaves of the other helpers, and of h but for its pc, its   *)
(* rounds and its list.                                                    *)
GoesOn(h, pc, l) ==
  /\ \A o \in Helpers \ {h} : helper'[o] = helper[o]
  /\ helper'[h].pc = pc /\ helper'[h].cmd = helper[h].cmd /\ helper'[h].listed = l

LEMMA ContinueStep ==
  ASSUME TypeOK, NEW h \in Helpers, NEW pc, Continue(h, pc)
  PROVE  GoesOn(h, pc, {}) /\ lock' = h
<1> DEFINE next == [helper[h] EXCEPT !.pc = pc, !.listed = {}]
<1>1. helper[h] \in HelperRecord /\ DOMAIN helper = Helpers
  BY DEF TypeOK, HelperRecord
<1>2. next.pc = pc /\ next.cmd = helper[h].cmd /\ next.listed = {}
  BY <1>1 DEF HelperRecord
<1>3. helper' = [helper EXCEPT ![h] = next]
  BY DEF Continue
<1> HIDE DEF next
<1>4. helper'[h] = next /\ \A o \in Helpers \ {h} : helper'[o] = helper[o]
  BY <1>1, <1>3
<1> QED BY <1>2, <1>4 DEF Continue, GoesOn

(* A helper steps alone: with the lock free, or its own.                   *)
LEMMA HelperAlone ==
  ASSUME Held, NEW h \in Helpers, lock \in {"free", h}
  PROVE  /\ runner.pc # "started"
         /\ \A o \in Helpers \ {h} : helper[o].pc \notin Busy
BY HelperShape DEF Held

LEMMA HelperLock ==
  ASSUME Held, NEW h \in Helpers, Helper(h)
  PROVE  /\ lock \in {"free", h}
         /\ UNCHANGED <<proc, foreign, runner, shell>>
BY DEF Held, Busy, Helper, Begins, Prepare, CancelUnstarted, CancelClosed, CancelStarted,
       Verify, HelperIdentity, HelperList, HelperStat, HelperSettle

LEMMA HelperOthers ==
  ASSUME TypeOK, NEW h \in Helpers, Helper(h)
  PROVE  \A o \in Helpers \ {h} : helper'[o] = helper[o]
<1>1. CASE \E a : Answered(h, a)
  BY <1>1, AnsweredStep
<1>2. CASE \E pc : Continue(h, pc)
  BY <1>2, ContinueStep DEF GoesOn
<1>3. CASE ~(\E a : Answered(h, a)) /\ ~(\E pc : Continue(h, pc))
  <2>1. CancelStarted(h) \/ HelperList(h) \/ HelperStat(h)
    BY <1>3 DEF Helper, Prepare, CancelUnstarted, CancelClosed, Verify,
                HelperIdentity, HelperSettle
  <2>2. \E r : helper' = [helper EXCEPT ![h] = r]
    BY <1>3, <2>1 DEF CancelStarted, HelperList, HelperStat
  <2> QED BY <2>2 DEF TypeOK
<1> QED BY <1>1, <1>2, <1>3

(* What a helper does next once it has seen no process of the group.       *)
LEMMA StatLooks ==
  ASSUME NEW h \in Helpers, HelperStat(h),
         ~(Answered(h, "open") \/ Answered(h, "ok") \/ Continue(h, "settle"))
  PROVE  \E pc \in {"identity", "settle"}, n \in {0, 1} :
           helper' = [helper EXCEPT ![h] =
                        [helper[h] EXCEPT !.listed = {}, !.pc = pc, !.rounds = n]]
<1> DEFINE again == helper[h].rounds > 1
           pc == IF helper[h].cmd = "verify" \/ again THEN "identity" ELSE "settle"
           n == IF again THEN 1 ELSE 0
<1>1. helper' = [helper EXCEPT ![h] =
                   [helper[h] EXCEPT !.listed = {}, !.pc = pc, !.rounds = n]]
  BY DEF HelperStat
<1>2. pc \in {"identity", "settle"} /\ n \in {0, 1}
  OBVIOUS
<1> HIDE DEF pc, n
<1> QED BY <1>1, <1>2

(* Each step of a helper ends it, or goes on under its lock with a record  *)
(* that names processes.                                                   *)
LEMMA HeldHelper ==
  ASSUME TypeOK, Held, NEW h \in Helpers, Helper(h)
  PROVE  Held'
<1>1. /\ runner.pc # "started" /\ UNCHANGED runner
      /\ \A o \in Helpers \ {h} : helper[o].pc \notin Busy
  BY HelperLock, HelperAlone
<1>2. SUFFICES
        /\ \A o \in Helpers \ {h} : helper'[o] = helper[o]
        /\ helper'[h].pc \in Busy =>
             /\ lock' = h /\ helper'[h].cmd \in {"cancel", "verify"}
             /\ record'.status \in {"running", "cancelling", "closed"}
        /\ record'.status \in {"running", "cancelling"} => record'.published
  BY <1>1, <1>2 DEF Held
<1>3. CASE Prepare(h) \/ CancelUnstarted(h) \/ HelperSettle(h)
  <2>1. PICK a : Answered(h, a)
    BY <1>3 DEF Prepare, CancelUnstarted, HelperSettle
  <2>2. record'.status \in {"running", "cancelling"} => record'.published
    <3>1. CASE Prepare(h)
      BY <3>1 DEF Prepare, Held
    <3>2. CASE CancelUnstarted(h)
      BY <3>2 DEF CancelUnstarted, Absent
    <3>3. CASE HelperSettle(h)
      BY <3>3 DEF HelperSettle, Absent, Held, TypeOK
    <3> QED BY <1>3, <3>1, <3>2, <3>3
  <2> QED BY <2>1, <2>2, AnsweredStep
<1>4. CASE CancelClosed(h) \/ Verify(h)
  <2>1. UNCHANGED record /\ helper[h].cmd \in {"cancel", "verify"}
    BY <1>4 DEF CancelClosed, Verify, Begins
  <2>2. (\E a : Answered(h, a))
          \/ (Continue(h, "list") /\ record.status \in {"running", "cancelling", "closed"})
    <3>1. CASE CancelClosed(h)
      BY <3>1 DEF CancelClosed
    <3>2. CASE Verify(h)
      BY <3>2 DEF Verify
    <3> QED BY <1>4, <3>1, <3>2
  <2> QED BY <2>1, <2>2, AnsweredStep, ContinueStep DEF GoesOn, Held
<1>5. CASE CancelStarted(h)
  <2>1. record'.status = "cancelling" /\ record'.published
    BY <1>5 DEF CancelStarted, TypeOK, Held
  <2>2. CASE Answered(h, "ok")
    BY <2>1, <2>2, AnsweredStep
  <2>3. CASE ~Answered(h, "ok")
    <3>1. /\ helper' = [helper EXCEPT ![h] = [helper[h] EXCEPT !.pc = "identity", !.rounds = 2]]
          /\ lock' = h /\ helper[h].cmd = "cancel"
      BY <1>5, <2>3 DEF CancelStarted, Begins
    <3> QED BY <2>1, <3>1 DEF TypeOK
  <2> QED BY <2>2, <2>3
<1>6. CASE HelperIdentity(h)
  <2>1. UNCHANGED record /\ helper[h].pc \in Busy
    BY <1>6 DEF HelperIdentity, Busy
  <2>2. (\E a : Answered(h, a)) \/ Continue(h, "list") \/ Continue(h, "settle")
    BY <1>6 DEF HelperIdentity
  <2> QED BY <2>1, <2>2, AnsweredStep, ContinueStep DEF GoesOn, Held
<1>7. CASE HelperList(h)
  BY <1>7 DEF HelperList, TypeOK, Held, Busy
<1>8. CASE HelperStat(h)
  <2>1. UNCHANGED record /\ helper[h].pc \in Busy
    BY <1>8 DEF HelperStat, Busy
  <2>2. CASE Answered(h, "open") \/ Answered(h, "ok") \/ Continue(h, "settle")
    BY <2>1, <2>2, AnsweredStep, ContinueStep DEF GoesOn, Held
  <2>3. CASE ~(Answered(h, "open") \/ Answered(h, "ok") \/ Continue(h, "settle"))
    <3>1. PICK pc \in {"identity", "settle"}, n \in {0, 1} :
            helper' = [helper EXCEPT ![h] =
                         [helper[h] EXCEPT !.listed = {}, !.pc = pc, !.rounds = n]]
      BY <1>8, <2>3, StatLooks
    <3>2. lock' = h
      BY <1>8, <2>3 DEF HelperStat
    <3> QED BY <2>1, <3>1, <3>2 DEF TypeOK, Held
  <2> QED BY <2>2, <2>3
<1> QED BY <1>3, <1>4, <1>5, <1>6, <1>7, <1>8 DEF Helper

(* The shell only sends commands and takes answers.                        *)
LEMMA ShellStep ==
  ASSUME TypeOK, OwnGroup, Shell \/ ShellSignalled \/ ShellTimesOut
  PROVE  /\ UNCHANGED <<record, lock, proc, foreign>>
         /\ UNCHANGED runner \/ runner'.pc = "inflight"
         /\ \A h \in Helpers : helper'[h] = helper[h] \/ helper'[h].pc \notin Busy
<1>1. UNCHANGED <<record, lock, proc, foreign>>
  BY DEF Shell, ShellPrepare, ShellPrepareFails, ShellPrepared, ShellRunReturns,
         ShellSignalled, ShellSends, ShellHearsCancel, ShellHearsVerify, ShellTimesOut
<1>2. UNCHANGED runner \/ runner'.pc = "inflight"
  BY DEF TypeOK, Shell, ShellPrepare, ShellPrepareFails, ShellPrepared, ShellRunReturns,
         ShellSignalled, ShellSends, ShellHearsCancel, ShellHearsVerify, ShellTimesOut
<1>3. NoHelper.pc = "idle"
      /\ \A cmd : [NoHelper EXCEPT !.cmd = cmd, !.pc = "sent"].pc = "sent"
  BY DEF NoHelper
<1>4. \A pc, cmd : Send(pc, cmd) =>
        \A h \in Helpers : helper'[h] = helper[h] \/ helper'[h].pc \notin Busy
  BY <1>3 DEF Send, TypeOK, Busy
<1>5. \A answers : Hear(answers) =>
        \A h \in Helpers : helper'[h] = helper[h] \/ helper'[h].pc \notin Busy
  BY <1>3 DEF Hear, TypeOK, Busy
<1>6. UNCHANGED helper \/ (\E pc, cmd : Send(pc, cmd)) \/ (\E answers : Hear(answers))
  BY DEF Shell, ShellPrepare, ShellPrepareFails, ShellPrepared, ShellRunReturns,
         ShellSignalled, ShellSends, ShellHearsCancel, ShellHearsVerify, ShellTimesOut
<1> QED BY <1>1, <1>2, <1>4, <1>5, <1>6

(* The runner and the kernel leave the helpers alone, and while a helper   *)
(* holds the lock they leave the record alone too.                         *)
LEMMA HeldRunner ==
  ASSUME TypeOK, Held,
         Runner \/ RunLaunchFails \/ RunInterrupted \/ DrainEscalates
           \/ DrainGivesUp \/ RunnerKilled
  PROVE  Held' /\ UNCHANGED helper
<1>1. UNCHANGED helper
  BY DEF Runner, RunLaunch, RunPublish, RunPoll, DrainList, Drained, DrainLooksAgain,
         SignalGroup, Reap, RunFinish, RunLaunchFails, RunInterrupted, DrainEscalates,
         DrainGivesUp, RunnerKilled
<1>2. CASE RunLaunch
  <2>1. /\ UNCHANGED record /\ lock = "free"
        /\ runner'.pc = "started" => lock' = "runner"
    BY <1>2 DEF RunLaunch, TypeOK
  <2>2. \A h \in Helpers : helper[h].pc \notin Busy
    BY <2>1, HelperShape DEF Held
  <2> QED BY <1>1, <2>1, <2>2 DEF Held
<1>3. CASE RunPublish
  <2>1. \A h \in Helpers : helper[h].pc \notin Busy
    BY <1>3, HelperShape DEF Held, RunPublish
  <2> QED BY <1>1, <1>3, <2>1 DEF Held, RunPublish, TypeOK
<1>4. CASE RunLaunchFails
  <2>1. \A h \in Helpers : helper[h].pc \notin Busy
    BY <1>4, HelperShape DEF Held, RunLaunchFails
  <2> QED BY <1>1, <1>4, <2>1 DEF Held, RunLaunchFails, TypeOK
<1>5. CASE RunFinish \/ RunInterrupted
  <2>1. \A h \in Helpers : helper[h].pc \notin Busy
    BY <1>5, HelperShape DEF Held, RunFinish, RunInterrupted
  <2>2. runner'.pc # "started"
    BY <1>5 DEF RunFinish, RunInterrupted, TypeOK
  <2>3. record'.status \in {"running", "cancelling"} => record'.published
    BY <1>5 DEF RunFinish, RunInterrupted, Absent, Held, TypeOK
  <2> QED BY <1>1, <2>1, <2>2, <2>3 DEF Held
<1>6. CASE RunnerKilled
  <2>1. runner'.pc # "started" /\ UNCHANGED record
    BY <1>6 DEF RunnerKilled, TypeOK
  <2>2. \A h \in Helpers : lock = h => lock' = h
    BY <1>6, HelperShape DEF RunnerKilled
  <2> QED BY <1>1, <2>1, <2>2 DEF Held
<1>7. CASE RunPoll \/ DrainList \/ Drained \/ DrainLooksAgain \/ SignalGroup \/ Reap
           \/ DrainEscalates \/ DrainGivesUp
  <2>1. UNCHANGED <<record, lock>>
    BY <1>7 DEF RunPoll, DrainList, Drained, DrainLooksAgain, SignalGroup, Reap,
                DrainEscalates, DrainGivesUp
  <2>2. runner'.pc # "started"
    BY <1>7 DEF RunPoll, DrainList, Drained, DrainLooksAgain, SignalGroup, Reap,
                DrainEscalates, DrainGivesUp, Drain, TypeOK
  <2> QED BY <1>1, <2>1, <2>2 DEF Held
<1> QED BY <1>1, <1>2, <1>3, <1>4, <1>5, <1>6, <1>7 DEF Runner

LEMMA HeldInvariant == Spec => []Held
<1>1. Init => Held
  BY DEF Init, Held, Absent, NoHelper, Busy
<1>2. TypeOK /\ OwnGroup /\ Held /\ [Next]_vars => Held'
  <2> SUFFICES ASSUME TypeOK, OwnGroup, Held, [Next]_vars PROVE Held'
    OBVIOUS
  <2>1. CASE UNCHANGED vars
    BY <2>1 DEF vars, Held
  <2>2. CASE Shell \/ ShellSignalled \/ ShellTimesOut
    BY <2>2, ShellStep DEF Held
  <2>3. CASE Fork \/ Exit \/ Die \/ InitReaps \/ ForeignTakesPid \/ ForeignExits
    BY <2>3 DEF Held, Fork, Exit, Die, InitReaps, ForeignTakesPid, ForeignExits
  <2> QED BY <2>1, <2>2, <2>3, HeldHelper, HeldRunner DEF Next
<1> QED BY <1>1, <1>2, TypeCorrect, OwnGroupInvariant, PTL DEF Spec

-----------------------------------------------------------------------------
(* The looks at /proc, as long as no process forks between a listing and   *)
(* the reading of what it listed.                                          *)

Running(m) == proc[m] \in {"live", "dying"}
Quiet == \A m \in Members : ~Running(m)

Watched ==
  /\ runner.pc = "stat" => \A m \in Members : Running(m) => m \in runner.listed
  /\ runner.pc = "reap" => Quiet

Settling(h) ==
  record.status # "closed" =>
    /\ helper[h].pc = "stat" =>
         \A m \in Members : Running(m) => m \in helper[h].listed
    /\ helper[h].cmd = "cancel" /\ helper[h].pc \in {"list", "stat", "settle"} =>
         proc[Leader] = "gone"
    /\ helper[h].cmd = "verify" /\ helper[h].pc = "identity" => Quiet
    /\ helper[h].pc = "settle" => proc[Leader] = "gone" /\ Quiet

Observed == Watched /\ \A h \in Helpers : Settling(h)

(* A look that finds no live process of the group, finds none there is.    *)
LEMMA LookIsComplete ==
  ASSUME NEW l, ~groupLive(l), Reused => proc[Leader] = "gone",
         \A m \in Members : Running(m) => m \in l
  PROVE  Quiet
<1> SUFFICES ASSUME NEW m \in Members, Running(m) PROVE FALSE
  BY DEF Quiet
<1>1. m \in l
  OBVIOUS
<1>2. ~(m = Leader /\ Reused)
  BY DEF Running
<1> QED BY <1>1, <1>2 DEF groupLive, Running

LEMMA ReusedIsGone == OwnGroup /\ Reused => proc[Leader] = "gone"
BY DEF OwnGroup, Reused

LEMMA PresentIsComplete == \A m \in Members : Running(m) => m \in Present
BY DEF Running, Present

(* Nothing runs that did not before, and nothing gone comes back; or the   *)
(* group was alive, and nobody looked.                                     *)
Ebbs == \A m \in Members : Running(m)' => Running(m)
Stays == proc[Leader] = "gone" => proc'[Leader] = "gone"

LEMMA KernelEbbs ==
  ASSUME TypeOK, "outrun" \notin Hazards,
         Fork \/ Exit \/ Die \/ InitReaps \/ ForeignTakesPid \/ ForeignExits
  PROVE  /\ UNCHANGED <<record, lock, runner, helper, shell>>
         /\ Stays /\ (Ebbs \/ (~Looking /\ ~Quiet))
<1>0. /\ UNCHANGED <<record, lock, runner, helper, shell>>
      /\ Leader \in Members /\ proc \in [Members -> ProcState]
  BY MembersFacts DEF TypeOK, Fork, Exit, Die, InitReaps, ForeignTakesPid, ForeignExits
<1>1. CASE Fork
  <2>1. PICK c \in Children : proc' = [proc EXCEPT ![c] = "live"]
    BY <1>1 DEF Fork
  <2>2. Stays
    BY <1>0, <2>1, MembersFacts, MemberShape DEF Stays
  <2>3. ~Looking /\ ~Quiet
    BY <1>1 DEF Fork, Quiet, Running
  <2> QED BY <1>0, <2>2, <2>3
<1>2. CASE Exit \/ Die
  <2>1. PICK m \in Members : proc[m] \in {"live", "dying"} /\ Exited(m)
    BY <1>2 DEF Exit, Die
  <2>2. \A o \in Members : o # m => proc'[o] = proc[o]
    BY <1>0, <2>1 DEF Exited
  <2>3. proc'[m] \in {"zombie", "gone"}
    BY <1>0, <2>1 DEF Exited
  <2> QED BY <1>0, <2>1, <2>2, <2>3 DEF Ebbs, Stays, Running
<1>3. CASE InitReaps
  BY <1>0, <1>3 DEF InitReaps, Ebbs, Stays, Running
<1>4. CASE ForeignTakesPid \/ ForeignExits
  BY <1>4, <1>0 DEF ForeignTakesPid, ForeignExits, Ebbs, Stays, Running
<1> QED BY <1>1, <1>2, <1>3, <1>4

(* The runner starts the group once, when no helper inspects it; else it   *)
(* only ends processes.                                                    *)
LEMMA RunnerEbbs ==
  ASSUME TypeOK, OwnGroup, Held,
         Runner \/ RunLaunchFails \/ RunInterrupted \/ DrainEscalates
           \/ DrainGivesUp \/ RunnerKilled
  PROVE  Stays /\ (Ebbs \/ RunLaunch)
<1>0. Leader \in Members /\ proc \in [Members -> ProcState]
  BY MembersFacts DEF TypeOK
<1>1. CASE RunLaunch
  BY <1>0, <1>1 DEF RunLaunch, OwnGroup, Stays
<1>2. CASE SignalGroup \/ RunLaunchFails
  <2>1. \A m \in Members : proc'[m] \in {proc[m], "gone"}
                             \/ (proc[m] = "live" /\ proc'[m] = "dying")
    <3>1. \A m \in Members : Doomed[m] = proc[m] \/ (proc[m] = "live" /\ Doomed[m] = "dying")
      BY DEF Doomed
    <3>2. Doomed \in [Members -> ProcState]
      BY <1>0 DEF Doomed, ProcState
    <3>3. CASE SignalGroup
      BY <3>1, <3>3 DEF SignalGroup
    <3>4. CASE RunLaunchFails
      BY <3>1, <3>2, <3>4 DEF RunLaunchFails
    <3> QED BY <1>2, <3>3, <3>4
  <2> QED BY <1>0, <2>1 DEF Stays, Ebbs, Running
<1>3. CASE Reap
  BY <1>0, <1>3 DEF Reap, Stays, Ebbs, Running
<1>4. CASE RunPublish \/ RunPoll \/ DrainList \/ Drained \/ DrainLooksAgain
           \/ RunFinish \/ RunInterrupted \/ DrainEscalates \/ DrainGivesUp \/ RunnerKilled
  <2>1. UNCHANGED proc
    BY <1>4 DEF RunPublish, RunPoll, DrainList, Drained, DrainLooksAgain, RunFinish,
                RunInterrupted, DrainEscalates, DrainGivesUp, RunnerKilled
  <2> QED BY <2>1 DEF Stays, Ebbs, Running
<1> QED BY <1>1, <1>2, <1>3, <1>4 DEF Runner

(* Whoever else steps, a helper may still believe what it has seen.        *)
LEMMA StillSettling ==
  ASSUME NEW h \in Helpers, Settling(h), UNCHANGED record, helper'[h] = helper[h],
         Stays, Ebbs \/ (~Looking /\ ~Quiet)
  PROVE  Settling(h)'
BY DEF Settling, Looking, Stays, Ebbs, Quiet

LEMMA IdleSettles ==
  ASSUME NEW h \in Helpers, helper'[h].pc \notin Busy
  PROVE  Settling(h)'
BY DEF Settling, Busy

LEMMA WatchedRunner ==
  ASSUME TypeOK, OwnGroup, Held, Watched,
         Runner \/ RunLaunchFails \/ RunInterrupted \/ DrainEscalates
           \/ DrainGivesUp \/ RunnerKilled
  PROVE  Watched'
<1>1. CASE DrainList
  <2>1. runner'.pc = "stat" /\ runner'.listed = Present /\ UNCHANGED proc
    BY <1>1 DEF DrainList, TypeOK
  <2> QED BY <2>1, PresentIsComplete DEF Watched, Running
<1>2. CASE Drained
  <2>1. runner'.pc = "reap" /\ UNCHANGED proc
    BY <1>2 DEF Drained, TypeOK
  <2>2. Quiet
    BY <1>2, LookIsComplete, ReusedIsGone DEF Drained, Watched
  <2> QED BY <2>1, <2>2 DEF Watched, Quiet, Running
<1>3. CASE ~DrainList /\ ~Drained
  <2>1. runner'.pc \notin {"stat", "reap"}
    BY <1>3 DEF TypeOK, Runner, RunLaunch, RunPublish, RunPoll, DrainLooksAgain,
                SignalGroup, Reap, RunFinish, RunLaunchFails, RunInterrupted,
                DrainEscalates, DrainGivesUp, RunnerKilled, Drain
  <2> QED BY <2>1 DEF Watched
<1> QED BY <1>1, <1>2, <1>3

LEMMA SettlingHelper ==
  ASSUME TypeOK, OwnGroup, Held, NEW h \in Helpers, Settling(h), Helper(h)
  PROVE  Settling(h)'
<1>0. UNCHANGED <<proc, foreign>>
  BY HelperLock
<1>a. Quiet => Quiet'
  BY <1>0 DEF Quiet, Running
<1>1. CASE \E a : Answered(h, a)
  BY <1>1, AnsweredStep, IdleSettles
<1>2. CASE CancelClosed(h)
  BY <1>2 DEF CancelClosed, Settling
<1>3. CASE Verify(h) /\ Continue(h, "list")
  <2>1. helper'[h].pc = "list" /\ helper'[h].cmd = "verify"
    BY <1>3, ContinueStep DEF GoesOn, Verify, Begins
  <2> QED BY <2>1 DEF Settling
<1>4. CASE CancelStarted(h) /\ ~\E a : Answered(h, a)
  <2>1. helper'[h].pc = "identity" /\ helper'[h].cmd = "cancel"
    BY <1>4 DEF CancelStarted, Begins, TypeOK
  <2> QED BY <2>1 DEF Settling
<1>5. CASE HelperIdentity(h) /\ ~\E a : Answered(h, a)
  <2>1. /\ workerGone /\ helper[h].pc = "identity" /\ UNCHANGED record
        /\ Continue(h, IF helper[h].cmd = "cancel" THEN "list" ELSE "settle")
    BY <1>5 DEF HelperIdentity
  <2>2. proc[Leader] = "gone" /\ helper[h].cmd \in {"cancel", "verify"}
    BY <2>1 DEF workerGone, Held, Busy
  <2>3. CASE helper[h].cmd = "cancel"
    <3>1. helper'[h].pc = "list" /\ helper'[h].cmd = "cancel"
      BY <2>1, <2>3, ContinueStep DEF GoesOn
    <3> QED BY <1>0, <2>2, <3>1 DEF Settling
  <2>4. CASE helper[h].cmd = "verify"
    <3>1. helper'[h].pc = "settle" /\ helper'[h].cmd = "verify"
      BY <2>1, <2>4, ContinueStep DEF GoesOn
    <3>2. record'.status # "closed" => Quiet
      BY <2>1, <2>4 DEF Settling
    <3> QED BY <1>0, <1>a, <2>2, <3>1, <3>2 DEF Settling
  <2> QED BY <2>2, <2>3, <2>4
<1>6. CASE HelperList(h)
  <2>1. /\ helper[h].pc = "list" /\ UNCHANGED record
        /\ helper' = [helper EXCEPT ![h] = [helper[h] EXCEPT !.pc = "stat",
                        !.listed = IF record.published THEN Present ELSE {}]]
    BY <1>6 DEF HelperList
  <2>2. /\ helper'[h].pc = "stat" /\ helper'[h].cmd = helper[h].cmd
        /\ record.published => helper'[h].listed = Present
    BY <2>1 DEF TypeOK
  <2>3. record.status # "closed" => record.published
    BY <2>1 DEF Held, Busy
  <2> QED BY <1>0, <2>1, <2>2, <2>3, PresentIsComplete DEF Settling, Running
<1>7. CASE HelperStat(h) /\ ~\E a : Answered(h, a)
  <2>1. helper[h].pc = "stat" /\ UNCHANGED record /\ ~groupLive(helper[h].listed)
    BY <1>7 DEF HelperStat
  <2>2. CASE record.status = "closed"
    BY <2>1, <2>2 DEF Settling
  <2>3. CASE record.status # "closed"
    <3>1. Quiet
      BY <2>1, <2>3, LookIsComplete, ReusedIsGone DEF Settling
    <3>2. helper[h].cmd \in {"cancel", "verify"}
      BY <2>1 DEF Held, Busy
    <3>3. helper' = [helper EXCEPT ![h] = [helper[h] EXCEPT !.listed = {},
              !.pc = IF helper[h].cmd = "verify" \/ helper[h].rounds > 1
                       THEN "identity" ELSE "settle",
              !.rounds = IF helper[h].rounds > 1 THEN 1 ELSE 0]]
      BY <1>7, <2>3 DEF HelperStat
    <3>4. /\ helper'[h].cmd = helper[h].cmd
          /\ helper'[h].pc \in {"identity", "settle"}
          /\ helper[h].cmd = "verify" => helper'[h].pc = "identity"
      BY <3>3 DEF TypeOK
    <3>5. helper[h].cmd = "cancel" => proc[Leader] = "gone"
      BY <2>1, <2>3 DEF Settling
    <3> QED BY <1>0, <1>a, <3>1, <3>2, <3>4, <3>5 DEF Settling
  <2> QED BY <2>2, <2>3
<1>8. CASE HelperSettle(h) \/ Prepare(h) \/ CancelUnstarted(h)
  <2>1. \E a : Answered(h, a)
    BY <1>8 DEF HelperSettle, Prepare, CancelUnstarted
  <2> QED BY <1>1, <2>1
<1>9. CASE Verify(h)
  <2>1. (\E a : Answered(h, a)) \/ Continue(h, "list")
    BY <1>9 DEF Verify
  <2> QED BY <1>1, <1>3, <1>9, <2>1
<1> QED BY <1>1, <1>2, <1>4, <1>5, <1>6, <1>7, <1>8, <1>9 DEF Helper

LEMMA ObservedStep ==
  ASSUME "outrun" \notin Hazards, TypeOK, OwnGroup, Held, Observed, [Next]_vars
  PROVE  Observed'
<1>1. CASE UNCHANGED vars
  BY <1>1 DEF vars, Observed, Watched, Settling, Quiet, Running
<1>2. CASE Shell \/ ShellSignalled \/ ShellTimesOut
  <2>1. /\ UNCHANGED <<record, lock, proc, foreign>>
        /\ UNCHANGED runner \/ runner'.pc = "inflight"
        /\ \A h \in Helpers : helper'[h] = helper[h] \/ helper'[h].pc \notin Busy
    BY <1>2, ShellStep
  <2>2. Stays /\ Ebbs
    BY <2>1 DEF Stays, Ebbs, Running
  <2>3. \A h \in Helpers : Settling(h)'
    BY <2>1, <2>2, StillSettling, IdleSettles DEF Observed
  <2>4. Watched'
    BY <2>1 DEF Observed, Watched, Quiet, Running
  <2> QED BY <2>3, <2>4 DEF Observed
<1>3. CASE \E h \in Helpers : Helper(h)
  <2>1. PICK h \in Helpers : Helper(h)
    BY <1>3
  <2>2. UNCHANGED <<proc, foreign, runner, shell>> /\ lock \in {"free", h}
    BY <2>1, HelperLock
  <2>3. \A o \in Helpers \ {h} : helper[o].pc \notin Busy /\ helper'[o] = helper[o]
    BY <2>1, <2>2, HelperAlone, HelperOthers
  <2>4. \A o \in Helpers : Settling(o)'
    BY <2>1, <2>3, SettlingHelper, IdleSettles DEF Observed
  <2>5. Watched'
    BY <2>2 DEF Observed, Watched, Quiet, Running
  <2> QED BY <2>4, <2>5 DEF Observed
<1>4. CASE Runner \/ RunLaunchFails \/ RunInterrupted \/ DrainEscalates
             \/ DrainGivesUp \/ RunnerKilled
  <2>1. Watched' /\ Stays /\ (Ebbs \/ RunLaunch) /\ Held' /\ UNCHANGED helper
    BY <1>4, WatchedRunner, RunnerEbbs, HeldRunner DEF Observed
  <2>2. \A h \in Helpers : Settling(h)'
    <3> SUFFICES ASSUME NEW h \in Helpers PROVE Settling(h)'
      OBVIOUS
    <3>1. CASE helper[h].pc \notin Busy
      BY <2>1, <3>1, IdleSettles
    <3>2. CASE helper[h].pc \in Busy
      <4>1. lock = h /\ lock # "free" /\ lock # "runner" /\ runner.pc # "started"
        BY <3>2, HelperShape DEF Held
      <4>2. UNCHANGED record
        BY <1>4, <4>1
           DEF Runner, RunLaunch, RunPublish, RunPoll, DrainList, Drained,
               DrainLooksAgain, SignalGroup, Reap, RunFinish, RunLaunchFails,
               RunInterrupted, DrainEscalates, DrainGivesUp, RunnerKilled
      <4>3. Ebbs
        BY <2>1, <4>1 DEF RunLaunch
      <4> QED BY <2>1, <4>2, <4>3, StillSettling DEF Observed
    <3> QED BY <3>1, <3>2
  <2> QED BY <2>1, <2>2 DEF Observed
<1>5. CASE Fork \/ Exit \/ Die \/ InitReaps \/ ForeignTakesPid \/ ForeignExits
  <2>1. /\ UNCHANGED <<record, lock, runner, helper, shell>>
        /\ Stays /\ (Ebbs \/ (~Looking /\ ~Quiet))
    BY <1>5, KernelEbbs
  <2>2. \A h \in Helpers : Settling(h)'
    BY <2>1, StillSettling DEF Observed
  <2>3. Watched'
    BY <2>1 DEF Observed, Watched, Ebbs, Looking, Quiet
  <2> QED BY <2>2, <2>3 DEF Observed
<1> QED BY <1>1, <1>2, <1>3, <1>4, <1>5 DEF Next

THEOREM ObservedInvariant ==
  ASSUME "outrun" \notin Hazards
  PROVE  Spec => []Observed
<1>1. Init => Observed
  BY DEF Init, Observed, Watched, Settling, NoHelper
<1>2. TypeOK /\ OwnGroup /\ Held /\ Observed /\ [Next]_vars => Observed'
  BY ObservedStep
<1> QED BY <1>1, <1>2, TypeCorrect, OwnGroupInvariant, HeldInvariant, PTL DEF Spec

(* As long as no process forks between the listing of /proc and the        *)
(* reading of the listed stat files, the runner reaps its worker only when *)
(* the whole group has exited (drainAndReap).                              *)
THEOREM ReapsDrained ==
  ASSUME "outrun" \notin Hazards
  PROVE  Spec => ReapedAfterDrain
<1>1. Observed /\ [Next]_vars
        => [Reap => \A m \in Children : proc[m] \notin {"live", "dying"}]_vars
  BY MembersFacts DEF Observed, Watched, Reap, Quiet, Running
<1> QED BY <1>1, ObservedInvariant, PTL DEF Spec, ReapedAfterDrain

(* Under the same condition a cancel or a verify settles an operation only *)
(* when all its processes are gone, whatever the runner, the other helpers *)
(* and a process with the worker's old PID do (verifyOrCancel).            *)
THEOREM SettlesWhenGone ==
  ASSUME "outrun" \notin Hazards
  PROVE  Spec => SettledWhenGone
<1>1. Observed /\ [Next]_vars
        => [\A h \in Helpers : HelperSettle(h) /\ record.status # "closed" =>
              proc[Leader] = "gone"
                /\ \A m \in Children : proc[m] \notin {"live", "dying"}]_vars
  BY MembersFacts DEF Observed, Settling, HelperSettle, Quiet, Running
<1> QED BY <1>1, ObservedInvariant, PTL DEF Spec, SettledWhenGone

-----------------------------------------------------------------------------
(* The end of an operation: what the shell may conclude from a verify.     *)

Stray == \E m \in Members : proc[m] = "live"

(* A worker is started only from a reservation, which is kept until its    *)
(* identity is published.                                                  *)
Reserved == runner.pc = "started" => record.status = "prepared"

(* Whatever may still act for itself is named by a record, or by the       *)
(* runner that is about to name it.                                        *)
Accounted ==
  /\ runner.pc = "finish" => Quiet
  /\ Stray => record.status \in {"running", "cancelling"} \/ runner.pc = "started"

(* The shell waits for the command of the step it is at, and no prepare is *)
(* pending but its own, or one that it gave up together with the run.      *)
Asked ==
  /\ shell.on # "none" =>
       /\ shell.pc \in {"prepare", "cancel", "verify"}
       /\ helper[shell.on].cmd = shell.pc /\ helper[shell.on].pc # "idle"
  /\ \A h \in Helpers : helper[h].cmd = "prepare" /\ helper[h].pc = "sent" =>
       shell.pc = "gaveUp" \/ (shell.pc = "prepare" /\ shell.on = h)

(* The shell has been told, or will be, that the operation is over.        *)
Verified ==
  \/ shell.pc = "returned"
  \/ /\ shell.pc = "verify" /\ shell.on # "none"
     /\ helper[shell.on].pc = "answered" /\ helper[shell.on].answer = "ok"

Over == Verified => record = Absent

LEMMA QuietHasNoStray == Quiet => ~Stray
BY DEF Quiet, Running, Stray

(* Only a verify that found no record, or removed it, says ok as verify.   *)
LEMMA HelperAnswers ==
  ASSUME TypeOK, NEW h \in Helpers, Helper(h)
  PROVE  /\ helper[h].pc \notin {"idle", "answered"} /\ helper'[h].pc # "sent"
         /\ shell.on = h => helper'[h].cmd = helper[h].cmd /\ helper'[h].pc # "idle"
         /\ helper'[h].pc = "answered" /\ helper'[h].answer = "ok"
              /\ helper[h].cmd = "verify" => record' = Absent
<1>a. \A a : Answered(h, a) =>
        /\ helper'[h].pc \in {"answered", "idle"}
        /\ shell.on = h => helper'[h].cmd = helper[h].cmd /\ helper'[h].pc = "answered"
        /\ helper'[h].pc = "answered" => helper'[h].answer = a
  <2> SUFFICES ASSUME NEW a, Answered(h, a)
               PROVE  /\ helper'[h].pc \in {"answered", "idle"}
                      /\ shell.on = h => /\ helper'[h].cmd = helper[h].cmd
                                         /\ helper'[h].pc = "answered"
                      /\ helper'[h].pc = "answered" => helper'[h].answer = a
    OBVIOUS
  <2> DEFINE heard == [NoHelper EXCEPT !.cmd = helper[h].cmd,
                                       !.pc = "answered", !.answer = a]
  <2>1. /\ heard.pc = "answered" /\ heard.cmd = helper[h].cmd /\ heard.answer = a
        /\ NoHelper.pc = "idle"
    BY DEF NoHelper
  <2>2. helper' = [helper EXCEPT ![h] = IF shell.on = h THEN heard ELSE NoHelper]
    BY DEF Answered
  <2> HIDE DEF heard
  <2>3. helper'[h] = (IF shell.on = h THEN heard ELSE NoHelper)
    BY <2>2 DEF TypeOK
  <2> QED BY <2>1, <2>3
<1>b. \A pc : Continue(h, pc) => helper'[h].pc = pc /\ helper'[h].cmd = helper[h].cmd
  BY ContinueStep DEF GoesOn
<1>1. CASE Prepare(h)
  BY <1>1, <1>a DEF Prepare, Begins
<1>2. CASE CancelUnstarted(h)
  BY <1>2, <1>a DEF CancelUnstarted, Begins
<1>3. CASE CancelClosed(h)
  BY <1>3, <1>b DEF CancelClosed, Begins
<1>4. CASE CancelStarted(h)
  <2>1. CASE Answered(h, "ok")
    BY <1>4, <2>1, <1>a DEF CancelStarted, Begins
  <2>2. CASE ~Answered(h, "ok")
    <3>1. /\ helper' = [helper EXCEPT ![h] = [helper[h] EXCEPT !.pc = "identity", !.rounds = 2]]
          /\ helper[h].pc = "sent"
      BY <1>4, <2>2 DEF CancelStarted, Begins
    <3>2. helper'[h].pc = "identity" /\ helper'[h].cmd = helper[h].cmd
      BY <3>1 DEF TypeOK
    <3> QED BY <3>1, <3>2
  <2> QED BY <2>1, <2>2
<1>5. CASE Verify(h)
  <2>1. /\ helper[h].pc = "sent" /\ UNCHANGED record
        /\ \/ record = Absent /\ Answered(h, "ok")
           \/ Answered(h, "open") \/ Continue(h, "list")
    BY <1>5 DEF Verify, Begins
  <2> QED BY <2>1, <1>a, <1>b
<1>6. CASE HelperIdentity(h)
  <2>1. /\ helper[h].pc = "identity"
        /\ Answered(h, "open") \/ Continue(h, "list") \/ Continue(h, "settle")
    BY <1>6 DEF HelperIdentity
  <2> QED BY <2>1, <1>a, <1>b
<1>7. CASE HelperList(h)
  <2>1. /\ helper[h].pc = "list"
        /\ \E l : helper' = [helper EXCEPT ![h] = [helper[h] EXCEPT !.pc = "stat", !.listed = l]]
    BY <1>7 DEF HelperList
  <2>2. helper'[h].pc = "stat" /\ helper'[h].cmd = helper[h].cmd
    BY <2>1 DEF TypeOK
  <2> QED BY <2>1, <2>2
<1>8. CASE HelperStat(h)
  <2>0. helper[h].pc = "stat"
    BY <1>8 DEF HelperStat
  <2>1. CASE Answered(h, "open") \/ Continue(h, "settle")
    BY <2>0, <2>1, <1>a, <1>b
  <2>2. CASE Answered(h, "ok") /\ helper[h].cmd = "cancel"
    BY <2>0, <2>2, <1>a
  <2>3. CASE ~(Answered(h, "open") \/ Answered(h, "ok") \/ Continue(h, "settle"))
    <3>1. PICK pc \in {"identity", "settle"}, n \in {0, 1} :
            helper' = [helper EXCEPT ![h] =
                         [helper[h] EXCEPT !.listed = {}, !.pc = pc, !.rounds = n]]
      BY <1>8, <2>3, StatLooks
    <3>2. helper'[h].pc = pc /\ helper'[h].cmd = helper[h].cmd
      BY <3>1 DEF TypeOK
    <3> QED BY <2>0, <3>2
  <2>4. Answered(h, "ok") => helper[h].cmd = "cancel" \/ Answered(h, "open")
                               \/ Continue(h, "settle") \/ helper'[h].pc \in {"identity", "settle"}
    <3>1. CASE groupLive(helper[h].listed) \/ record.status = "closed"
      BY <1>8, <3>1 DEF HelperStat
    <3>2. CASE ~groupLive(helper[h].listed) /\ record.status # "closed"
      <4>1. helper'[h].pc = IF helper[h].cmd = "verify" \/ helper[h].rounds > 1
                              THEN "identity" ELSE "settle"
        BY <1>8, <3>2 DEF HelperStat, TypeOK
      <4> QED BY <4>1
    <3> QED BY <3>1, <3>2
  <2> QED BY <2>1, <2>2, <2>3, <2>4, <1>a
<1>9. CASE HelperSettle(h)
  BY <1>9, <1>a DEF HelperSettle
<1> QED BY <1>1, <1>2, <1>3, <1>4, <1>5, <1>6, <1>7, <1>8, <1>9 DEF Helper

LEMMA ReservedInvariant == Spec => []Reserved
<1>1. Init => Reserved
  BY DEF Init, Reserved
<1>2. TypeOK /\ OwnGroup /\ Held /\ Reserved /\ [Next]_vars => Reserved'
  <2> SUFFICES ASSUME TypeOK, OwnGroup, Held, Reserved, [Next]_vars PROVE Reserved'
    OBVIOUS
  <2>1. CASE UNCHANGED vars
    BY <2>1 DEF vars, Reserved
  <2>2. CASE Shell \/ ShellSignalled \/ ShellTimesOut
    BY <2>2, ShellStep DEF Reserved
  <2>3. CASE \E h \in Helpers : Helper(h)
    BY <2>3, HelperLock, HelperAlone DEF Reserved
  <2>4. CASE RunLaunch
    <3>1. UNCHANGED record /\ (runner'.pc = "started" => record.status = "prepared")
      BY <2>4 DEF RunLaunch, TypeOK
    <3> QED BY <3>1 DEF Reserved
  <2>5. CASE (Runner /\ ~RunLaunch) \/ RunLaunchFails \/ RunInterrupted
               \/ DrainEscalates \/ DrainGivesUp \/ RunnerKilled
    <3>1. runner'.pc # "started"
      BY <2>5 DEF TypeOK, Runner, RunPublish, RunPoll, DrainList, Drained,
                  DrainLooksAgain, SignalGroup, Reap, RunFinish, RunLaunchFails,
                  RunInterrupted, DrainEscalates, DrainGivesUp, RunnerKilled, Drain
    <3> QED BY <3>1 DEF Reserved
  <2>6. CASE Fork \/ Exit \/ Die \/ InitReaps \/ ForeignTakesPid \/ ForeignExits
    BY <2>6 DEF Reserved, Fork, Exit, Die, InitReaps, ForeignTakesPid, ForeignExits
  <2> QED BY <2>1, <2>2, <2>3, <2>4, <2>5, <2>6 DEF Next
<1> QED BY <1>1, <1>2, TypeCorrect, OwnGroupInvariant, HeldInvariant, PTL DEF Spec

(* The shell: only its own command is new, and it is what it waits for.    *)
LEMMA SendAsks ==
  ASSUME TypeOK, Asked, shell.on = "none", shell.pc # "gaveUp",
         NEW pc \in {"prepare", "cancel", "verify"}, Send(pc, pc)
  PROVE  Asked' /\ shell'.pc = pc /\ shell'.on # "none"
           /\ helper'[shell'.on].pc = "sent"
<1>1. PICK h \in Helpers :
        /\ helper' = [helper EXCEPT ![h] = [NoHelper EXCEPT !.cmd = pc, !.pc = "sent"]]
        /\ shell' = [shell EXCEPT !.pc = pc, !.on = h]
  BY DEF Send
<1> DEFINE sent == [NoHelper EXCEPT !.cmd = pc, !.pc = "sent"]
<1>2. sent.cmd = pc /\ sent.pc = "sent"
  BY DEF NoHelper
<1>3. helper' = [helper EXCEPT ![h] = sent]
  BY <1>1
<1> HIDE DEF sent
<1>4. helper'[h] = sent /\ \A o \in Helpers \ {h} : helper'[o] = helper[o]
  BY <1>3 DEF TypeOK
<1>5. shell'.pc = pc /\ shell'.on = h
  BY <1>1 DEF TypeOK
<1>6. h # "none"
  BY HelperShape
<1>7. \A o \in Helpers : ~(helper[o].cmd = "prepare" /\ helper[o].pc = "sent")
  BY HelperShape DEF Asked
<1> QED BY <1>2, <1>4, <1>5, <1>6, <1>7 DEF Asked

LEMMA HearAsks ==
  ASSUME TypeOK, Asked, NEW answers, Hear(answers),
         NEW pc \in {"run", "cancel", "verify", "returned", "gaveUp"}, ShellGoes(pc)
  PROVE  Asked'
<1>1. /\ shell.on \in Helpers /\ helper[shell.on].pc = "answered"
      /\ helper'[shell.on] = NoHelper
      /\ \A o \in Helpers \ {shell.on} : helper'[o] = helper[o]
  BY DEF Hear, TypeOK
<1>2. shell'.pc = pc /\ shell'.on = "none"
  BY DEF ShellGoes, TypeOK
<1>3. NoHelper.pc = "idle"
  BY DEF NoHelper
<1>4. shell.on # "none" /\ shell.pc # "gaveUp"
  BY DEF Hear, Asked
<1>5. \A o \in Helpers : ~(helper[o].cmd = "prepare" /\ helper[o].pc = "sent")
  BY <1>1, <1>4 DEF Asked
<1>6. \A o \in Helpers : ~(helper'[o].cmd = "prepare" /\ helper'[o].pc = "sent")
  BY <1>1, <1>3, <1>5
<1> QED BY <1>2, <1>6 DEF Asked

LEMMA ShellAsks ==
  ASSUME TypeOK, Asked, Shell \/ ShellSignalled \/ ShellTimesOut
  PROVE  Asked'
<1>1. CASE ShellPrepare
  BY <1>1, SendAsks DEF ShellPrepare, Asked
<1>2. CASE ShellPrepareFails
  BY <1>2, HearAsks DEF ShellPrepareFails
<1>3. CASE ShellPrepared
  BY <1>3, HearAsks DEF ShellPrepared
<1>4. CASE ShellRunReturns \/ ShellSignalled
  <2>1. UNCHANGED helper /\ shell'.pc \in {"verify", "cancel"} /\ shell'.on = "none"
        /\ shell.pc = "run"
    BY <1>4 DEF ShellRunReturns, ShellSignalled, ShellGoes, TypeOK
  <2> QED BY <2>1 DEF Asked
<1>5. CASE ShellSends
  BY <1>5, SendAsks DEF ShellSends
<1>6. CASE ShellHearsCancel
  BY <1>6, HearAsks DEF ShellHearsCancel
<1>7. CASE ShellHearsVerify
  BY <1>7, HearAsks DEF ShellHearsVerify
<1>8. CASE ShellTimesOut
  <2>1. /\ UNCHANGED helper /\ shell'.on = "none"
        /\ shell.pc = "prepare" => shell'.pc = "gaveUp"
        /\ shell.pc # "gaveUp"
    BY <1>8 DEF ShellTimesOut, Asked
  <2> QED BY <2>1 DEF Asked
<1> QED BY <1>1, <1>2, <1>3, <1>4, <1>5, <1>6, <1>7, <1>8 DEF Shell

LEMMA AskedStep ==
  ASSUME TypeOK, Held, Asked, [Next]_vars
  PROVE  Asked'
<1>1. CASE UNCHANGED vars
  BY <1>1 DEF vars, Asked
<1>2. CASE Shell \/ ShellSignalled \/ ShellTimesOut
  BY <1>2, ShellAsks
<1>3. CASE \E h \in Helpers : Helper(h)
  <2>1. PICK h \in Helpers : Helper(h)
    BY <1>3
  <2>2. UNCHANGED shell /\ \A o \in Helpers \ {h} : helper'[o] = helper[o]
    BY <2>1, HelperLock, HelperOthers
  <2>3. /\ helper'[h].pc # "sent"
        /\ shell.on = h => helper'[h].cmd = helper[h].cmd /\ helper'[h].pc # "idle"
    BY <2>1, HelperAnswers
  <2>4. shell.on # "none" => shell.on \in Helpers
    BY DEF TypeOK
  <2> QED BY <2>2, <2>3, <2>4 DEF Asked
<1>4. CASE Runner \/ RunLaunchFails \/ RunInterrupted \/ DrainEscalates
             \/ DrainGivesUp \/ RunnerKilled
  <2>1. UNCHANGED helper
    BY <1>4, HeldRunner
  <2>2. UNCHANGED shell
    BY <1>4 DEF Runner, RunLaunch, RunPublish, RunPoll, DrainList, Drained,
                DrainLooksAgain, SignalGroup, Reap, RunFinish, RunLaunchFails,
                RunInterrupted, DrainEscalates, DrainGivesUp, RunnerKilled
  <2> QED BY <2>1, <2>2 DEF Asked
<1>5. CASE Fork \/ Exit \/ Die \/ InitReaps \/ ForeignTakesPid \/ ForeignExits
  <2>1. UNCHANGED <<helper, shell>>
    BY <1>5 DEF Fork, Exit, Die, InitReaps, ForeignTakesPid, ForeignExits
  <2> QED BY <2>1 DEF Asked
<1> QED BY <1>1, <1>2, <1>3, <1>4, <1>5 DEF Next

LEMMA AskedInvariant == Spec => []Asked
<1>1. Init => Asked
  BY DEF Init, Asked, NoHelper
<1>2. TypeOK /\ Held /\ Asked /\ [Next]_vars => Asked'
  BY AskedStep
<1> QED BY <1>1, <1>2, TypeCorrect, HeldInvariant, PTL DEF Spec

(* Once verify has said so the record stays away: no prepare is pending,   *)
(* and the runner publishes only what it started from a reservation.       *)
LEMMA AbsentStays ==
  ASSUME TypeOK, Held, Reserved, Asked, shell.pc \in {"verify", "returned"},
         record = Absent,
         \/ \E h \in Helpers : Helper(h)
         \/ Runner \/ RunLaunchFails \/ RunInterrupted \/ DrainEscalates
              \/ DrainGivesUp \/ RunnerKilled
  PROVE  record' = Absent
<1>1. record.status = "absent"
  BY DEF Absent
<1>2. CASE \E h \in Helpers : Helper(h)
  <2>1. PICK h \in Helpers : Helper(h)
    BY <1>2
  <2>2. ~Prepare(h)
    BY DEF Asked, Prepare, Begins
  <2>3. ~CancelStarted(h) /\ ~HelperSettle(h)
    BY <1>1 DEF CancelStarted, HelperSettle, Held, Busy
  <2> QED BY <2>1, <2>2, <2>3
          DEF Helper, CancelUnstarted, CancelClosed, Verify, HelperIdentity, HelperList,
              HelperStat
<1>3. CASE Runner \/ RunLaunchFails \/ RunInterrupted \/ DrainEscalates
             \/ DrainGivesUp \/ RunnerKilled
  <2>1. ~RunPublish
    BY <1>1 DEF RunPublish, Reserved
  <2> QED BY <1>1, <1>3, <2>1
          DEF Runner, RunLaunch, RunPoll, DrainList, Drained, DrainLooksAgain, SignalGroup,
              Reap, RunFinish, RunLaunchFails, RunInterrupted, DrainEscalates,
              DrainGivesUp, RunnerKilled
<1> QED BY <1>2, <1>3

LEMMA OverShell ==
  ASSUME TypeOK, OwnGroup, Asked, Over, Shell \/ ShellSignalled \/ ShellTimesOut
  PROVE  Over'
<1>1. UNCHANGED record
  BY ShellStep
<1>2. \A pc : ShellGoes(pc) => shell'.pc = pc /\ shell'.on = "none"
  BY DEF ShellGoes, TypeOK
<1>3. CASE ShellHearsVerify
  <2>1. CASE Hear({"ok"}) /\ ShellGoes("returned")
    <3>1. Verified
      BY <1>3, <2>1 DEF ShellHearsVerify, Hear, Verified
    <3> QED BY <1>1, <3>1 DEF Over, Absent
  <2>2. CASE ShellGoes("cancel")
    BY <1>2, <2>2 DEF Over, Verified
  <2> QED BY <1>3, <2>1, <2>2 DEF ShellHearsVerify
<1>4. CASE ShellPrepare \/ ShellSends
  <2>1. /\ shell.on = "none" /\ shell.pc # "gaveUp"
        /\ \E pc \in {"prepare", "cancel", "verify"} : Send(pc, pc)
    BY <1>4 DEF ShellPrepare, ShellSends, Asked
  <2>2. /\ shell'.pc \in {"prepare", "cancel", "verify"}
        /\ shell'.on # "none" /\ helper'[shell'.on].pc = "sent"
    BY <2>1, SendAsks
  <2> QED BY <2>2 DEF Over, Verified
<1>5. CASE ShellTimesOut
  BY <1>5 DEF ShellTimesOut, Over, Verified
<1>6. CASE ShellPrepareFails \/ ShellPrepared \/ ShellRunReturns \/ ShellSignalled
             \/ ShellHearsCancel
  <2>1. shell'.pc \in {"gaveUp", "cancel", "run", "verify"} /\ shell'.on = "none"
    BY <1>2, <1>6 DEF ShellPrepareFails, ShellPrepared, ShellRunReturns, ShellSignalled,
                      ShellHearsCancel
  <2> QED BY <2>1 DEF Over, Verified
<1> QED BY <1>3, <1>4, <1>5, <1>6 DEF Shell

LEMMA OverStep ==
  ASSUME TypeOK, OwnGroup, Held, Reserved, Asked, Over, [Next]_vars
  PROVE  Over'
<1>1. CASE UNCHANGED vars
  BY <1>1 DEF vars, Over, Verified, Absent
<1>2. CASE Shell \/ ShellSignalled \/ ShellTimesOut
  BY <1>2, OverShell
<1>3. CASE \E h \in Helpers : Helper(h)
  <2> SUFFICES ASSUME Verified' PROVE record' = Absent
    BY DEF Over, Absent
  <2>1. PICK h \in Helpers : Helper(h)
    BY <1>3
  <2>2. UNCHANGED shell /\ \A o \in Helpers \ {h} : helper'[o] = helper[o]
    BY <2>1, HelperLock, HelperOthers
  <2>3. shell.pc \in {"verify", "returned"}
    BY <2>2 DEF Verified
  <2>4. CASE Verified
    BY <1>3, <2>3, <2>4, AbsentStays DEF Over
  <2>5. CASE ~Verified
    <3>1. /\ shell.pc = "verify" /\ shell.on \in Helpers
          /\ helper'[shell.on].pc = "answered" /\ helper'[shell.on].answer = "ok"
      BY <2>2, <2>5 DEF Verified, TypeOK
    <3>2. shell.on = h
      BY <2>2, <2>5, <3>1, HelperShape DEF Verified
    <3>3. helper[h].cmd = "verify"
      BY <3>1, <3>2, HelperShape DEF Asked
    <3> QED BY <2>1, <3>1, <3>2, <3>3, HelperAnswers
  <2> QED BY <2>4, <2>5
<1>4. CASE Runner \/ RunLaunchFails \/ RunInterrupted \/ DrainEscalates
             \/ DrainGivesUp \/ RunnerKilled
  <2>1. UNCHANGED helper
    BY <1>4, HeldRunner
  <2>2. UNCHANGED shell
    BY <1>4 DEF Runner, RunLaunch, RunPublish, RunPoll, DrainList, Drained,
                DrainLooksAgain, SignalGroup, Reap, RunFinish, RunLaunchFails,
                RunInterrupted, DrainEscalates, DrainGivesUp, RunnerKilled
  <2> SUFFICES ASSUME Verified PROVE record' = Absent
    BY <2>1, <2>2 DEF Over, Verified, Absent
  <2> QED BY <1>4, AbsentStays DEF Over, Verified
<1>5. CASE Fork \/ Exit \/ Die \/ InitReaps \/ ForeignTakesPid \/ ForeignExits
  <2>1. UNCHANGED <<record, helper, shell>>
    BY <1>5 DEF Fork, Exit, Die, InitReaps, ForeignTakesPid, ForeignExits
  <2> QED BY <2>1 DEF Over, Verified, Absent
<1> QED BY <1>1, <1>2, <1>3, <1>4, <1>5 DEF Next

(* When the shell returns the record is gone for good, whatever is killed,  *)
(* outrun or given up: verify says ok only of no record, and neither a     *)
(* late prepare nor the runner writes another (cancel_and_verify).         *)
THEOREM RecordIsGone == Spec => [](shell.pc = "returned" => record = Absent)
<1>1. Init => Over
  BY DEF Init, Over, Verified
<1>2. TypeOK /\ OwnGroup /\ Held /\ Reserved /\ Asked /\ Over /\ [Next]_vars => Over'
  BY OverStep
<1>3. Over => (shell.pc = "returned" => record = Absent)
  BY DEF Over, Verified
<1> QED BY <1>1, <1>2, <1>3, TypeCorrect, OwnGroupInvariant, HeldInvariant,
           ReservedInvariant, AskedInvariant, PTL DEF Spec

(* Nothing starts to act for itself but by a launch.                       *)
LEMMA StrayRunner ==
  ASSUME TypeOK, OwnGroup,
         Runner \/ RunLaunchFails \/ RunInterrupted \/ DrainEscalates
           \/ DrainGivesUp \/ RunnerKilled
  PROVE  /\ Stray' => Stray \/ RunLaunch
         /\ RunLaunchFails => ~Stray'
<1>0. Leader \in Members /\ proc \in [Members -> ProcState]
  BY MembersFacts DEF TypeOK
<1>a. \A m \in Members : Doomed[m] # "live"
  BY DEF Doomed
<1>b. Doomed \in [Members -> ProcState]
  BY <1>0 DEF Doomed, ProcState
<1>1. CASE RunLaunch
  BY <1>0, <1>1, <1>a, <1>b DEF RunLaunch, RunLaunchFails, Stray
<1>2. CASE RunLaunchFails
  <2>1. \A m \in Members : proc'[m] # "live"
    BY <1>0, <1>2, <1>a, <1>b DEF RunLaunchFails
  <2> QED BY <2>1 DEF Stray
<1>3. CASE SignalGroup
  <2>1. proc' = Doomed \/ proc' = proc
    BY <1>3 DEF SignalGroup
  <2> QED BY <1>3, <2>1, <1>a DEF Stray, SignalGroup, RunLaunchFails
<1>4. CASE Reap
  BY <1>0, <1>4 DEF Reap, Stray, RunLaunchFails
<1>5. CASE RunPublish \/ RunPoll \/ DrainList \/ Drained \/ DrainLooksAgain
           \/ RunFinish \/ RunInterrupted \/ DrainEscalates \/ DrainGivesUp \/ RunnerKilled
  <2>1. CASE RunLaunchFails
    BY <1>2, <2>1
  <2>2. CASE ~RunLaunchFails
    <3>1. UNCHANGED proc
      BY <1>5 DEF RunPublish, RunPoll, DrainList, Drained, DrainLooksAgain, RunFinish,
                  RunInterrupted, DrainEscalates, DrainGivesUp, RunnerKilled
    <3> QED BY <2>2, <3>1 DEF Stray
  <2> QED BY <2>1, <2>2
<1> QED BY <1>1, <1>2, <1>3, <1>4, <1>5 DEF Runner

LEMMA StrayKernel ==
  ASSUME TypeOK,
         Fork \/ Exit \/ Die \/ InitReaps \/ ForeignTakesPid \/ ForeignExits
  PROVE  (Stray' => Stray) /\ (Quiet => Quiet')
<1>0. Leader \in Members /\ proc \in [Members -> ProcState]
  BY MembersFacts DEF TypeOK
<1>1. CASE Fork
  BY <1>1 DEF Fork, Stray, Quiet, Running
<1>2. CASE Exit \/ Die
  <2>1. PICK m \in Members : Exited(m)
    BY <1>2 DEF Exit, Die
  <2>2. \A o \in Members : proc'[o] = proc[o] \/ proc'[o] \in {"zombie", "gone"}
    BY <1>0, <2>1 DEF Exited
  <2> QED BY <2>2 DEF Stray, Quiet, Running
<1>3. CASE InitReaps
  BY <1>0, <1>3 DEF InitReaps, Stray, Quiet, Running
<1>4. CASE ForeignTakesPid \/ ForeignExits
  BY <1>4 DEF ForeignTakesPid, ForeignExits, Stray, Quiet, Running
<1> QED BY <1>1, <1>2, <1>3, <1>4

(* A helper leaves a record that names no process only when none is left.  *)
LEMMA AccountedHelper ==
  ASSUME TypeOK, Held, Observed, Accounted, NEW h \in Helpers, Helper(h)
  PROVE  Accounted'
<1>1. /\ UNCHANGED <<proc, runner>> /\ runner.pc # "started"
  BY HelperLock, HelperAlone
<1>2. SUFFICES Stray => record'.status \in {"running", "cancelling"}
  BY <1>1, <1>2 DEF Accounted, Stray, Quiet, Running
<1>3. CASE UNCHANGED record
  BY <1>1, <1>3 DEF Accounted
<1>4. CASE Prepare(h) \/ CancelUnstarted(h)
  <2>1. UNCHANGED record \/ record.status \notin {"running", "cancelling"}
    BY <1>4 DEF Prepare, CancelUnstarted, Absent
  <2> QED BY <1>1, <1>3, <2>1 DEF Accounted
<1>5. CASE CancelStarted(h)
  <2>1. record'.status = "cancelling"
    BY <1>5 DEF CancelStarted, TypeOK
  <2> QED BY <2>1
<1>6. CASE HelperSettle(h)
  <2>1. record.status # "closed" => Quiet
    BY <1>6 DEF HelperSettle, Observed, Settling
  <2>2. record.status = "closed" => ~Stray
    BY <1>1 DEF Accounted
  <2> QED BY <2>1, <2>2, QuietHasNoStray
<1> QED BY <1>3, <1>4, <1>5, <1>6
        DEF Helper, CancelClosed, Verify, HelperIdentity, HelperList, HelperStat

(* The runner names its worker before anything else can, and the record    *)
(* goes on naming it until the group is drained.                           *)
LEMMA AccountedRunner ==
  ASSUME "launchKill" \notin Hazards, TypeOK, OwnGroup, Held, Observed, Accounted,
         Runner \/ RunLaunchFails \/ RunInterrupted \/ DrainEscalates
           \/ DrainGivesUp \/ RunnerKilled
  PROVE  Accounted'
<1>a. (Stray' => Stray \/ RunLaunch) /\ (RunLaunchFails => ~Stray')
  BY StrayRunner
<1>1. CASE RunLaunch
  <2>1. CASE record.status = "prepared"
    <3>1. UNCHANGED record /\ runner'.pc = "started"
      BY <1>1, <2>1 DEF RunLaunch, TypeOK
    <3> QED BY <2>1, <3>1 DEF Accounted
  <2>2. CASE record.status # "prepared"
    <3>1. UNCHANGED <<record, proc>> /\ runner'.pc = "done" /\ runner.pc = "inflight"
      BY <1>1, <2>2 DEF RunLaunch, TypeOK
    <3> QED BY <3>1 DEF Accounted, Stray
  <2> QED BY <2>1, <2>2
<1>2. CASE RunPublish
  <2>1. record'.status = "running" /\ runner'.pc = "await"
    BY <1>2 DEF RunPublish, TypeOK
  <2> QED BY <2>1 DEF Accounted
<1>3. CASE RunLaunchFails
  <2>1. runner'.pc = "done"
    BY <1>3 DEF RunLaunchFails, TypeOK
  <2> QED BY <1>3, <1>a, <2>1 DEF Accounted
<1>4. CASE Reap
  <2>1. runner'.pc = "finish" /\ UNCHANGED record /\ Quiet /\ runner.pc = "reap"
    BY <1>4 DEF Reap, TypeOK, Observed, Watched
  <2>2. Quiet'
    BY <1>4, <2>1, MembersFacts DEF Reap, TypeOK, Quiet, Running
  <2> QED BY <2>1, <2>2, QuietHasNoStray, <1>a, <1>4 DEF Accounted, Stray, Quiet, Running
<1>5. CASE RunFinish
  <2>1. runner'.pc = "done" /\ Quiet /\ UNCHANGED proc
    BY <1>5 DEF RunFinish, TypeOK, Accounted
  <2> QED BY <2>1, QuietHasNoStray DEF Accounted, Stray
<1>6. CASE RunInterrupted
  <2>1. record'.status = "cancelling" /\ runner'.pc = "await"
    BY <1>6 DEF RunInterrupted, TypeOK
  <2> QED BY <2>1 DEF Accounted
<1>7. CASE RunnerKilled
  <2>1. UNCHANGED <<record, proc>> /\ runner'.pc = "killed" /\ runner.pc # "started"
    BY <1>7 DEF RunnerKilled, TypeOK
  <2> QED BY <2>1 DEF Accounted, Stray
<1>8. CASE RunPoll \/ DrainList \/ Drained \/ DrainLooksAgain \/ SignalGroup
           \/ DrainEscalates \/ DrainGivesUp
  <2>1. UNCHANGED record /\ runner.pc \in {"await", "list", "stat", "signal"}
    BY <1>8 DEF RunPoll, DrainList, Drained, DrainLooksAgain, SignalGroup,
                DrainEscalates, DrainGivesUp
  <2>2. runner'.pc \notin {"started", "finish"}
    BY <1>8 DEF RunPoll, DrainList, Drained, DrainLooksAgain, SignalGroup,
                DrainEscalates, DrainGivesUp, Drain, TypeOK
  <2>3. Stray' => Stray
    BY <1>a, <2>1 DEF RunLaunch
  <2> QED BY <2>1, <2>2, <2>3 DEF Accounted
<1> QED BY <1>1, <1>2, <1>3, <1>4, <1>5, <1>6, <1>7, <1>8 DEF Runner

LEMMA AccountedStep ==
  ASSUME "launchKill" \notin Hazards, TypeOK, OwnGroup, Held, Observed, Accounted,
         [Next]_vars
  PROVE  Accounted'
<1>1. CASE UNCHANGED vars
  BY <1>1 DEF vars, Accounted, Stray, Quiet, Running
<1>2. CASE Shell \/ ShellSignalled \/ ShellTimesOut
  <2>1. UNCHANGED <<record, proc>> /\ (UNCHANGED runner \/ runner'.pc = "inflight")
    BY <1>2, ShellStep
  <2>2. UNCHANGED runner \/ runner.pc = "idle"
    BY <1>2 DEF OwnGroup, Shell, ShellPrepare, ShellPrepareFails, ShellPrepared,
                ShellRunReturns, ShellSignalled, ShellSends, ShellHearsCancel,
                ShellHearsVerify, ShellTimesOut
  <2> QED BY <2>1, <2>2 DEF Accounted, Stray, Quiet, Running
<1>3. CASE \E h \in Helpers : Helper(h)
  BY <1>3, AccountedHelper
<1>4. CASE Runner \/ RunLaunchFails \/ RunInterrupted \/ DrainEscalates
             \/ DrainGivesUp \/ RunnerKilled
  BY <1>4, AccountedRunner
<1>5. CASE Fork \/ Exit \/ Die \/ InitReaps \/ ForeignTakesPid \/ ForeignExits
  <2>1. UNCHANGED <<record, runner>>
    BY <1>5 DEF Fork, Exit, Die, InitReaps, ForeignTakesPid, ForeignExits
  <2>2. (Stray' => Stray) /\ (Quiet => Quiet')
    BY <1>5, StrayKernel
  <2> QED BY <2>1, <2>2 DEF Accounted
<1> QED BY <1>1, <1>2, <1>3, <1>4, <1>5 DEF Next

(* If no process forks within a look at /proc, and the runner is not       *)
(* killed between the start of its worker and the publication of its       *)
(* identity, every process that may still act is named by an open record.  *)
THEOREM NothingStrays ==
  ASSUME "outrun" \notin Hazards, "launchKill" \notin Hazards
  PROVE  Spec => []Accounted
<1>1. Init => Accounted
  BY DEF Init, Accounted, Stray
<1>2. TypeOK /\ OwnGroup /\ Held /\ Observed /\ Accounted /\ [Next]_vars => Accounted'
  BY AccountedStep
<1> QED BY <1>1, <1>2, TypeCorrect, OwnGroupInvariant, HeldInvariant, ObservedInvariant,
           PTL DEF Spec

(* Under the hypotheses of NothingStrays the shell returns only from an    *)
(* operation that is over: no process of it acts any more, its record is   *)
(* gone, and no late command brings either back (cancel_and_verify).       *)
THEOREM ReturnsClosed ==
  ASSUME "outrun" \notin Hazards, "launchKill" \notin Hazards
  PROVE  Spec => []ReturnMeansClosed
<1>1. Accounted /\ Reserved /\ (shell.pc = "returned" => record = Absent)
        => ReturnMeansClosed
  BY DEF Accounted, Reserved, Stray, ReturnMeansClosed, Absent
<1> QED BY <1>1, NothingStrays, ReservedInvariant, RecordIsGone, PTL
==============================================================================
