---------------------------- MODULE TuiBridgeProofs ----------------------------
(***************************************************************************)
(* Theorems about TuiBridge, for any number of requests and of faults and  *)
(* for pipes of any size.                                                  *)
(***************************************************************************)
EXTENDS TuiBridge, SequenceTheorems, FiniteSetTheorems, TLAPS

-----------------------------------------------------------------------------
(* The invariants.                                                         *)

(* Past both gates; a request refused at one of them is not open.          *)
Admitted(r) ==
  \/ work[r].pc \in {"start", "run", "drain", "refresh", "observing"}
  \/ work[r].pc = "reply" /\ work[r].ctx = "open"

(* What an admitted request holds, and where its commands run.             *)
GateOf(r) ==
  /\ work[r].pc = "mutation" => mutates(r)
  /\ work[r].pc \in {"start", "run", "drain"} => kind[r] # "status"
  /\ work[r].pc \in {"refresh", "observing"} => observes(r)
  /\ mutates(r) /\ (work[r].pc = "operation" \/ Admitted(r)) => mutation = r
  /\ Admitted(r) => IF shared(r) THEN r \in operation.readers
                                 ELSE operation.writer = r
  /\ procs[r] \ {"helper"} # {} => work[r].pc \in {"run", "drain", "observing"}
  /\ work[r].pc = "drain" => ~helped(r)
  /\ "child" \in procs[r] => ~helped(r)
  /\ work[r].ok => work[r].pc \in {"refresh", "observing", "reply", "release"}
  /\ "helper" \in procs[r] => /\ helped(r) /\ ~work[r].ok
                              /\ work[r].pc \notin {"drain", "refresh", "observing"}

Gates ==
  /\ operation.writer # "none" => operation.readers = {}
  /\ \A r \in Requests : GateOf(r)

(* A request that looked at the system still sees what is true of it.      *)
Fresh ==
  \A r \in Requests :
    work[r].pc = "reply" /\ work[r].ctx = "open" /\ observes(r) => shown # "stale"

(* A request is read once, and answered last.                              *)
Asking(r) ==
  \E i \in DOMAIN requests : requests[i] = [op |-> "request", id |-> r]

AskedOnce ==
  \A i, j \in DOMAIN requests :
    requests[i].op = "request" /\ requests[j] = requests[i] => i = j

OnceOf(r) ==
  /\ Asking(r) => work[r].pc = "none" /\ outcome[r] # "new"
  /\ work[r].pc # "none" => outcome[r] # "new"
  /\ Answered(r) => /\ work[r].pc \in {"none", "release"}
                    /\ ~Asking(r) /\ outcome[r] # "new"

Once == AskedOnce /\ \A r \in Requests : OnceOf(r)

AnsweredLast ==
  \A i, j \in DOMAIN replies :
    replies[i].op = "final" /\ i < j => replies[j].id # replies[i].id

(* Nothing runs of a request that was answered as done.                    *)
Told(r) ==
  \E i \in DOMAIN replies :
    replies[i].op = "final" /\ replies[i].id = r /\ replies[i].ok

Done == \A r \in Requests : Told(r) => procs[r] = {}

TuiInv == TypeOK /\ Gates /\ Fresh /\ Once /\ AnsweredLast /\ Done

-----------------------------------------------------------------------------
(* Messages.                                                               *)

LEMMA MessageType ==
  ASSUME NEW op \in {"request", "cancel"}, NEW r \in Requests
  PROVE  [op |-> op, id |-> r] \in Message
BY DEF Message

LEMMA HeadMessage ==
  ASSUME TypeOK, requests # <<>>
  PROVE  /\ Head(requests) = requests[1] /\ 1 \in DOMAIN requests
         /\ Head(requests).op \in {"request", "cancel"}
         /\ Head(requests).id \in Requests
         /\ Head(requests) = [op |-> Head(requests).op, id |-> Head(requests).id]
<1>1. Head(requests) \in Message
  BY HeadTailProperties DEF TypeOK
<1>2. Head(requests) = requests[1] /\ 1 \in DOMAIN requests
  BY EmptySeq, LenProperties DEF TypeOK
<1> QED BY <1>1, <1>2 DEF Message

(* The cancels that the client leaves behind when it gives the bridge up.  *)
Cancels == {[op |-> "cancel", id |-> r] : r \in pending}

LEMMA CancelsSequence ==
  SetToSeq(Cancels) \in Seq(Cancels)
<1>1. IsFiniteSet(pending)
  BY BridgeShape, FS_Subset DEF pending
<1> DEFINE message == [r \in pending |-> [op |-> "cancel", id |-> r]]
<1>2. message \in Surjection(pending, Cancels)
  BY DEF Surjection, Cancels
<1> HIDE DEF message
<1>3. IsFiniteSet(Cancels)
  BY <1>1, <1>2, FS_Surjection
<1>4. Cardinality(Cancels) \in Nat
      /\ ExistsBijection(1 .. Cardinality(Cancels), Cancels)
  BY <1>3, FS_CardinalityType
<1>5. \E f \in [1 .. Cardinality(Cancels) -> Cancels] : IsInjective(f)
  BY <1>4 DEF ExistsBijection, Bijection, Injection, IsInjective
<1>6. SetToSeq(Cancels) \in [1 .. Cardinality(Cancels) -> Cancels]
  BY <1>5 DEF SetToSeq
<1> QED BY <1>4, <1>6, SeqDef
-----------------------------------------------------------------------------
(* Types.                                                                  *)

LEMMA StopType ==
  ASSUME TypeOK, NEW ids
  PROVE  stop(ids) \in [Requests -> Work]
BY DEF TypeOK, stop, Work, Context

LEMMA GotoType ==
  ASSUME TypeOK, NEW r \in Requests, NEW pc \in Pc, Goto(r, pc)
  PROVE  work' \in [Requests -> Work]
<1>1. work \in [Requests -> Work]
  BY DEF TypeOK
<1>2. [work[r] EXCEPT !.pc = pc] \in Work
  BY <1>1 DEF Work
<1> QED BY <1>1, <1>2 DEF Goto

LEMMA EmitType ==
  ASSUME TypeOK, NEW r \in Requests, NEW op \in {"progress", "final"}, Emit(op, r)
  PROVE  replies' \in Seq(Reply)
<1>1. [op |-> op, id |-> r, ok |-> work[r].ok] \in Reply
  BY DEF TypeOK, Reply, Work
<1> QED BY <1>1, AppendProperties DEF TypeOK, Emit

LEMMA FaultType ==
  ASSUME TypeOK, NEW h, Fault(h)
  PROVE  faults' \in 0 .. MaxFaults
BY BridgeShape DEF TypeOK, Fault

LEMMA ClientType ==
  ASSUME TypeOK,
         \/ Receive \/ Fail \/ Reconnect
         \/ \E r \in Requests : Request(r) \/ Cancel(r)
  PROVE  TypeOK'
<1>1. CASE Receive
  <2>1. replies' \in Seq(Reply)
    BY <1>1, HeadTailProperties DEF TypeOK, Receive
  <2>2. outcome' \in [Requests -> {"new", "pending", "resolved", "rejected"}]
    BY <1>1 DEF TypeOK, Receive
  <2> QED BY <1>1, <2>1, <2>2 DEF TypeOK, Receive, gates, host
<1>2. CASE Fail
  <2>1. requests' \in Seq(Message)
    <3>1. requests' = requests \o SetToSeq(Cancels)
      BY <1>2 DEF Fail, Cancels
    <3>2. Cancels \subseteq Message
      BY MessageType DEF Cancels, pending
    <3>3. SetToSeq(Cancels) \in Seq(Message)
      BY <3>2, CancelsSequence, SeqMonotonic
    <3> QED BY <3>1, <3>3, ConcatProperties DEF TypeOK
  <2>2. replies' \in Seq(Reply) /\ faults' \in 0 .. MaxFaults
    BY <1>2, EmptySeq, FaultType DEF TypeOK, Fail
  <2>3. outcome' \in [Requests -> {"new", "pending", "resolved", "rejected"}]
    BY <1>2 DEF TypeOK, Fail
  <2> QED BY <1>2, <2>1, <2>2, <2>3 DEF TypeOK, Fail, gates, host
<1>3. CASE Reconnect
  <2>1. requests' \in Seq(Message) /\ replies' \in Seq(Reply)
    BY <1>3, EmptySeq DEF Reconnect
  <2>2. reconnects' \in 0 .. MaxReconnects
    BY <1>3, BridgeShape DEF TypeOK, Reconnect
  <2> QED BY <1>3, <2>1, <2>2 DEF TypeOK, Reconnect, gates, Shown
<1>4. ASSUME NEW r \in Requests, Request(r) \/ Cancel(r)
      PROVE  TypeOK'
  <2>1. requests' \in Seq(Message)
    <3>1. PICK op \in {"request", "cancel"} :
            requests' = Append(requests, [op |-> op, id |-> r])
      BY <1>4 DEF Request, Cancel
    <3>2. [op |-> op, id |-> r] \in Message
      BY MessageType
    <3> QED BY <3>1, <3>2, AppendProperties DEF TypeOK
  <2>2. outcome' \in [Requests -> {"new", "pending", "resolved", "rejected"}]
    BY <1>4 DEF TypeOK, Request, Cancel, clientVars
  <2> QED BY <1>4, <2>1, <2>2 DEF TypeOK, Request, Cancel, clientVars, gates, host
<1> QED BY <1>1, <1>2, <1>3, <1>4

LEMMA ScannerType ==
  ASSUME TypeOK,
         Scan \/ Signalled \/ \E r \in Requests : Timeout(r)
  PROVE  TypeOK'
<1>1. CASE ScanRequest
  <2> DEFINE r == Head(requests).id
  <2>1. r \in Requests /\ requests' \in Seq(Message)
    BY <1>1, HeadMessage, HeadTailProperties DEF TypeOK, ScanRequest
  <2>2. CASE UNCHANGED <<faults, replies>>
    <3> DEFINE pc == IF mutates(r) THEN "mutation" ELSE "operation"
    <3>0. [Idle EXCEPT !.pc = pc] \in Work
      BY DEF Idle, Pc, Context, Work
    <3>1. work' \in [Requests -> Work]
      <4>1. work' = [work EXCEPT ![r] = [Idle EXCEPT !.pc = pc]] \/ UNCHANGED work
        BY <1>1 DEF ScanRequest
      <4> HIDE DEF pc
      <4> QED BY <3>0, <4>1 DEF TypeOK
    <3> QED BY <1>1, <2>1, <2>2, <3>1 DEF TypeOK, ScanRequest, gates, host
  <2>3. CASE Fault("busy") /\ Emit("final", r) /\ UNCHANGED work
    <3>1. replies' \in Seq(Reply) /\ faults' \in 0 .. MaxFaults
      BY <2>1, <2>3, EmitType, FaultType
    <3> QED BY <1>1, <2>1, <2>3, <3>1 DEF TypeOK, ScanRequest, gates, host
  <2> QED BY <1>1, <2>2, <2>3 DEF ScanRequest
<1>2. CASE ScanCancel
  <2>1. requests' \in Seq(Message)
    BY <1>2, HeadTailProperties DEF TypeOK, ScanCancel
  <2> QED BY <1>2, <2>1, StopType DEF TypeOK, ScanCancel, clientVars, gates, host
<1>3. CASE ScanEnd \/ Exit
  BY <1>3 DEF TypeOK, ScanEnd, Exit, clientVars, gates, host
<1>4. CASE Signalled \/ \E r \in Requests : Timeout(r)
  <2>1. faults' \in 0 .. MaxFaults
    BY <1>4, FaultType DEF Signalled, Timeout
  <2>2. work' \in [Requests -> Work]
    BY <1>4, StopType DEF Signalled, Timeout
  <2> QED BY <1>4, <2>1, <2>2 DEF TypeOK, Signalled, Timeout, gates, host
<1> QED BY <1>1, <1>2, <1>3, <1>4 DEF Scan

LEMMA WorkerType ==
  ASSUME TypeOK, NEW r \in Requests,
         Worker(r) \/ Progress(r) \/ Abandon(r) \/ Fork(r) \/ ProcessExits(r)
  PROVE  TypeOK'
<1> USE DEF clientVars, gates, host
<1>1. CASE Refused(r) \/ LeaderExited(r) \/ Terminate(r) \/ Drained(r)
  <2>1. work' \in [Requests -> Work]
    BY <1>1, GotoType DEF Refused, LeaderExited, Terminate, Drained, Pc
  <2> QED BY <1>1, <2>1 DEF TypeOK, Refused, LeaderExited, Terminate, Drained
<1>2. CASE AdmitMutation(r) \/ AdmitOperation(r)
  <2>1. work' \in [Requests -> Work]
    BY <1>2, GotoType DEF AdmitMutation, AdmitOperation, Pc
  <2>2. operation' \in [readers : SUBSET Requests, writer : Requests \cup {"none"}]
    <3>1. CASE UNCHANGED operation
      BY <3>1 DEF TypeOK
    <3>2. CASE operation' = [operation EXCEPT !.readers = @ \cup {r}]
      BY <3>2 DEF TypeOK
    <3>3. CASE operation' = [operation EXCEPT !.writer = r]
      BY <3>3 DEF TypeOK
    <3> QED BY <1>2, <3>1, <3>2, <3>3 DEF AdmitMutation, AdmitOperation
  <2> QED BY <1>2, <2>1, <2>2 DEF TypeOK, AdmitMutation, AdmitOperation
<1>3. CASE Start(r) \/ BeginRefresh(r) \/ Refreshed(r)
  <2>1. work' \in [Requests -> Work]
    BY <1>3, GotoType DEF Start, BeginRefresh, Refreshed, Pc
  <2>2. procs' \in [Requests -> SUBSET Processes]
    <3>1. \/ UNCHANGED procs
          \/ \E s \in SUBSET Processes : procs' = [procs EXCEPT ![r] = s]
      BY <1>3 DEF Start, BeginRefresh, Refreshed, Processes
    <3>2. procs \in [Requests -> SUBSET Processes]
      BY DEF TypeOK
    <3> QED BY <3>1, <3>2
  <2>3. shown' \in Shown /\ refreshing' \in Requests \cup {"none"}
    BY <1>3 DEF TypeOK, Start, BeginRefresh, Refreshed, Shown
  <2> QED BY <1>3, <2>1, <2>2, <2>3 DEF TypeOK, Start, BeginRefresh, Refreshed
<1>4. CASE Kill(r) \/ ObserveExpires(r) \/ ProcessExits(r)
  <2>1. procs' \in [Requests -> SUBSET Processes]
    BY <1>4 DEF TypeOK, Kill, ObserveExpires, ProcessExits
  <2>2. shown' \in Shown
    BY <1>4 DEF TypeOK, Kill, ObserveExpires, ProcessExits, Effect, Shown
  <2> QED BY <1>4, <2>1, <2>2 DEF TypeOK, Kill, ObserveExpires, ProcessExits
<1>5. CASE Answer(r)
  <2>1. work' \in [Requests -> Work] /\ replies' \in Seq(Reply)
    BY <1>5, GotoType, EmitType DEF Answer, Pc
  <2> QED BY <1>5, <2>1 DEF TypeOK, Answer
<1>6. CASE Release(r)
  <2>1. work' \in [Requests -> Work]
    BY <1>6 DEF TypeOK, Release, Idle, Pc, Context, Work
  <2>2. operation' \in [readers : SUBSET Requests, writer : Requests \cup {"none"}]
    BY <1>6 DEF TypeOK, Release
  <2> QED BY <1>6, <2>1, <2>2 DEF TypeOK, Release
<1>7. CASE Progress(r)
  BY <1>7, EmitType DEF TypeOK, Progress
<1>8. CASE Abandon(r)
  <2>1. work' \in [Requests -> Work] /\ faults' \in 0 .. MaxFaults
    BY <1>8, GotoType, FaultType DEF Abandon, Pc
  <2> QED BY <1>8, <2>1 DEF TypeOK, Abandon
<1>9. CASE Fork(r)
  <2>1. faults' \in 0 .. MaxFaults
    BY <1>9, FaultType DEF Fork
  <2> QED BY <1>9, <2>1 DEF TypeOK, Fork, Processes
<1>10. CASE Helped(r)
  <2>1. work' \in [Requests -> Work]
    BY <1>10 DEF TypeOK, Helped, Work, Pc
  <2> QED BY <1>10, <2>1 DEF TypeOK, Helped
<1>11. CASE GiveUp(r)
  <2>1. work' \in [Requests -> Work]
    BY <1>11, GotoType DEF GiveUp, Pc
  <2>2. procs' \in [Requests -> SUBSET Processes] /\ shown' \in Shown
    BY <1>11 DEF TypeOK, GiveUp, Effect, Shown
  <2> QED BY <1>11, <2>1, <2>2 DEF TypeOK, GiveUp
<1> QED BY <1>1, <1>2, <1>3, <1>4, <1>5, <1>6, <1>7, <1>8, <1>9, <1>10, <1>11
        DEF Worker

LEMMA TypeInitially == Init => TypeOK
<1> SUFFICES ASSUME Init PROVE TypeOK
  OBVIOUS
<1>1. requests \in Seq(Message) /\ replies \in Seq(Reply)
  BY EmptySeq DEF Init
<1>2. reconnects \in 0 .. MaxReconnects /\ faults \in 0 .. MaxFaults
  BY BridgeShape DEF Init
<1>3. work \in [Requests -> Work]
  BY DEF Init, Idle, Pc, Context, Work
<1>4. operation \in [readers : SUBSET Requests, writer : Requests \cup {"none"}]
  BY DEF Init
<1>5. procs \in [Requests -> SUBSET Processes]
  BY DEF Init
<1> QED BY <1>1, <1>2, <1>3, <1>4, <1>5 DEF Init, TypeOK, Shown

LEMMA TypeStep == TypeOK /\ [Next]_vars => TypeOK'
<1> SUFFICES ASSUME TypeOK, [Next]_vars PROVE TypeOK'
  OBVIOUS
<1>1. CASE UNCHANGED vars
  BY <1>1 DEF vars, clientVars, gates, host, TypeOK
<1>2. CASE Next
  BY <1>2, ClientType, ScannerType, WorkerType DEF Next
<1> QED BY <1>1, <1>2

(* Every variable keeps its type: a request has one outcome, and one       *)
(* worker at one place of Serve's goroutine (bridge.ts, Serve).            *)
THEOREM TypeCorrect == Spec => []TypeOK
BY TypeInitially, TypeStep, PTL DEF Spec

-----------------------------------------------------------------------------
(* The gates, and what runs behind them.                                   *)

(* A request that stays where it is, and loses no gate.                    *)
LEMMA GateKept ==
  ASSUME NEW q, GateOf(q), UNCHANGED kind,
         work'[q].pc = work[q].pc, work'[q].ok = work[q].ok,
         work'[q].ctx = "open" => work[q].ctx = "open",
         procs[q] \ {"helper"} = {} => procs'[q] \ {"helper"} = {},
         "helper" \in procs'[q] => "helper" \in procs[q],
         "child" \in procs'[q] => "child" \in procs[q] \/ ~helped(q),
         mutation = q => mutation' = q,
         q \in operation.readers => q \in operation'.readers,
         operation.writer = q => operation'.writer = q
  PROVE  GateOf(q)'
BY DEF GateOf, Admitted, mutates, observes, shared, helped

LEMMA GatesStop ==
  ASSUME TypeOK, Gates, NEW ids, work' = stop(ids),
         UNCHANGED <<kind, mutation, operation, procs>>
  PROVE  Gates'
<1>1. \A r \in Requests : work'[r].pc = work[r].pc /\ work'[r].ok = work[r].ok
                          /\ (work'[r].ctx = "open" => work[r].ctx = "open")
  BY DEF TypeOK, stop, Work
<1>2. \A r \in Requests : GateOf(r)'
  BY <1>1, GateKept DEF Gates
<1> QED BY <1>2 DEF Gates

LEMMA GotoWork ==
  ASSUME TypeOK, NEW r \in Requests, NEW pc \in Pc, Goto(r, pc)
  PROVE  /\ work'[r].pc = pc /\ work'[r].ctx = work[r].ctx /\ work'[r].ok = work[r].ok
         /\ \A q \in Requests \ {r} : work'[q] = work[q]
BY DEF TypeOK, Goto, Work

(* A worker moves, and the gates stay.                                     *)
LEMMA GatesMove ==
  ASSUME TypeOK, Gates, NEW r \in Requests, NEW pc \in Pc, Goto(r, pc),
         UNCHANGED <<kind, mutation, operation, procs>>, GateOf(r)'
  PROVE  Gates'
<1>1. \A q \in Requests \ {r} : GateOf(q)'
  BY GotoWork, GateKept DEF Gates
<1> QED BY <1>1 DEF Gates

LEMMA GatesWorker ==
  ASSUME TypeOK, Gates, NEW r \in Requests,
         Worker(r) \/ Progress(r) \/ Abandon(r) \/ Fork(r) \/ ProcessExits(r)
  PROVE  Gates'
<1> USE DEF clientVars, gates, host
<1> DEFINE Others == \A q \in Requests \ {r} : GateOf(q)'
<1>k. kind \in [Requests -> Kinds] /\ r # "none" /\ GateOf(r)
  BY BridgeShape DEF TypeOK, Gates
<1>1. CASE Refused(r)
  <2>1. Goto(r, "reply") /\ "reply" \in Pc
    BY <1>1 DEF Refused, Pc
  <2>2. GateOf(r)'
    BY <1>k, <1>1, <2>1, GotoWork DEF Refused, GateOf, Admitted, observes, helped
  <2> QED BY <1>1, <2>1, <2>2, GatesMove DEF Refused
<1>2. CASE LeaderExited(r) \/ Terminate(r) \/ Abandon(r)
  <2>1. Goto(r, "drain") /\ "drain" \in Pc /\ work[r].pc = "run"
        /\ ~helped(r) /\ UNCHANGED <<kind, mutation, operation, procs>>
    BY <1>2 DEF LeaderExited, Terminate, Abandon, Pc, helped
  <2>2. GateOf(r)'
    BY <1>k, <2>1, GotoWork DEF GateOf, Admitted, mutates, observes, shared, helped
  <2> QED BY <2>1, <2>2, GatesMove
<1>3. CASE Drained(r)
  <2> DEFINE pc == IF kind[r] = "change" THEN "refresh" ELSE "reply"
  <2>1. Goto(r, pc) /\ pc \in Pc
    BY <1>3 DEF Drained, Pc
  <2>2. GateOf(r)'
    BY <1>k, <1>3, <2>1, GotoWork
       DEF Drained, GateOf, Admitted, mutates, observes, shared, helped
  <2> QED BY <1>3, <2>1, <2>2, GatesMove DEF Drained
<1>4. CASE Answer(r)
  <2>1. Goto(r, "release") /\ "release" \in Pc
    BY <1>4 DEF Answer, Pc
  <2>2. GateOf(r)'
    BY <1>k, <1>4, <2>1, GotoWork DEF Answer, GateOf, Admitted, observes, helped
  <2> QED BY <1>4, <2>1, <2>2, GatesMove DEF Answer
<1>5. CASE AdmitMutation(r)
  <2>1. Goto(r, "operation") /\ "operation" \in Pc
    BY <1>5 DEF AdmitMutation, Pc
  <2>2. GateOf(r)'
    BY <1>k, <1>5, <2>1, GotoWork
       DEF AdmitMutation, GateOf, Admitted, mutates, observes, shared, helped
  <2>3. Others
    BY <1>5, <2>1, GotoWork, GateKept, BridgeShape DEF AdmitMutation, Gates
  <2> QED BY <1>5, <2>2, <2>3 DEF AdmitMutation, Gates
<1>6. CASE AdmitOperation(r)
  <2> DEFINE pc == IF kind[r] = "status" THEN "refresh" ELSE "start"
  <2>1. Goto(r, pc) /\ pc \in Pc
    BY <1>6 DEF AdmitOperation, Pc
  <2>2. /\ operation' = IF shared(r)
                           THEN [operation EXCEPT !.readers = @ \cup {r}]
                           ELSE [operation EXCEPT !.writer = r]
        /\ operation.writer = "none" /\ (shared(r) \/ operation.readers = {})
    BY <1>6 DEF AdmitOperation
  <2>3. /\ operation.readers \subseteq operation'.readers
        /\ IF shared(r) THEN r \in operation'.readers /\ operation'.writer = "none"
                        ELSE operation'.writer = r /\ operation'.readers = {}
    <3>1. operation \in [readers : SUBSET Requests, writer : Requests \cup {"none"}]
      BY DEF TypeOK
    <3>2. CASE shared(r)
      BY <2>2, <3>1, <3>2
    <3>3. CASE ~shared(r)
      BY <2>2, <3>1, <3>3
    <3> QED BY <3>2, <3>3
  <2>4. GateOf(r)'
    <3>1. work[r].pc = "operation" /\ UNCHANGED <<kind, mutation, procs>>
      BY <1>6 DEF AdmitOperation
    <3>2. procs[r] \ {"helper"} = {} /\ (mutates(r) => mutation = r) /\ ~work[r].ok
          /\ ("helper" \in procs[r] => helped(r))
      BY <1>k, <3>1 DEF GateOf
    <3>3. work'[r].pc = pc /\ work'[r].ok = work[r].ok
      BY <2>1, GotoWork
    <3>4. shared(r)' <=> shared(r)
      BY <3>1 DEF shared
    <3> HIDE DEF pc
    <3>5. \/ pc = "start" /\ kind[r] # "status"
          \/ pc = "refresh" /\ kind[r] = "status"
      BY DEF pc
    <3> QED BY <2>3, <3>1, <3>2, <3>3, <3>4, <3>5
         DEF GateOf, Admitted, mutates, observes, shared, helped
  <2>5. Others
    BY <1>6, <2>1, <2>2, <2>3, GotoWork, GateKept, BridgeShape DEF AdmitOperation, Gates
  <2> QED BY <2>3, <2>4, <2>5 DEF Gates
<1>7. CASE Start(r)
  <2>1. Goto(r, "run") /\ "run" \in Pc
    BY <1>7 DEF Start, Pc
  <2>2. GateOf(r)'
    <3>1. work'[r].pc = "run" /\ work'[r].ctx = work[r].ctx
          /\ work'[r].ok = work[r].ok
      BY <2>1, GotoWork
    <3>2. /\ work[r].pc = "start" /\ work[r].ctx = "open"
          /\ UNCHANGED <<kind, mutation, operation>>
          /\ "helper" \in procs'[r] => helped(r)
          /\ "child" \notin procs'[r]
      BY <1>7 DEF TypeOK, Start
    <3> QED BY <1>k, <3>1, <3>2 DEF GateOf, Admitted, mutates, observes, shared, helped
  <2>3. Others
    <3>1. ASSUME NEW q \in Requests \ {r}
          PROVE  work'[q] = work[q] /\ procs'[q] = procs[q] /\ GateOf(q)
      BY <1>7, <2>1, GotoWork DEF TypeOK, Start, Gates
    <3>2. UNCHANGED <<kind, mutation, operation>>
      BY <1>7 DEF Start
    <3> QED BY <3>1, <3>2, GateKept
  <2> QED BY <1>7, <2>2, <2>3 DEF Start, Gates
<1>8. CASE BeginRefresh(r)
  <2> DEFINE pc == IF work[r].ctx = "open" THEN "observing" ELSE "reply"
  <2>1. Goto(r, pc) /\ pc \in Pc
    BY <1>8 DEF BeginRefresh, Pc
  <2>2. GateOf(r)'
    <3>1. work'[r].pc = pc /\ work'[r].ctx = work[r].ctx
          /\ work'[r].ok = work[r].ok
      BY <2>1, GotoWork
    <3>2. /\ work[r].pc = "refresh" /\ UNCHANGED <<kind, mutation, operation>>
          /\ IF work[r].ctx = "open" THEN procs'[r] = {"leader"} ELSE procs' = procs
      BY <1>8 DEF TypeOK, BeginRefresh
    <3>3. pc = "observing" \/ (pc = "reply" /\ work[r].ctx # "open")
      OBVIOUS
    <3> HIDE DEF pc
    <3> QED BY <1>k, <3>1, <3>2, <3>3 DEF GateOf, Admitted, mutates, observes, shared, helped
  <2>3. Others
    BY <1>8, <2>1, GotoWork, GateKept DEF TypeOK, BeginRefresh, Gates
  <2> QED BY <1>8, <2>2, <2>3 DEF BeginRefresh, Gates
<1>9. CASE Refreshed(r)
  <2>1. Goto(r, "reply") /\ "reply" \in Pc
    BY <1>9 DEF Refreshed, Pc
  <2>2. GateOf(r)'
    <3>1. work'[r].pc = "reply" /\ work'[r].ctx = work[r].ctx
          /\ work'[r].ok = work[r].ok
      BY <2>1, GotoWork
    <3>2. /\ work[r].pc = "observing" /\ procs[r] = {}
          /\ UNCHANGED <<kind, mutation, operation, procs>>
      BY <1>9 DEF Refreshed
    <3> QED BY <1>k, <3>1, <3>2 DEF GateOf, Admitted, mutates, observes, shared, helped
  <2> QED BY <1>9, <2>1, <2>2, GatesMove DEF Refreshed
<1>10. CASE Kill(r) \/ ObserveExpires(r) \/ ProcessExits(r) \/ Fork(r)
  <2>1. /\ UNCHANGED <<kind, work, mutation, operation>>
        /\ \A q \in Requests :
             /\ procs[q] \ {"helper"} = {} => procs'[q] \ {"helper"} = {}
             /\ "helper" \in procs'[q] => "helper" \in procs[q]
             /\ "child" \in procs'[q] => "child" \in procs[q] \/ ~helped(q)
    <3>0. procs \in [Requests -> SUBSET Processes]
      BY DEF TypeOK
    <3>1. CASE Kill(r) \/ ObserveExpires(r)
      BY <3>0, <3>1 DEF Kill, ObserveExpires
    <3>2. CASE ProcessExits(r)
      BY <3>0, <3>2 DEF ProcessExits
    <3>3. CASE Fork(r)
      BY <3>0, <3>3 DEF Fork
    <3> QED BY <1>10, <3>1, <3>2, <3>3
  <2>2. \A q \in Requests : GateOf(q)'
    BY <2>1, GateKept DEF Gates
  <2> QED BY <2>1, <2>2 DEF Gates
<1>11. CASE Release(r)
  <2>1. work'[r] = Idle /\ \A q \in Requests \ {r} : work'[q] = work[q]
    BY <1>11 DEF TypeOK, Release
  <2>2. GateOf(r)'
    BY <1>k, <1>11, <2>1 DEF Release, GateOf, Admitted, Idle, helped
  <2>3. Others
    BY <1>11, <2>1, GateKept DEF Release, Gates
  <2> QED BY <1>11, <2>2, <2>3 DEF Release, Gates
<1>12. CASE Progress(r)
  BY <1>12, GateKept DEF Progress, Gates
<1>13. CASE Helped(r)
  <2>1. PICK ok \in BOOLEAN :
          /\ ok => procs[r] = {}
          /\ work' = [work EXCEPT ![r].ok = ok,
                        ![r].pc = IF ok /\ kind[r] = "setup" THEN "refresh" ELSE "reply"]
    BY <1>13 DEF Helped
  <2>2. /\ work'[r].ok = ok /\ work'[r].ctx = work[r].ctx
        /\ work'[r].pc = IF ok /\ kind[r] = "setup" THEN "refresh" ELSE "reply"
        /\ \A q \in Requests \ {r} : work'[q] = work[q]
    BY <2>1 DEF TypeOK, Work
  <2>3. /\ UNCHANGED <<kind, mutation, operation, procs>> /\ helped(r)
        /\ work[r].pc = "run" /\ procs[r] \ {"helper"} = {}
    BY <1>k, <1>13 DEF TypeOK, Helped, GateOf, Processes
  <2>4. GateOf(r)'
    BY <1>k, <2>1, <2>2, <2>3 DEF GateOf, Admitted, mutates, observes, shared, helped
  <2>5. Others
    BY <2>2, <2>3, GateKept DEF Gates
  <2> QED BY <2>3, <2>4, <2>5 DEF Gates
<1>14. CASE GiveUp(r)
  <2>1. Goto(r, "reply") /\ "reply" \in Pc
    BY <1>14 DEF GiveUp, Pc
  <2>2. /\ work[r].pc = "run" /\ work[r].ctx # "open" /\ helped(r)
        /\ UNCHANGED <<kind, mutation, operation>>
        /\ procs' = [procs EXCEPT ![r] = @ \ {"leader"}]
    BY <1>14 DEF GiveUp
  <2>3. /\ procs'[r] \ {"helper"} = {} /\ "child" \notin procs'[r]
        /\ "helper" \in procs'[r] => ~work[r].ok
    BY <1>k, <2>2 DEF TypeOK, GateOf, Processes
  <2>4. GateOf(r)'
    BY <1>k, <2>1, <2>2, <2>3, GotoWork DEF GateOf, Admitted, mutates, observes, shared, helped
  <2>5. Others
    BY <2>1, <2>2, GotoWork, GateKept DEF TypeOK, Gates
  <2> QED BY <2>2, <2>4, <2>5 DEF Gates
<1> QED BY <1>1, <1>2, <1>3, <1>4, <1>5, <1>6, <1>7, <1>8, <1>9, <1>10, <1>11, <1>12,
           <1>13, <1>14 DEF Worker

LEMMA GatesStep ==
  TypeOK /\ Once /\ Gates /\ [Next]_vars => Gates'
<1> SUFFICES ASSUME TypeOK, Once, Gates, [Next]_vars PROVE Gates'
  OBVIOUS
<1> USE DEF clientVars, gates, host
<1>1. CASE UNCHANGED <<kind, work, mutation, operation, procs>>
  BY <1>1, GateKept DEF Gates
<1>2. CASE ScanRequest /\ ~UNCHANGED work
  <2>r. PICK r \in Requests : r = Head(requests).id
    BY <1>2, HeadMessage DEF ScanRequest
  <2> DEFINE pc == IF mutates(r) THEN "mutation" ELSE "operation"
  <2>1. work' = [work EXCEPT ![r] = [Idle EXCEPT !.pc = pc]]
    BY <1>2, <2>r DEF ScanRequest
  <2>2. /\ work'[r].pc = pc /\ ~work'[r].ok
        /\ \A q \in Requests \ {r} : work'[q] = work[q]
    BY <2>1 DEF TypeOK, Idle
  <2>3. UNCHANGED <<kind, mutation, operation, procs>>
    BY <1>2 DEF ScanRequest
  <2>4. \A q \in Requests \ {r} : GateOf(q)'
    BY <2>2, <2>3, GateKept DEF Gates
  <2>5. GateOf(r)'
    <3>1. Asking(r)
      BY <1>2, <2>r, HeadMessage DEF ScanRequest, Asking
    <3>2. /\ work[r].pc = "none" /\ procs[r] \ {"helper"} = {}
          /\ "helper" \in procs[r] => helped(r)
      BY <2>1, <3>1 DEF Once, OnceOf, Gates, GateOf
    <3>3. \/ pc = "mutation" /\ mutates(r)
          \/ pc = "operation" /\ ~mutates(r)
      OBVIOUS
    <3> HIDE DEF pc
    <3> QED BY <2>2, <2>3, <3>2, <3>3 DEF GateOf, Admitted, mutates, shared, helped
  <2> QED BY <2>3, <2>4, <2>5 DEF Gates
<1>3. CASE ScanCancel \/ Signalled \/ \E r \in Requests : Timeout(r)
  BY <1>3, GatesStop DEF ScanCancel, Signalled, Timeout
<1>4. CASE \E r \in Requests : \/ Worker(r) \/ Progress(r) \/ Abandon(r)
                              \/ Fork(r) \/ ProcessExits(r)
  BY <1>4, GatesWorker
<1>5. CASE UNCHANGED vars
  BY <1>1, <1>5 DEF vars
<1>6. CASE \/ Receive \/ Fail \/ Reconnect \/ ScanEnd \/ Exit
           \/ \E r \in Requests : Request(r) \/ Cancel(r)
  BY <1>1, <1>6 DEF Receive, Fail, Reconnect, ScanEnd, Exit, Request, Cancel
<1>7. CASE ScanRequest /\ UNCHANGED work
  BY <1>1, <1>7 DEF ScanRequest
<1> QED BY <1>2, <1>3, <1>4, <1>5, <1>6, <1>7 DEF Next, Scan
-----------------------------------------------------------------------------
(* What the bridge says of the system.                                     *)

(* While an admitted request holds a gate, a change is not another's.      *)
LEMMA OneWriter ==
  ASSUME Gates, BridgeShape, NEW r \in Requests, NEW q \in Requests, r # q,
         Admitted(r), Admitted(q)
  PROVE  shared(q)
BY DEF Gates, GateOf

LEMMA ShownStale ==
  ASSUME [Next]_vars, shown # "stale", shown' = "stale"
  PROVE  \E q \in Requests :
           /\ ~shared(q) /\ work[q].pc # "observing" /\ ~left(q)
           /\ \/ procs[q] # {} /\ UNCHANGED work
              \/ GiveUp(q)
<1> USE DEF clientVars, gates, host
<1>1. PICK q \in Requests : (Kill(q) \/ ProcessExits(q) \/ GiveUp(q)) /\ Effect(q)
  <2>1. shown' # shown
    OBVIOUS
  <2>2. ~Reconnect /\ \A q \in Requests : ~Refreshed(q)
    BY DEF Reconnect, Refreshed
  <2>3. \A q \in Requests :
          Kill(q) \/ ProcessExits(q) \/ GiveUp(q) => Effect(q)
    BY DEF Kill, ProcessExits, GiveUp
  <2>4. \A q \in Requests : Worker(q) => Kill(q) \/ GiveUp(q)
    BY <2>1, <2>2
       DEF Worker, Refused, AdmitMutation, AdmitOperation, Start, LeaderExited,
           Terminate, Drained, BeginRefresh, ObserveExpires, Answer, Release, Helped
  <2>5. \A q \in Requests : ~(Request(q) \/ Cancel(q) \/ Timeout(q) \/ Progress(q)
                               \/ Abandon(q) \/ Fork(q))
    BY <2>1 DEF Request, Cancel, Timeout, Progress, Abandon, Fork
  <2>6. ~(Receive \/ Fail \/ Scan \/ Signalled \/ UNCHANGED vars)
    BY <2>1 DEF vars, Receive, Fail, Scan, ScanRequest, ScanCancel, ScanEnd, Exit,
                Signalled
  <2> QED BY <2>2, <2>3, <2>4, <2>5, <2>6 DEF Next
<1>2. ~shared(q) /\ work[q].pc # "observing" /\ ~left(q)
  BY <1>1 DEF Effect
<1> QED BY <1>1, <1>2 DEF Kill, ProcessExits

(* Where a request comes to its reply with its context open.               *)
LEMMA ComesToReply ==
  ASSUME TypeOK, [Next]_vars, NEW r \in Requests,
         (work[r].pc = "reply" /\ work[r].ctx = "open")'
  PROVE  /\ kind' = kind
         /\ \/ work[r].pc = "reply" /\ work[r].ctx = "open"
            \/ Refreshed(r)
            \/ Drained(r) /\ kind[r] # "change"
            \/ Helped(r) /\ ~observes(r)'
<1> USE DEF clientVars, gates, host
<1>1. CASE UNCHANGED <<kind, work>>
  BY <1>1
<1>2. CASE ScanRequest \/ ScanCancel \/ Signalled \/ \E q \in Requests : Timeout(q)
  <2>1. CASE ScanRequest
    <3>1. PICK q \in Requests : q = Head(requests).id
      BY <2>1, HeadMessage DEF ScanRequest
    <3>2. kind' = kind /\ (work'[r] = work[r] \/ work'[r].pc \in {"mutation", "operation"})
      BY <2>1, <3>1 DEF TypeOK, ScanRequest, Idle
    <3> QED BY <3>2
  <2>2. CASE ScanCancel \/ Signalled \/ \E q \in Requests : Timeout(q)
    <3>1. kind' = kind /\ \E ids : work' = stop(ids)
      BY <2>2 DEF ScanCancel, Signalled, Timeout
    <3>2. work'[r].pc = work[r].pc /\ (work'[r].ctx = "open" => work[r].ctx = "open")
      BY <3>1 DEF TypeOK, stop, Work
    <3> QED BY <3>1, <3>2
  <2> QED BY <1>2, <2>1, <2>2
<1>3. ASSUME NEW q \in Requests, NEW pc \in Pc, Goto(q, pc), q # r \/ pc # "reply",
             kind' = kind
      PROVE  kind' = kind /\ work[r].pc = "reply" /\ work[r].ctx = "open"
  BY <1>3, GotoWork
<1>4. ASSUME NEW q \in Requests, Worker(q) \/ Abandon(q), work' # work
      PROVE  /\ kind' = kind
             /\ \/ work[r].pc = "reply" /\ work[r].ctx = "open"
                \/ Refreshed(r)
                \/ Drained(r) /\ kind[r] # "change"
                \/ Helped(r) /\ ~observes(r)'
  <2>1. CASE AdmitMutation(q) \/ AdmitOperation(q) \/ Start(q) \/ LeaderExited(q)
               \/ Terminate(q) \/ Abandon(q) \/ Answer(q)
    <3>1. \E pc \in Pc : pc # "reply" /\ Goto(q, pc)
      BY <2>1 DEF AdmitMutation, AdmitOperation, Start, LeaderExited, Terminate,
                  Abandon, Answer, Pc
    <3> QED BY <1>3, <2>1, <3>1 DEF AdmitMutation, AdmitOperation, Start, LeaderExited,
                                    Terminate, Abandon, Answer
  <2>2. CASE Refused(q) \/ BeginRefresh(q) \/ Drained(q) \/ Refreshed(q)
    <3>1. "reply" \in Pc /\ "observing" \in Pc /\ "refresh" \in Pc
      BY DEF Pc
    <3>2. CASE q = r
      BY <2>2, <3>1, <3>2, GotoWork DEF Refused, BeginRefresh, Drained, Refreshed
    <3>3. CASE q # r
      BY <1>3, <2>2, <3>1, <3>3 DEF Refused, BeginRefresh, Drained, Refreshed
    <3> QED BY <3>2, <3>3
  <2>3. CASE Release(q)
    BY <2>3 DEF TypeOK, Release, Idle
  <2>4. CASE GiveUp(q)
    <3>1. Goto(q, "reply") /\ "reply" \in Pc /\ work[q].ctx # "open" /\ kind' = kind
      BY <2>4 DEF GiveUp, Pc
    <3>2. q # r
      BY <3>1, GotoWork
    <3> QED BY <1>3, <3>1, <3>2
  <2>5. CASE Helped(q)
    <3>1. /\ kind' = kind /\ \A p \in Requests \ {q} : work'[p] = work[p]
          /\ work'[q].pc = IF work'[q].ok /\ kind[q] = "setup" THEN "refresh" ELSE "reply"
      BY <2>5 DEF TypeOK, Helped, Work
    <3>2. kind[q] \in {"setup", "profiles"}
      BY <2>5 DEF Helped, helped
    <3>3. CASE q = r
      BY <2>5, <3>1, <3>2, <3>3 DEF observes
    <3>4. CASE q # r
      BY <3>1, <3>4
    <3> QED BY <3>3, <3>4
  <2> QED BY <1>4, <2>1, <2>2, <2>3, <2>4, <2>5 DEF Worker, Kill, ObserveExpires
<1>5. CASE \/ UNCHANGED vars \/ Receive \/ Fail \/ Reconnect \/ ScanEnd \/ Exit
           \/ \E q \in Requests : \/ Request(q) \/ Cancel(q) \/ Progress(q) \/ Fork(q)
                                  \/ ProcessExits(q)
  BY <1>1, <1>5 DEF vars, Receive, Fail, Reconnect, ScanEnd, Exit, Request, Cancel,
                    Progress, Fork, ProcessExits
<1>6. CASE \E q \in Requests : (Worker(q) \/ Abandon(q)) /\ work' = work
  <2>1. kind' = kind
    BY <1>6 DEF Worker, Abandon, Refused, AdmitMutation, AdmitOperation, Start,
         LeaderExited, Terminate, Kill, Drained, BeginRefresh, ObserveExpires,
         Refreshed, Answer, Release, Helped, GiveUp
  <2> QED BY <1>1, <1>6, <2>1
<1> QED BY <1>2, <1>4, <1>5, <1>6 DEF Next, Scan

(* A request succeeds only where it is helped.                             *)
LEMMA OkKept ==
  ASSUME TypeOK, [Next]_vars, NEW r \in Requests, ~Helped(r)
  PROVE  work'[r].ok => work[r].ok
<1> USE DEF clientVars, gates, host
<1>1. CASE UNCHANGED work
  BY <1>1
<1>2. CASE \E q \in Requests, pc \in Pc : Goto(q, pc)
  BY <1>2, GotoWork
<1>3. CASE \E ids : work' = stop(ids)
  BY <1>3 DEF TypeOK, stop, Work
<1>4. CASE \E q \in Requests : Release(q)
  BY <1>4 DEF TypeOK, Release, Idle
<1>5. CASE ScanRequest
  <2>1. PICK q \in Requests : q = Head(requests).id
    BY <1>5, HeadMessage DEF ScanRequest
  <2> DEFINE idle == [Idle EXCEPT !.pc = IF mutates(q) THEN "mutation" ELSE "operation"]
  <2>2. work' = work \/ work' = [work EXCEPT ![q] = idle]
    BY <1>5, <2>1 DEF ScanRequest
  <2>3. idle.ok = FALSE
    BY DEF Idle
  <2> HIDE DEF idle
  <2> QED BY <2>2, <2>3 DEF TypeOK
<1>6. CASE \E q \in Requests : Worker(q) \/ Abandon(q)
  <2>1. PICK q \in Requests : Worker(q) \/ Abandon(q)
    BY <1>6
  <2>2. CASE Release(q) \/ Kill(q) \/ ObserveExpires(q)
    BY <1>1, <1>4, <2>2 DEF Kill, ObserveExpires
  <2>3. CASE \E pc \in Pc : Goto(q, pc)
    BY <1>2, <2>3
  <2>4. CASE Helped(q)
    <3>1. q # r
      BY <2>4
    <3>2. \A t \in Requests \ {q} : work'[t] = work[t]
      <4>1. PICK ok \in BOOLEAN :
              work' = [work EXCEPT ![q].ok = ok,
                         ![q].pc = IF ok /\ kind[q] = "setup" THEN "refresh" ELSE "reply"]
        BY <2>4 DEF Helped
      <4> QED BY <4>1 DEF TypeOK
    <3> QED BY <3>1, <3>2
  <2> QED BY <2>1, <2>2, <2>3, <2>4
       DEF Worker, Abandon, Refused, AdmitMutation, AdmitOperation, Start, LeaderExited,
           Terminate, Drained, BeginRefresh, Refreshed, Answer, GiveUp, Pc
<1> QED BY <1>1, <1>3, <1>5, <1>6
     DEF Next, vars, Scan, Receive, Fail, Reconnect, ScanCancel, ScanEnd, Exit,
         Signalled, Request, Cancel, Timeout, Progress, Fork, ProcessExits

LEMMA FreshStep ==
  TypeOK /\ Gates /\ Fresh /\ [Next]_vars => Fresh'
<1> SUFFICES ASSUME TypeOK, Gates, Fresh, [Next]_vars, NEW r \in Requests,
                    (work[r].pc = "reply" /\ work[r].ctx = "open")', observes(r)',
                    shown' = "stale"
             PROVE  FALSE
  BY DEF Fresh
<1>1. kind' = kind /\ ~Refreshed(r)
  BY ComesToReply DEF Refreshed
<1>2. ~Drained(r) \/ kind[r] = "change"
  <2>1. Drained(r) => /\ kind[r] # "status" /\ ~helped(r)
    BY DEF Drained, Gates, GateOf
  <2>2. observes(r)' => kind[r] \in {"status", "change", "setup"}
    BY <1>1 DEF observes
  <2> QED BY <2>1, <2>2 DEF helped
<1>3. work[r].pc = "reply" /\ work[r].ctx = "open"
  BY <1>1, <1>2, ComesToReply
<1>4. work'[r].ok => work[r].ok
  <2>1. ~Helped(r)
    BY <1>3 DEF Helped
  <2> QED BY <2>1, OkKept
<1>5. observes(r) /\ shown # "stale"
  BY <1>1, <1>3, <1>4 DEF Fresh, observes
<1>6. PICK q \in Requests : /\ ~shared(q) /\ work[q].pc # "observing" /\ ~left(q)
                            /\ (procs[q] # {} /\ UNCHANGED work) \/ GiveUp(q)
  BY <1>5, ShownStale
<1>7. Admitted(q) /\ Admitted(r) /\ q # r
  <2>1. GateOf(q) /\ procs[q] \subseteq Processes
    BY DEF TypeOK, Gates
  <2>2. CASE GiveUp(q)
    BY <1>3, <2>2 DEF Admitted, GiveUp
  <2>3. CASE procs[q] # {}
    <3>1. work[q].pc \in {"run", "drain"}
      BY <1>6, <2>1, <2>3 DEF GateOf, left, Processes
    <3> QED BY <1>3, <3>1 DEF Admitted
  <2> QED BY <1>6, <2>2, <2>3
<1> QED BY <1>6, <1>7, OneWriter, BridgeShape
-----------------------------------------------------------------------------
(* Each request is read once, and its final reply is the last.             *)

LEMMA TakeRequest ==
  ASSUME TypeOK, AskedOnce, requests # <<>>, requests' = Tail(requests)
  PROVE  /\ AskedOnce'
         /\ \A r \in Requests :
              Asking(r)' => Asking(r) /\ Head(requests) # [op |-> "request", id |-> r]
<1>1. /\ \A i \in DOMAIN requests' : /\ i + 1 \in DOMAIN requests /\ i + 1 # 1
                                    /\ requests'[i] = requests[i + 1]
      /\ DOMAIN requests' \subseteq Nat
  BY HeadTailProperties, LenProperties DEF TypeOK
<1>2. AskedOnce'
  BY <1>1 DEF AskedOnce
<1>3. ASSUME NEW r \in Requests, Asking(r)'
      PROVE  Asking(r) /\ Head(requests) # [op |-> "request", id |-> r]
  <2>1. PICK i \in DOMAIN requests' : requests'[i] = [op |-> "request", id |-> r]
    BY <1>3 DEF Asking
  <2>2. i + 1 \in DOMAIN requests /\ requests[i + 1] = [op |-> "request", id |-> r]
        /\ i + 1 # 1
    BY <1>1, <2>1
  <2> QED BY <2>2, HeadMessage DEF Asking, AskedOnce
<1> QED BY <1>2, <1>3

(* Only cancels are said after the requests that wait.                     *)
LEMMA SayCancels ==
  ASSUME TypeOK, AskedOnce, NEW s \in Seq(Message),
         \A i \in DOMAIN s : s[i].op = "cancel", requests' = requests \o s
  PROVE  AskedOnce' /\ \A r \in Requests : Asking(r)' => Asking(r)
<1>1. \A i \in DOMAIN requests' : requests'[i].op = "request" =>
        i \in DOMAIN requests /\ requests'[i] = requests[i]
  <2>1. /\ Len(requests) \in Nat /\ Len(s) \in Nat
        /\ DOMAIN requests = 1 .. Len(requests) /\ DOMAIN s = 1 .. Len(s)
    BY LenProperties DEF TypeOK
  <2>2. /\ requests' \in Seq(Message) /\ Len(requests') = Len(requests) + Len(s)
        /\ \A i \in 1 .. Len(requests) + Len(s) : requests'[i] =
              IF i <= Len(requests) THEN requests[i] ELSE s[i - Len(requests)]
    BY ConcatProperties DEF TypeOK
  <2>3. DOMAIN requests' = 1 .. Len(requests) + Len(s)
    BY <2>2, LenProperties
  <2>4. ASSUME NEW i \in DOMAIN requests', i \notin DOMAIN requests
        PROVE  requests'[i].op = "cancel"
    <3>1. i - Len(requests) \in DOMAIN s /\ requests'[i] = s[i - Len(requests)]
      BY <2>1, <2>2, <2>3, <2>4
    <3> QED BY <3>1
  <2> QED BY <2>1, <2>2, <2>3, <2>4
<1> QED BY <1>1 DEF AskedOnce, Asking

LEMMA SayCancel ==
  ASSUME TypeOK, AskedOnce, NEW q \in Requests,
         requests' = Append(requests, [op |-> "cancel", id |-> q])
  PROVE  AskedOnce' /\ \A r \in Requests : Asking(r)' => Asking(r)
<1> DEFINE s == <<[op |-> "cancel", id |-> q]>>
<1>1. s \in Seq(Message) /\ \A i \in DOMAIN s : s[i].op = "cancel"
  BY MessageType
<1>2. requests' = requests \o s
  BY MessageType, AppendProperties, ConcatProperties DEF TypeOK
<1> HIDE DEF s
<1> QED BY <1>1, <1>2, SayCancels

LEMMA SayRequest ==
  ASSUME TypeOK, AskedOnce, NEW q \in Requests, ~Asking(q),
         requests' = Append(requests, [op |-> "request", id |-> q])
  PROVE  AskedOnce' /\ \A r \in Requests \ {q} : Asking(r)' => Asking(r)
<1> DEFINE m == [op |-> "request", id |-> q]
<1>1. /\ Len(requests) \in Nat /\ DOMAIN requests = 1 .. Len(requests)
      /\ DOMAIN requests' = 1 .. Len(requests) + 1
      /\ requests'[Len(requests) + 1] = m
      /\ \A i \in 1 .. Len(requests) : requests'[i] = requests[i]
  <2>1. m \in Message /\ requests \in Seq(Message)
    BY MessageType DEF TypeOK
  <2>2. requests' = Append(requests, m)
    OBVIOUS
  <2> HIDE DEF m
  <2> QED BY <2>1, <2>2, AppendProperties, LenProperties
<1>2. \A i \in DOMAIN requests : requests[i] # m
  BY DEF Asking
<1>3. AskedOnce'
  BY <1>1, <1>2 DEF AskedOnce
<1>4. \A r \in Requests \ {q} : Asking(r)' => Asking(r)
  BY <1>1 DEF Asking
<1> QED BY <1>3, <1>4

LEMMA SayReply ==
  ASSUME TypeOK, AnsweredLast, NEW r \in Requests, NEW op \in {"progress", "final"},
         ~Answered(r), Emit(op, r)
  PROVE  /\ AnsweredLast'
         /\ \A q \in Requests : Answered(q)' => Answered(q) \/ (q = r /\ op = "final")
<1>1. CASE replies' = replies
  BY <1>1 DEF AnsweredLast, Answered
<1>2. CASE replies' = Append(replies, [op |-> op, id |-> r, ok |-> work[r].ok])
  <2> DEFINE m == [op |-> op, id |-> r, ok |-> work[r].ok]
  <2>1. /\ Len(replies) \in Nat /\ DOMAIN replies = 1 .. Len(replies)
        /\ DOMAIN replies' = 1 .. Len(replies) + 1
        /\ replies'[Len(replies) + 1] = m
        /\ \A i \in 1 .. Len(replies) : replies'[i] = replies[i]
    <3>1. m \in Reply /\ replies \in Seq(Reply)
      BY DEF TypeOK, Reply, Work
    <3>2. replies' = Append(replies, m)
      BY <1>2
    <3> HIDE DEF m
    <3> QED BY <3>1, <3>2, AppendProperties, LenProperties
  <2>2. \A q \in Requests : Answered(q)' => Answered(q) \/ (q = r /\ op = "final")
    BY <2>1 DEF Answered
  <2>3. AnsweredLast'
    BY <2>1 DEF AnsweredLast, Answered
  <2> QED BY <2>2, <2>3
<1> QED BY <1>1, <1>2 DEF Emit

LEMMA TakeReply ==
  ASSUME TypeOK, AnsweredLast, replies # <<>>, replies' = Tail(replies)
  PROVE  AnsweredLast' /\ \A q \in Requests : Answered(q)' => Answered(q)
<1>1. /\ \A i \in DOMAIN replies' : i + 1 \in DOMAIN replies
                                   /\ replies'[i] = replies[i + 1]
      /\ DOMAIN replies' \subseteq Nat
  BY HeadTailProperties, LenProperties DEF TypeOK
<1> QED BY <1>1 DEF AnsweredLast, Answered

(* A request that neither is asked, nor is read, nor is answered.          *)
LEMMA OnceKept ==
  ASSUME NEW r, OnceOf(r), Asking(r)' => Asking(r), Answered(r)' => Answered(r),
         work[r].pc = "none" => work'[r].pc = "none",
         work[r].pc = "release" => work'[r].pc \in {"release", "none"},
         outcome[r] # "new" => outcome'[r] # "new"
  PROVE  OnceOf(r)'
BY DEF OnceOf
LEMMA OnceWorker ==
  ASSUME TypeOK, Once, AnsweredLast, NEW r \in Requests,
         Worker(r) \/ Progress(r) \/ Abandon(r) \/ Fork(r) \/ ProcessExits(r)
  PROVE  Once' /\ AnsweredLast'
<1> USE DEF clientVars, gates, host
<1>0. UNCHANGED <<requests, outcome>> /\ OnceOf(r)
  BY DEF Once, Worker, Progress, Abandon, Fork, ProcessExits, Refused, AdmitMutation,
         AdmitOperation, Start, LeaderExited, Terminate, Kill, Drained, BeginRefresh,
         ObserveExpires, Refreshed, Answer, Release, Helped, GiveUp
<1>1. AskedOnce' /\ \A q \in Requests : Asking(q)' <=> Asking(q)
  BY <1>0 DEF Once, AskedOnce, Asking
<1>2. /\ \A q \in Requests \ {r} : work'[q] = work[q]
      /\ \/ UNCHANGED work
         \/ work[r].pc = "release" /\ work'[r].pc = "none"
         \/ work[r].pc \notin {"none", "release"}
  <2>1. CASE Release(r)
    BY <2>1 DEF TypeOK, Release, Idle
  <2>2. CASE UNCHANGED work
    BY <2>2
  <2>3. CASE work[r].pc \notin {"none", "release"} /\ \E pc \in Pc : Goto(r, pc)
    BY <2>3, GotoWork
  <2>4. CASE Helped(r)
    BY <2>4 DEF TypeOK, Helped
  <2> QED BY <2>1, <2>2, <2>3, <2>4
          DEF Worker, Progress, Abandon, Fork, ProcessExits, Refused, AdmitMutation,
              AdmitOperation, Start, LeaderExited, Terminate, Kill, Drained,
              BeginRefresh, ObserveExpires, Refreshed, Answer, GiveUp, Pc
<1>3. CASE UNCHANGED replies
  <2>1. AnsweredLast' /\ \A q \in Requests : Answered(q)' <=> Answered(q)
    BY <1>3 DEF AnsweredLast, Answered
  <2> QED BY <1>0, <1>1, <1>2, <2>1, OnceKept DEF Once
<1>4. CASE Progress(r)
  <2>1. ~Answered(r) /\ Emit("progress", r) /\ UNCHANGED work
    BY <1>0, <1>4 DEF Progress, OnceOf
  <2>2. AnsweredLast' /\ \A q \in Requests : Answered(q)' => Answered(q)
    BY <2>1, SayReply
  <2> QED BY <1>0, <1>1, <2>1, <2>2, OnceKept DEF Once
<1>5. CASE Answer(r)
  <2>1. /\ ~Answered(r) /\ Emit("final", r)
        /\ work[r].pc = "reply" /\ work'[r].pc = "release"
    BY <1>0, <1>5, GotoWork DEF Answer, OnceOf, Pc
  <2>2. AnsweredLast' /\ \A q \in Requests \ {r} : Answered(q)' => Answered(q)
    BY <2>1, SayReply
  <2>3. OnceOf(r)'
    BY <1>0, <1>1, <2>1 DEF OnceOf
  <2> QED BY <1>0, <1>1, <1>2, <2>2, <2>3, OnceKept DEF Once
<1> QED BY <1>3, <1>4, <1>5
        DEF Worker, Abandon, Fork, ProcessExits, Refused, AdmitMutation,
            AdmitOperation, Start, LeaderExited, Terminate, Kill, Drained,
            BeginRefresh, ObserveExpires, Refreshed, Release, Helped, GiveUp

LEMMA OnceScan ==
  ASSUME TypeOK, Once, AnsweredLast, ScanRequest
  PROVE  Once' /\ AnsweredLast'
<1>0. PICK r \in Requests :
        Head(requests) = [op |-> "request", id |-> r] /\ r = Head(requests).id
  BY HeadMessage DEF ScanRequest
<1>1. /\ Head(requests) = [op |-> "request", id |-> r]
      /\ requests # <<>> /\ requests' = Tail(requests)
      /\ \/ /\ work' = [work EXCEPT ![r] = [Idle EXCEPT !.pc =
                         IF mutates(r) THEN "mutation" ELSE "operation"]]
            /\ UNCHANGED replies
         \/ Emit("final", r) /\ UNCHANGED work
      /\ UNCHANGED outcome
  BY <1>0 DEF ScanRequest
<1>2. AskedOnce' /\ ~Asking(r)' /\ \A q \in Requests : Asking(q)' => Asking(q)
  BY <1>1, TakeRequest DEF Once
<1>3. Asking(r)
  BY <1>1, HeadMessage DEF Asking
<1>4. OnceOf(r) /\ work[r].pc = "none" /\ outcome[r] # "new" /\ ~Answered(r)
  BY <1>3 DEF Once, OnceOf
<1>5. \A q \in Requests \ {r} : work'[q] = work[q]
  BY <1>1 DEF TypeOK
<1>6. CASE UNCHANGED replies
  <2>1. AnsweredLast' /\ \A q \in Requests : Answered(q)' <=> Answered(q)
    BY <1>6 DEF AnsweredLast, Answered
  <2>2. OnceOf(r)'
    BY <1>1, <1>2, <1>4, <2>1 DEF OnceOf
  <2> QED BY <1>1, <1>2, <1>5, <2>1, <2>2, OnceKept DEF Once
<1>7. CASE Emit("final", r) /\ UNCHANGED work
  <2>1. AnsweredLast' /\ \A q \in Requests \ {r} : Answered(q)' => Answered(q)
    BY <1>4, <1>7, SayReply
  <2>2. OnceOf(r)'
    BY <1>1, <1>2, <1>4, <1>7 DEF OnceOf
  <2> QED BY <1>1, <1>2, <1>7, <2>1, <2>2, OnceKept DEF Once
<1> QED BY <1>1, <1>6, <1>7

LEMMA OnceClient ==
  ASSUME TypeOK, Once, AnsweredLast,
         \/ Receive \/ Fail \/ Reconnect
         \/ \E r \in Requests : Request(r) \/ Cancel(r)
  PROVE  Once' /\ AnsweredLast'
<1> USE DEF clientVars, gates, host
<1>1. CASE Receive
  <2>1. AnsweredLast' /\ \A q \in Requests : Answered(q)' => Answered(q)
    BY <1>1, TakeReply DEF Receive
  <2>2. AskedOnce' /\ \A q \in Requests : Asking(q)' <=> Asking(q)
    BY <1>1 DEF Receive, Once, AskedOnce, Asking
  <2>3. UNCHANGED work /\ \A q \in Requests : outcome[q] # "new" => outcome'[q] # "new"
    BY <1>1 DEF TypeOK, Receive
  <2> QED BY <2>1, <2>2, <2>3, OnceKept DEF Once
<1>2. CASE Fail
  <2>1. /\ SetToSeq(Cancels) \in Seq(Message)
        /\ \A i \in DOMAIN SetToSeq(Cancels) : SetToSeq(Cancels)[i].op = "cancel"
    <3>1. Cancels \subseteq Message
      BY MessageType DEF Cancels, pending
    <3>2. \A i \in DOMAIN SetToSeq(Cancels) : SetToSeq(Cancels)[i] \in Cancels
      BY CancelsSequence, ElementOfSeq, LenProperties
    <3>3. SetToSeq(Cancels) \in Seq(Message)
      BY <3>1, CancelsSequence, SeqMonotonic
    <3>4. \A m \in Cancels : m.op = "cancel"
      BY DEF Cancels
    <3> QED BY <3>2, <3>3, <3>4
  <2>2. AskedOnce' /\ \A q \in Requests : Asking(q)' => Asking(q)
    BY <1>2, <2>1, SayCancels DEF Fail, Cancels, Once
  <2>3. AnsweredLast' /\ \A q \in Requests : ~Answered(q)'
    BY <1>2 DEF Fail, AnsweredLast, Answered
  <2>4. UNCHANGED work /\ \A q \in Requests : outcome[q] # "new" => outcome'[q] # "new"
    BY <1>2 DEF TypeOK, Fail
  <2> QED BY <2>2, <2>3, <2>4, OnceKept DEF Once
<1>3. CASE Reconnect
  <2>1. AnsweredLast' /\ AskedOnce' /\ \A q \in Requests : ~Answered(q)' /\ ~Asking(q)'
    BY <1>3 DEF Reconnect, AnsweredLast, AskedOnce, Answered, Asking
  <2> QED BY <1>3, <2>1, OnceKept DEF Once, Reconnect
<1>4. ASSUME NEW r \in Requests, Request(r)
      PROVE  Once' /\ AnsweredLast'
  <2>1. OnceOf(r) /\ outcome[r] = "new" /\ ~Asking(r)
    BY <1>4 DEF Request, Once, OnceOf
  <2>2. AskedOnce' /\ \A q \in Requests \ {r} : Asking(q)' => Asking(q)
    BY <1>4, <2>1, SayRequest DEF Request, Once
  <2>3. AnsweredLast' /\ \A q \in Requests : Answered(q)' <=> Answered(q)
    BY <1>4 DEF Request, AnsweredLast, Answered
  <2>4. /\ UNCHANGED work /\ outcome'[r] = "pending"
        /\ \A q \in Requests \ {r} : outcome'[q] = outcome[q]
    BY <1>4 DEF TypeOK, Request
  <2>5. OnceOf(r)'
    BY <2>1, <2>3, <2>4 DEF OnceOf
  <2> QED BY <2>2, <2>3, <2>4, <2>5, OnceKept DEF Once
<1>5. ASSUME NEW r \in Requests, Cancel(r)
      PROVE  Once' /\ AnsweredLast'
  <2>1. AskedOnce' /\ \A q \in Requests : Asking(q)' => Asking(q)
    BY <1>5, SayCancel DEF Cancel, Once
  <2>2. AnsweredLast' /\ \A q \in Requests : Answered(q)' <=> Answered(q)
    BY <1>5 DEF Cancel, AnsweredLast, Answered
  <2> QED BY <1>5, <2>1, <2>2, OnceKept DEF Cancel, Once
<1> QED BY <1>1, <1>2, <1>3, <1>4, <1>5

LEMMA OnceStep ==
  TypeOK /\ Once /\ AnsweredLast /\ [Next]_vars => Once' /\ AnsweredLast'
<1> SUFFICES ASSUME TypeOK, Once, AnsweredLast, [Next]_vars
             PROVE  Once' /\ AnsweredLast'
  OBVIOUS
<1> USE DEF clientVars, gates, host
<1>1. CASE UNCHANGED <<outcome, requests, replies>>
           /\ \A r \in Requests : work'[r].pc = work[r].pc
  <2>1. \A r \in Requests : (Asking(r)' <=> Asking(r)) /\ (Answered(r)' <=> Answered(r))
    BY <1>1 DEF Asking, Answered
  <2>2. AskedOnce' /\ AnsweredLast'
    BY <1>1 DEF Once, AskedOnce, AnsweredLast
  <2> QED BY <1>1, <2>1, <2>2, OnceKept DEF Once
<1>2. CASE ScanCancel
  <2>1. AskedOnce' /\ \A r \in Requests : Asking(r)' => Asking(r)
    BY <1>2, TakeRequest DEF ScanCancel, Once
  <2>2. AnsweredLast' /\ \A r \in Requests : Answered(r)' <=> Answered(r)
    BY <1>2 DEF ScanCancel, AnsweredLast, Answered
  <2>3. UNCHANGED outcome /\ \A r \in Requests : work'[r].pc = work[r].pc
    BY <1>2 DEF TypeOK, ScanCancel, stop
  <2> QED BY <2>1, <2>2, <2>3, OnceKept DEF Once
<1>3. CASE Signalled \/ \E r \in Requests : Timeout(r)
  <2>1. /\ UNCHANGED <<outcome, requests, replies>>
        /\ \E ids \in SUBSET Requests : work' = stop(ids)
    BY <1>3 DEF Signalled, Timeout
  <2>2. \A r \in Requests : work'[r].pc = work[r].pc
    BY <2>1 DEF TypeOK, stop
  <2> QED BY <1>1, <2>1, <2>2
<1>4. CASE ScanEnd \/ Exit \/ UNCHANGED vars
  BY <1>1, <1>4 DEF ScanEnd, Exit, vars
<1>5. CASE ScanRequest
  BY <1>5, OnceScan
<1> QED BY <1>2, <1>3, <1>4, <1>5, OnceClient, OnceWorker DEF Next, Scan

-----------------------------------------------------------------------------
(* What runs of a request that was answered.                               *)

LEMMA ToldReply ==
  ASSUME TypeOK, NEW q \in Requests, NEW op \in {"progress", "final"}, Emit(op, q),
         NEW r \in Requests, Told(r)'
  PROVE  Told(r) \/ (r = q /\ op = "final" /\ work[q].ok)
<1>1. CASE replies' = replies
  BY <1>1 DEF Told
<1>2. CASE replies' = Append(replies, [op |-> op, id |-> q, ok |-> work[q].ok])
  <2> DEFINE m == [op |-> op, id |-> q, ok |-> work[q].ok]
  <2>1. /\ Len(replies) \in Nat /\ DOMAIN replies = 1 .. Len(replies)
        /\ DOMAIN replies' = 1 .. Len(replies) + 1
        /\ replies'[Len(replies) + 1] = m
        /\ \A i \in 1 .. Len(replies) : replies'[i] = replies[i]
    <3>1. m \in Reply /\ replies \in Seq(Reply)
      BY DEF TypeOK, Reply, Work
    <3>2. replies' = Append(replies, m)
      BY <1>2
    <3> HIDE DEF m
    <3> QED BY <3>1, <3>2, AppendProperties, LenProperties
  <2> QED BY <2>1 DEF Told
<1> QED BY <1>1, <1>2 DEF Emit

(* Only an answer tells of success, and only of one that has no process.   *)
LEMMA ToldStep ==
  ASSUME TypeOK, Gates, Once, [Next]_vars, NEW r \in Requests, Told(r)', ~Told(r)
  PROVE  Answer(r) /\ procs[r] = {}
<1> USE DEF clientVars, gates, host
<1>1. CASE UNCHANGED replies
  BY <1>1 DEF Told
<1>2. CASE replies # <<>> /\ replies' = Tail(replies)
  <2>1. \A i \in DOMAIN replies' : i + 1 \in DOMAIN replies
                                   /\ replies'[i] = replies[i + 1]
    BY <1>2, HeadTailProperties, LenProperties DEF TypeOK
  <2> QED BY <2>1 DEF Told
<1>3. CASE replies' = <<>>
  BY <1>3 DEF Told
<1>4. CASE \E q \in Requests : Progress(q)
  BY <1>4, ToldReply DEF Progress
<1>5. CASE \E q \in Requests : Answer(q)
  <2>1. Answer(r) /\ work[r].ok
    BY <1>5, ToldReply DEF Answer
  <2>2. procs[r] \ {"helper"} = {} /\ "helper" \notin procs[r]
    BY <2>1 DEF Answer, Gates, GateOf
  <2> QED BY <2>1, <2>2
<1>6. CASE ScanRequest /\ Emit("final", Head(requests).id)
  <2>1. r = Head(requests).id /\ work[r].ok /\ requests # <<>>
        /\ Head(requests).op = "request"
    BY <1>6, HeadMessage, ToldReply DEF ScanRequest
  <2>2. Asking(r)
    BY <2>1, HeadMessage DEF Asking
  <2> QED BY <2>1, <2>2 DEF Once, OnceOf, Gates, GateOf
<1> QED BY <1>1, <1>2, <1>3, <1>4, <1>5, <1>6
     DEF Next, vars, Scan, Receive, Fail, Reconnect, ScanRequest, ScanCancel, ScanEnd,
         Exit, Signalled, Request, Cancel, Timeout, Worker, Abandon, Fork, ProcessExits,
         Refused, AdmitMutation, AdmitOperation, Start, LeaderExited, Terminate, Kill,
         Drained, BeginRefresh, ObserveExpires, Refreshed, Release, Helped, GiveUp

LEMMA QuietKept ==
  ASSUME TypeOK, [Next]_vars, NEW r \in Requests,
         procs[r] = {}, work[r].pc \in {"none", "release", "reply"}
  PROVE  procs'[r] = {}
<1> USE DEF clientVars, gates, host
<1>1. CASE UNCHANGED procs
  BY <1>1
<1>2. ASSUME NEW q \in Requests, Start(q) \/ BeginRefresh(q) \/ Fork(q)
      PROVE  procs'[r] = {}
  BY <1>2 DEF TypeOK, Start, BeginRefresh, Fork
<1>3. ASSUME NEW q \in Requests,
             Kill(q) \/ ObserveExpires(q) \/ ProcessExits(q) \/ GiveUp(q)
      PROVE  procs'[r] = {}
  BY <1>3 DEF TypeOK, Kill, ObserveExpires, ProcessExits, GiveUp
<1> QED BY <1>1, <1>2, <1>3
     DEF Next, vars, Scan, Receive, Fail, Reconnect, ScanRequest, ScanCancel, ScanEnd,
         Exit, Signalled, Request, Cancel, Timeout, Worker, Progress, Abandon,
         Refused, AdmitMutation, AdmitOperation, LeaderExited, Terminate,
         Drained, Refreshed, Answer, Release, Helped

LEMMA DoneStep ==
  TypeOK /\ Gates /\ Once /\ Done /\ [Next]_vars => Done'
<1> SUFFICES ASSUME TypeOK, Gates, Once, Done, [Next]_vars, NEW r \in Requests, Told(r)'
             PROVE  procs'[r] = {}
  BY DEF Done
<1>1. CASE Told(r)
  <2>1. procs[r] = {} /\ work[r].pc \in {"none", "release"}
    BY <1>1 DEF Done, Told, Once, OnceOf, Answered
  <2> QED BY <2>1, QuietKept
<1>2. CASE ~Told(r)
  <2>1. procs[r] = {} /\ work[r].pc = "reply"
    BY <1>2, ToldStep DEF Answer
  <2> QED BY <2>1, QuietKept
<1> QED BY <1>1, <1>2

-----------------------------------------------------------------------------
(* The theorems.                                                           *)

(* Gates, status, requests and answers are as the invariants say, in every *)
(* state (Serve, bridgeGate, refresh).                                     *)
THEOREM TuiInvariant == Spec => []TuiInv
<1>1. Init => TuiInv
  <2> SUFFICES ASSUME Init, TypeOK PROVE Gates /\ Fresh /\ Once /\ AnsweredLast /\ Done
    BY TypeInitially DEF TuiInv
  <2>1. \A r \in Requests : /\ work[r].pc = "none" /\ ~work[r].ok /\ procs[r] = {}
                            /\ ~Asking(r) /\ ~Answered(r)
    BY DEF Init, Idle, Asking, Answered
  <2>2. \A r \in Requests : GateOf(r)
    BY <2>1 DEF GateOf, Admitted, helped
  <2> QED BY <2>1, <2>2 DEF Init, Gates, Fresh, Once, OnceOf, AskedOnce, AnsweredLast, Done
<1>2. TuiInv /\ [Next]_vars => TuiInv'
  BY TypeStep, GatesStep, FreshStep, OnceStep, DoneStep DEF TuiInv
<1> QED BY <1>1, <1>2, PTL DEF Spec

(* What runs for an exclusive request runs alone, whichever requests wait, *)
(* are cancelled or time out, and of two selections one at most runs; what *)
(* a command leaves behind counts as running, a helper that its request    *)
(* gave up does not (Serve, bridgeGate, RunProcess,                        *)
(* ConfigureNativeDesktop, NativeOperationsClient).                        *)
THEOREM ChangesRunAlone == Spec => []ChangesAlone
<1>1. TuiInv => ChangesAlone
  <2> SUFFICES ASSUME TuiInv, NEW r \in Requests, NEW q \in Requests, r # q,
                      running(r), running(q)
               PROVE  shared(r) /\ shared(q) /\ ~(mutates(r) /\ mutates(q))
    BY DEF ChangesAlone
  <2>1. Gates /\ GateOf(r) /\ GateOf(q) /\ Admitted(r) /\ Admitted(q)
    BY DEF TuiInv, Gates, GateOf, Admitted, running
  <2>2. shared(r) /\ shared(q)
    BY <2>1, OneWriter, BridgeShape
  <2>3. ~(mutates(r) /\ mutates(q))
    BY <2>1 DEF GateOf
  <2> QED BY <2>2, <2>3
<1> QED BY <1>1, TuiInvariant, PTL

(* A request's final answer is its last and only one; nothing runs of it   *)
(* then but the helper of a setup or profile request, and none when that   *)
(* was answered as done, for every order of requests, cancels, failures    *)
(* and reconnects (RunProcess, runNativeDesktopProtocol).                  *)
THEOREM AnswersAreLast == Spec => []QuietAfterAnswer
<1>1. TuiInv => QuietAfterAnswer
  <2> SUFFICES ASSUME TuiInv, NEW i \in DOMAIN replies, replies[i].op = "final",
                      NEW r, r = replies[i].id
               PROVE  /\ procs[r] \subseteq {"helper"}
                      /\ procs[r] # {} => helped(r) /\ ~replies[i].ok
                      /\ \A j \in i + 1 .. Len(replies) : replies[j].id # r
    BY DEF QuietAfterAnswer
  <2>1. /\ DOMAIN replies = 1 .. Len(replies) /\ Len(replies) \in Nat
        /\ r \in Requests
    <3>1. replies \in Seq(Reply)
      BY DEF TuiInv, TypeOK
    <3>2. /\ DOMAIN replies = 1 .. Len(replies) /\ Len(replies) \in Nat
          /\ replies[i] \in Reply
      BY <3>1, LenProperties, ElementOfSeq
    <3> QED BY <3>2 DEF Reply
  <2>2. Answered(r)
    BY DEF Answered
  <2>3. procs[r] \ {"helper"} = {} /\ ("helper" \in procs[r] => helped(r))
    BY <2>1, <2>2 DEF TuiInv, Once, OnceOf, Gates, GateOf
  <2>4. replies[i].ok => procs[r] = {}
    BY <2>1 DEF TuiInv, Done, Told
  <2>5. \A j \in i + 1 .. Len(replies) : j \in DOMAIN replies /\ i < j
    BY <2>1
  <2> QED BY <2>3, <2>4, <2>5 DEF TuiInv, AnsweredLast
<1> QED BY <1>1, TuiInvariant, PTL

(* A status request, a lifecycle command and a setup that succeeded, where *)
(* not cut short, are answered with what was read after the last effect of *)
(* any request the bridge had in hand, never with what was read before it, *)
(* whatever other requests do meanwhile (request, refresh).                *)
THEOREM RepliesShowChange == Spec => ReplyShowsChange
<1>1. TuiInv /\ [Next]_vars
        => [\A r \in Requests :
              /\ work[r].pc = "reply" /\ work[r].ctx = "open" /\ observes(r)
              /\ work'[r].pc = "release"
              => shown # "stale"]_vars
  BY DEF TuiInv, Fresh
<1> QED BY <1>1, TuiInvariant, PTL DEF Spec, ReplyShowsChange
==============================================================================
