------------------------------ MODULE ServerChecks ------------------------------
(***************************************************************************)
(* A batch of checks, or of speed tests: workers take servers from a       *)
(* channel, measure them through a proxy of their own and tell each stage  *)
(* to the reader of the command's output.  A check publishes what it found *)
(* when all are done, a speed test each server before it calls it          *)
(* complete; both give up when the catalog was changed by somebody else.   *)
(*                                                                         *)
(* Publications are one step here: ServerCatalog has their files.          *)
(***************************************************************************)
EXTENDS Naturals, Sequences

CONSTANTS
  Batch,      \* the servers asked for, in order
  Quic,       \* those of them that are reached by a proxy only
  Workers,
  NoOne,      \* no worker, no frame, no answer
  Main,       \* the command's own goroutine
  Hazards,    \* "cancel", "io" (an output or a publication fails), "kill",
              \* "rival" (another command publishes)
  MaxFaults   \* bound on them

Servers == {Batch[i] : i \in DOMAIN Batch}

Found   == [ping : {"untested", "ready", "failed"},
            availability : {"untested", "ready", "failed"}, ok : BOOLEAN]
Unknown == [ping |-> "untested", availability |-> "untested", ok |-> FALSE]
Failed  == [Unknown EXCEPT !.ping = "failed"]
Rows    == [by : {"earlier", "batch", "other"}, result : Found]
Frames  == [server : Servers, stage : 1 .. 4, result : Found]

ASSUME BatchShape ==
  /\ Batch \in Seq(Servers) /\ Batch # <<>> /\ Quic \subseteq Servers
  /\ \A i, k \in DOMAIN Batch : Batch[i] = Batch[k] => i = k
  /\ {NoOne, Main} \cap Workers = {} /\ NoOne # Main
  /\ NoOne \notin Servers \cup Frames \cup {"ok", "refused"}
  /\ MaxFaults \in Nat

VARIABLES
  kind,       \* "check" or "speed"
  context,    \* "live" or "done"
  main,       \* where the command's own goroutine is
  jobs,       \* servers not yet handed out
  worker,     \* of each worker: its server, what it found, what it has to tell
  slot,       \* who downloads
  publisher,  \* who holds publicationMu
  failed,     \* publicationErr is set
  holder,     \* of the state lock
  catalog,    \* its version, and what it says of each server
  baseline,   \* the version that the batch goes on from
  results,    \* what checkNodes returns
  reader,     \* what the CheckStream at the other end has seen
  faults

progress  == <<main, jobs, results>>
published == <<catalog, baseline, failed>>
locks     == <<slot, publisher, holder>>
vars == <<kind, context, progress, worker, locks, published, reader, faults>>

row(by, r)  == [by |-> by, result |-> r]
measured(r) == row("batch", r)

Stage == {"idle", "ping", "proxy", "site", "slot", "download", "done", "publish", "lock",
          "write", "unlock", "exited"}
WorkerState ==
  [pc : Stage, server : Servers \cup {NoOne}, result : Found, frame : Frames \cup {NoOne}]
Idle == [pc |-> "idle", server |-> NoOne, result |-> Unknown, frame |-> NoOne]

Versions == [version : Nat, rows : [Servers -> Rows]]
Readers  == [refused : BOOLEAN, answer : {NoOne, "ok", "refused"},
             heard : [Servers -> [stage : 0 .. 4, result : Found]]]

TypeOK ==
  /\ kind \in {"check", "speed"} /\ context \in {"live", "done"}
  /\ main \in {"feed", "wait", "final", "write", "ok", "refused", "ended"}
  /\ jobs \in {SubSeq(Batch, i, Len(Batch)) : i \in 1 .. Len(Batch) + 1}
  /\ worker \in [Workers -> WorkerState]
  /\ \A w \in Workers :
       /\ (slot = w <=> worker[w].pc = "download")
       /\ (publisher = w <=> worker[w].pc \in {"lock", "write", "unlock"})
       /\ (holder = w <=> worker[w].pc \in {"write", "unlock"})
       /\ \A v \in Workers \ {w} :
            worker[v].server = worker[w].server => worker[w].server = NoOne
  /\ holder = Main => main \in {"write", "ok", "refused"}
  /\ catalog \in Versions
  /\ baseline \in 0 .. catalog.version /\ failed \in BOOLEAN
  /\ results \in [Servers -> Found]
  /\ reader \in Readers
  /\ faults \in 0 .. MaxFaults

Fault(h) == h \in Hazards /\ faults < MaxFaults /\ faults' = faults + 1

(***************************************************************************)
(* The reader: CheckStream.line.  Each server's stages go up, and each     *)
(* frame's evidence is complete.                                           *)
(***************************************************************************)
acceptable(f) ==
  /\ reader.answer = NoOne
  /\ f.stage > reader.heard[f.server].stage
  /\ (f.result.ping = "untested" <=> f.stage = 1)
  /\ f.stage =< 2 => f.result.availability = "untested"
  /\ f.stage = 3 => f.result.ping = "ready" /\ f.result.availability # "untested"
  /\ f.stage < 4 => ~f.result.ok
  /\ f.result.ping = "failed" => f.result.availability = "untested"

Line(f) ==
  reader' = IF acceptable(f)
              THEN [reader EXCEPT !.heard[f.server] = [stage |-> f.stage, result |-> f.result]]
              ELSE [reader EXCEPT !.refused = TRUE]

(***************************************************************************)
(* A worker.  It looks at the context, then waits for outputMu and writes  *)
(* the frame: what is cancelled in between is still told.                  *)
(***************************************************************************)
At(w, pc) == worker[w].pc = pc /\ worker[w].frame = NoOne

frameOf(w, stage, r) ==
  IF context = "live" THEN [server |-> worker[w].server, stage |-> stage, result |-> r]
  ELSE NoOne

Silently(w, pc, r) ==
  worker' = [worker EXCEPT ![w].pc = pc, ![w].result = r]
Telling(w, pc, r, stage) ==
  worker' = [worker EXCEPT ![w].pc = pc, ![w].result = r, ![w].frame = frameOf(w, stage, r)]

(* An output that cannot be written ends the batch.                        *)
Encode(w) ==
  /\ worker[w].frame # NoOne
  /\ worker' = [worker EXCEPT ![w].frame = NoOne]
  /\ \/ Line(worker[w].frame) /\ UNCHANGED <<context, faults>>
     \/ Fault("io") /\ context' = "done" /\ UNCHANGED reader
  /\ UNCHANGED <<kind, progress, locks, published>>

(* The feeder gives the next job to any worker that waits for one.         *)
needsProxyFirst(s) == kind = "speed" /\ s \in Quic

Take(w) ==
  /\ main = "feed" /\ jobs # <<>> /\ At(w, "idle")
  /\ jobs' = Tail(jobs)
  /\ worker' = [worker EXCEPT ![w] =
       IF context = "done" THEN [Idle EXCEPT !.pc = "exited"]
       ELSE [pc |-> IF needsProxyFirst(Head(jobs)) THEN "proxy" ELSE "ping",
             server |-> Head(jobs), result |-> Failed,
             frame |-> [server |-> Head(jobs), stage |-> 1, result |-> Unknown]]]
  /\ UNCHANGED <<kind, context, main, results, locks, published, reader, faults>>

WorkerEnds(w) ==
  /\ main # "feed" /\ At(w, "idle")
  /\ Silently(w, "exited", Unknown)
  /\ UNCHANGED <<kind, context, progress, locks, published, reader, faults>>

(* checkNode and speedNodeUsing, one stage after the other.                *)
Ping(w) ==
  /\ At(w, "ping")
  /\ \/ Telling(w, "done", Failed, 2)
     \/ /\ context = "live"
        /\ Telling(w, IF kind = "speed" /\ worker[w].server \notin Quic THEN "proxy" ELSE "site",
                   [Failed EXCEPT !.ping = "ready"], 2)
  /\ UNCHANGED <<kind, context, progress, locks, published, reader, faults>>

Proxy(w) ==
  /\ At(w, "proxy")
  /\ \/ Silently(w, "done", worker[w].result)
     \/ Silently(w, IF worker[w].server \in Quic THEN "ping" ELSE "site", worker[w].result)
  /\ UNCHANGED <<kind, context, progress, locks, published, reader, faults>>

(* Mutant: the download is told when its slot is asked for, and again.     *)
SiteEager(w) ==
  /\ At(w, "site")
  /\ \E answer \in {"ready", "failed"} :
       LET r == [worker[w].result EXCEPT !.availability = answer] IN
       IF kind = "speed" THEN Telling(w, "slot", r, 3) ELSE Silently(w, "done", r)
  /\ UNCHANGED <<kind, context, progress, locks, published, reader, faults>>

Site(w) ==
  /\ At(w, "site")
  /\ \E answer \in {"ready", "failed"} :
       Silently(w, IF kind = "speed" THEN "slot" ELSE "done",
                [worker[w].result EXCEPT !.availability = answer])
  /\ UNCHANGED <<kind, context, progress, locks, published, reader, faults>>

(* Mutant: the slot is not waited for.                                     *)
SlotShared(w) ==
  /\ At(w, "slot")
  /\ slot' = w /\ Telling(w, "download", worker[w].result, 3)
  /\ UNCHANGED <<kind, context, progress, publisher, holder, published, reader, faults>>

(* One download at a time, for all workers.                                *)
Slot(w) ==
  /\ At(w, "slot")
  /\ IF slot = NoOne /\ context = "live"
       THEN slot' = w /\ Telling(w, "download", worker[w].result, 3)
       ELSE context = "done" /\ Silently(w, "done", worker[w].result) /\ UNCHANGED slot
  /\ UNCHANGED <<kind, context, progress, publisher, holder, published, reader, faults>>

Download(w) ==
  /\ At(w, "download") /\ slot' = NoOne
  /\ \E ok \in BOOLEAN : Silently(w, "done", [worker[w].result EXCEPT !.ok = ok])
  /\ UNCHANGED <<kind, context, progress, publisher, holder, published, reader, faults>>

Rest(w) == worker' = [worker EXCEPT ![w] = Idle]

(* Mutant: a speed test is called complete before it is published.         *)
CompletedEarly(w) ==
  /\ At(w, "done")
  /\ results' = [results EXCEPT ![worker[w].server] = worker[w].result]
  /\ IF context = "done" THEN Rest(w)
     ELSE IF kind = "check"
       THEN worker' = [worker EXCEPT ![w] = [Idle EXCEPT !.frame = frameOf(w, 4, worker[w].result)]]
       ELSE Telling(w, "publish", worker[w].result, 4)
  /\ UNCHANGED <<kind, context, main, jobs, locks, published, reader, faults>>

(* A check tells what it found, a speed test publishes it first.           *)
Completed(w) ==
  /\ At(w, "done")
  /\ results' = [results EXCEPT ![worker[w].server] = worker[w].result]
  /\ IF context = "done" THEN Rest(w)
     ELSE IF kind = "check"
       THEN worker' = [worker EXCEPT ![w] = [Idle EXCEPT !.frame = frameOf(w, 4, worker[w].result)]]
       ELSE Silently(w, "publish", worker[w].result)
  /\ UNCHANGED <<kind, context, main, jobs, locks, published, reader, faults>>

(***************************************************************************)
(* The publication of one server: publish, in runBrowserSpeedBatch.        *)
(***************************************************************************)
BeginPublish(w) ==
  /\ At(w, "publish") /\ publisher = NoOne
  /\ IF failed \/ context = "done"
       THEN Rest(w) /\ UNCHANGED publisher
       ELSE Silently(w, "lock", worker[w].result) /\ publisher' = w
  /\ UNCHANGED <<kind, context, progress, slot, holder, published, reader, faults>>

GivesUp(w) ==
  /\ Rest(w) /\ publisher' = NoOne
  /\ holder' = IF holder = w THEN NoOne ELSE holder
  /\ failed' = TRUE /\ context' = "done"

(* Under the lock: what others left is recovered, then compared; a server  *)
(* transaction that is pending counts as a change.                         *)
Lock(w) ==
  /\ At(w, "lock")
  /\ \/ context = "done" /\ GivesUp(w)
     \/ holder = NoOne /\ catalog.version # baseline /\ GivesUp(w)
     \/ /\ holder = NoOne /\ catalog.version = baseline
        /\ holder' = w /\ Silently(w, "write", worker[w].result)
        /\ UNCHANGED <<context, publisher, failed>>
  /\ UNCHANGED <<kind, progress, slot, catalog, baseline, reader, faults>>

Write(w) ==
  /\ At(w, "write")
  /\ catalog' = [version |-> catalog.version + 1,
                 rows |-> [catalog.rows EXCEPT ![worker[w].server] = measured(worker[w].result)]]
  /\ baseline' = catalog'.version
  /\ Telling(w, "unlock", worker[w].result, 4)
  /\ UNCHANGED <<kind, context, progress, locks, failed, reader, faults>>

(* Undone, or done and not read back.                                      *)
WriteFails(w) ==
  /\ At(w, "write") /\ ((context = "done" /\ UNCHANGED faults) \/ Fault("io"))
  /\ GivesUp(w)
  /\ \/ UNCHANGED catalog
     \/ catalog' = [version |-> catalog.version + 1,
                    rows |-> [catalog.rows EXCEPT ![worker[w].server] = measured(worker[w].result)]]
  /\ UNCHANGED <<kind, progress, slot, baseline, reader>>

Unlock(w) ==
  /\ At(w, "unlock")
  /\ Rest(w) /\ publisher' = NoOne /\ holder' = NoOne
  /\ UNCHANGED <<kind, context, progress, slot, published, reader, faults>>

(***************************************************************************)
(* The command: checkNodes feeds and waits, then the batch is answered.    *)
(***************************************************************************)
(* Mutant: the feeder does not look at the context.                        *)
CloseDeaf ==
  /\ main = "feed" /\ jobs = <<>>
  /\ main' = "wait"
  /\ UNCHANGED <<kind, context, jobs, results, worker, locks, published, reader, faults>>

Close ==
  /\ main = "feed" /\ (jobs = <<>> \/ context = "done")
  /\ main' = "wait"
  /\ UNCHANGED <<kind, context, jobs, results, worker, locks, published, reader, faults>>

Wait ==
  /\ main = "wait" /\ \A w \in Workers : At(w, "exited")
  /\ main' = IF failed \/ context = "done" THEN "refused" ELSE "final"
  /\ UNCHANGED <<kind, context, jobs, results, worker, locks, published, reader, faults>>

Final ==
  /\ main = "final"
  /\ \/ /\ context = "done"
        /\ main' = "refused" /\ UNCHANGED holder
     \/ /\ holder = NoOne /\ holder' = Main
        /\ main' = IF catalog.version # baseline THEN "refused"
                   ELSE IF kind = "check" THEN "write" ELSE "ok"
  /\ UNCHANGED <<kind, context, jobs, results, worker, slot, publisher, published, reader, faults>>

Publish ==
  /\ main = "write"
  /\ main' = "ok"
  /\ catalog' = [version |-> catalog.version + 1, rows |-> [s \in Servers |-> measured(results[s])]]
  /\ UNCHANGED <<kind, context, jobs, results, worker, locks, baseline, failed, reader, faults>>

PublishFails ==
  /\ main = "write" /\ ((context = "done" /\ UNCHANGED faults) \/ Fault("io"))
  /\ main' = "refused"
  /\ UNCHANGED <<kind, context, jobs, results, worker, locks, published, reader>>

Answer ==
  /\ main \in {"ok", "refused"}
  /\ main' = "ended"
  /\ reader' = IF reader.answer = NoOne THEN [reader EXCEPT !.answer = main]
               ELSE [reader EXCEPT !.refused = TRUE]
  /\ holder' = NoOne
  /\ UNCHANGED <<kind, context, jobs, results, worker, slot, publisher, published, faults>>

(***************************************************************************)
(* Around it: the command is cancelled, or killed (by its reader's end     *)
(* too, with SIGPIPE); others publish.                                     *)
(***************************************************************************)
Cancel ==
  /\ Fault("cancel") /\ context = "live" /\ main # "ended"
  /\ context' = "done"
  /\ UNCHANGED <<kind, progress, worker, locks, published, reader>>

Kill ==
  /\ Fault("kill") /\ main # "ended"
  /\ main' = "ended"
  /\ worker' = [w \in Workers |-> [Idle EXCEPT !.pc = "exited"]]
  /\ slot' = NoOne /\ publisher' = NoOne /\ holder' = NoOne
  /\ UNCHANGED <<kind, context, jobs, results, published, reader>>

Rival ==
  /\ Fault("rival") /\ holder = NoOne
  /\ \E S \in {{Batch[1]}, Servers} :
       catalog' = [version |-> catalog.version + 1,
                   rows |-> [s \in Servers |->
                              IF s \in S THEN row("other", Unknown) ELSE catalog.rows[s]]]
  /\ UNCHANGED <<kind, context, progress, worker, locks, baseline, failed, reader>>

(***************************************************************************)
(* The specification.                                                      *)
(***************************************************************************)
Init ==
  /\ kind \in {"check", "speed"} /\ context = "live" /\ main = "feed" /\ jobs = Batch
  /\ worker = [w \in Workers |-> Idle]
  /\ slot = NoOne /\ publisher = NoOne /\ holder = NoOne /\ failed = FALSE
  /\ catalog = [version |-> 1, rows |-> [s \in Servers |-> row("earlier", Unknown)]]
  /\ baseline = 1
  /\ results = [s \in Servers |-> Unknown]
  /\ reader = [refused |-> FALSE, answer |-> NoOne,
               heard |-> [s \in Servers |-> [stage |-> 0, result |-> Unknown]]]
  /\ faults = 0

Measuring(w) ==
  \/ Encode(w) \/ Take(w) \/ WorkerEnds(w) \/ Ping(w) \/ Proxy(w) \/ Site(w) \/ Slot(w)
  \/ Download(w) \/ Completed(w)
Publishing(w) == BeginPublish(w) \/ Lock(w) \/ Write(w) \/ WriteFails(w) \/ Unlock(w)
Command == Close \/ Wait \/ Final \/ Publish \/ PublishFails \/ Answer

Steps == Command \/ \E w \in Workers : Measuring(w) \/ Publishing(w)

Next == Steps \/ Cancel \/ Kill \/ Rival

Spec == Init /\ [][Next]_vars

(* The goroutines that can go on do: every probe, lock and write has a     *)
(* deadline or ends by itself.                                             *)
FairSpec == Spec /\ WF_vars(Steps)

(***************************************************************************)
(* Properties.                                                             *)
(***************************************************************************)

(* The reader refuses no frame of its own batch, whatever the workers, a   *)
(* cancellation and the answer race for: a refused frame fails the whole   *)
(* batch (CheckStream.Write, captureChecks).                               *)
FramesAccepted == ~reader.refused

(* "Each completion is durably published before its progress event": what  *)
(* the reader heard of a speed test is in the catalog, unless others wrote *)
(* there since; an "ok" says that all of it is; and what others wrote is   *)
(* never overwritten by what was measured before (runBrowserSpeedBatch,    *)
(* runBrowserCheckBatch).                                                  *)
CompletedIsPublished ==
  /\ [](kind = "speed" =>
          \A s \in Servers : reader.heard[s].stage = 4 =>
            catalog.rows[s] = measured(reader.heard[s].result) \/ catalog.rows[s].by = "other")
  /\ [](main = "ok" =>
          \A s \in Servers :
            reader.heard[s].stage = 4 /\ catalog.rows[s] = measured(reader.heard[s].result))
  /\ [][\A s \in Servers : catalog.rows[s].by = "other" => catalog'.rows[s].by = "other"]_vars

(* Every batch ends: also when it is cancelled, by its user, an error or a *)
(* publication of others, with workers at any stage.                       *)
ChecksEnd == <>(main = "ended")
================================================================================
