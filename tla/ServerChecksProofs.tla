--------------------------- MODULE ServerChecksProofs ---------------------------
(***************************************************************************)
(* Theorems about ServerChecks, for batches of any servers, any number of  *)
(* workers and any number of faults.                                       *)
(***************************************************************************)
EXTENDS ServerChecks, SequenceTheorems, TLAPS

-----------------------------------------------------------------------------
(* The invariants.                                                         *)

Elements(q) == {q[k] : k \in DOMAIN q}
Left == Elements(jobs)

(* A worker has to do with a server until its last frame is told.          *)
Concerns(w, s) ==
  \/ worker[w].server = s
  \/ worker[w].frame # NoOne /\ worker[w].frame.server = s

(* An idle worker has no server, one that left has nothing to tell.        *)
Shape(w) ==
  /\ (worker[w].server = NoOne <=> worker[w].pc \in {"idle", "exited"})
  /\ (worker[w].pc = "exited" => worker[w].frame = NoOne)
  /\ ((worker[w].frame # NoOne /\ worker[w].pc # "idle") =>
        worker[w].frame.server = worker[w].server)

(* Each server is with one worker, and until then nobody heard of it.      *)
Apart ==
  /\ \A w \in Workers : Shape(w)
  /\ \A v, w \in Workers : \A s \in Servers : (Concerns(v, s) /\ Concerns(w, s)) => v = w
  /\ \A s \in Left : reader.heard[s].stage = 0 /\ \A w \in Workers : ~Concerns(w, s)

(* The stages a worker has told at most, by where it is.                   *)
Told(w) ==
  CASE worker[w].pc = "ping" -> 1
    [] worker[w].pc = "proxy" -> (IF worker[w].server \in Quic THEN 1 ELSE 2)
    [] worker[w].pc \in {"site", "slot"} -> 2
    [] worker[w].pc \in {"download", "done", "publish", "lock", "write"} -> 3
    [] OTHER -> 4

Reached(r) == r.ping = "ready" /\ r.availability = "untested" /\ ~r.ok
Answered(r) == r.ping = "ready" /\ r.availability # "untested" /\ ~r.ok
Measured(r) == r.ping # "untested" /\ (r.ping = "failed" => r.availability = "untested")

(* A frame's evidence is complete.                                         *)
Complete(f) ==
  /\ f.stage = 1 => f.result = Unknown
  /\ f.stage = 2 => (f.result = Failed \/ Reached(f.result))
  /\ f.stage = 3 => Answered(f.result)
  /\ f.stage = 4 => Measured(f.result)

Tells(w) ==
  /\ worker[w].server # NoOne => reader.heard[worker[w].server].stage =< Told(w)
  /\ worker[w].frame # NoOne =>
       /\ reader.heard[worker[w].frame.server].stage < worker[w].frame.stage
       /\ worker[w].frame.stage =< Told(w)
       /\ worker[w].pc = "idle" => (worker[w].frame.stage = 4 /\ kind = "check")
       /\ Complete(worker[w].frame)
  /\ worker[w].pc = "ping" => worker[w].result = Failed
  /\ worker[w].pc = "proxy" =>
       IF worker[w].server \in Quic THEN worker[w].result = Failed
                                    ELSE Reached(worker[w].result)
  /\ worker[w].pc = "site" => Reached(worker[w].result)
  /\ worker[w].pc \in {"slot", "download"} => Answered(worker[w].result)
  /\ worker[w].pc \in {"done", "publish", "lock", "write"} => Measured(worker[w].result)
  /\ worker[w].pc \in {"publish", "lock", "write", "unlock"} => kind = "speed"

Tellings == \A w \in Workers : Tells(w)

(* The command goes on when the workers are done, and is answered last.    *)
Waited ==
  /\ main \in {"final", "write", "ok", "refused", "ended"} =>
       \A w \in Workers : worker[w].pc = "exited" /\ worker[w].frame = NoOne
  /\ reader.answer # NoOne => main = "ended"
  /\ ~reader.refused

(* What a worker or the command is about to write over is the batch's own. *)
Baseline ==
  /\ catalog.version = baseline => \A s \in Servers : catalog.rows[s].by # "other"
  /\ \A w \in Workers : worker[w].pc \in {"write", "unlock"} => catalog.version = baseline
  /\ main = "write" => (holder = Main /\ kind = "check" /\ catalog.version = baseline)
  /\ main = "ok" => (holder = Main /\ (kind = "speed" => catalog.version = baseline))
  /\ holder \in Workers \cup {Main, NoOne}

Heard(s) ==
  /\ (kind = "speed" /\ reader.heard[s].stage = 4) =>
       (catalog.rows[s] = measured(reader.heard[s].result) \/ catalog.rows[s].by = "other")
  /\ (kind = "check" /\ reader.heard[s].stage = 4) => reader.heard[s].result = results[s]
ToldFrame(w) ==
  (worker[w].frame # NoOne /\ worker[w].frame.stage = 4) =>
    IF kind = "speed"
      THEN worker[w].pc = "unlock"
             /\ catalog.rows[worker[w].frame.server] = measured(worker[w].frame.result)
      ELSE worker[w].frame.result = results[worker[w].frame.server]
Published ==
  /\ \A s \in Servers : Heard(s)
  /\ \A w \in Workers : ToldFrame(w)
  /\ (main = "ok" /\ kind = "check") =>
       \A s \in Servers : catalog.rows[s] = measured(results[s])

(* What was published is told, unless the batch is given up.               *)
Completes(w) ==
  worker[w].pc = "unlock" =>
    IF worker[w].frame = NoOne
      THEN (context = "live" => reader.heard[worker[w].server].stage = 4)
      ELSE worker[w].frame.stage = 4

(* No server is lost while the batch is live.                              *)
Everyone ==
  /\ failed => context = "done"
  /\ (context = "live" /\ main = "wait") => jobs = <<>>
  /\ (context = "live" /\ main \in {"feed", "wait"}) =>
       \A s \in Servers :
         s \in Left \/ reader.heard[s].stage = 4 \/ \E w \in Workers : Concerns(w, s)
  /\ \A w \in Workers : Completes(w)
  /\ main \in {"final", "write", "ok"} => \A s \in Servers : reader.heard[s].stage = 4

-----------------------------------------------------------------------------
(* The data.                                                               *)

LEMMA Constants ==
  /\ Unknown \in Found /\ Failed \in Found /\ Idle \in WorkerState
  /\ Idle.pc = "idle" /\ Idle.server = NoOne /\ Idle.frame = NoOne
  /\ \A r \in Found : measured(r) \in Rows /\ measured(r).by = "batch"
  /\ row("other", Unknown) \in Rows /\ row("other", Unknown).by = "other"
  /\ row("earlier", Unknown) \in Rows /\ row("earlier", Unknown).by = "earlier"
  /\ NoOne \notin Servers /\ NoOne \notin Frames /\ NoOne \notin Workers
  /\ Main \notin Workers /\ NoOne # Main
<1>1. Unknown \in Found /\ Failed \in Found
  BY DEF Unknown, Failed, Found
<1>2. Idle \in WorkerState
  BY <1>1 DEF Idle, WorkerState, Stage
<1> QED BY <1>1, <1>2, BatchShape DEF Idle, measured, row, Rows

(* The results that the stages come to.                                    *)
LEMMA Results ==
  ASSUME NEW r \in Found
  PROVE  /\ [Failed EXCEPT !.ping = "ready"] \in Found
         /\ Reached([Failed EXCEPT !.ping = "ready"])
         /\ \A a \in {"ready", "failed"} :
              /\ [r EXCEPT !.availability = a] \in Found
              /\ Reached(r) => Answered([r EXCEPT !.availability = a])
         /\ \A ok \in BOOLEAN :
              /\ [r EXCEPT !.ok = ok] \in Found
              /\ Answered(r) => Measured([r EXCEPT !.ok = ok])
         /\ (r = Failed \/ Reached(r) \/ Answered(r)) => Measured(r)
<1>1. [Failed EXCEPT !.ping = "ready"] \in Found /\ Reached([Failed EXCEPT !.ping = "ready"])
  BY DEF Failed, Unknown, Found, Reached
<1>2. ASSUME NEW a \in {"ready", "failed"}
      PROVE  /\ [r EXCEPT !.availability = a] \in Found
             /\ Reached(r) => Answered([r EXCEPT !.availability = a])
  BY <1>2 DEF Found, Reached, Answered
<1>3. ASSUME NEW ok \in BOOLEAN
      PROVE  /\ [r EXCEPT !.ok = ok] \in Found
             /\ Answered(r) => Measured([r EXCEPT !.ok = ok])
  BY <1>3 DEF Found, Answered, Measured
<1>4. (r = Failed \/ Reached(r) \/ Answered(r)) => Measured(r)
  BY DEF Failed, Unknown, Reached, Answered, Measured
<1> QED BY <1>1, <1>2, <1>3, <1>4

LEMMA ServersOfBatch ==
  /\ Batch \in Seq(Servers) /\ Len(Batch) \in Nat /\ Len(Batch) > 0
  /\ DOMAIN Batch = 1 .. Len(Batch)
  /\ Servers = {Batch[k] : k \in 1 .. Len(Batch)}
  /\ \A i, k \in 1 .. Len(Batch) : Batch[i] = Batch[k] => i = k
<1>1. Batch \in Seq(Servers) /\ Batch # <<>>
  BY BatchShape
<1>2. Len(Batch) \in Nat /\ Len(Batch) # 0 /\ DOMAIN Batch = 1 .. Len(Batch)
  BY <1>1, EmptySeq, LenProperties
<1> QED BY <1>1, <1>2, BatchShape DEF Servers

Remaining == {SubSeq(Batch, i, Len(Batch)) : i \in 1 .. Len(Batch) + 1}

LEMMA RemainingElements ==
  ASSUME NEW i \in 1 .. Len(Batch) + 1, NEW q, q = SubSeq(Batch, i, Len(Batch))
  PROVE  /\ Elements(q) = {Batch[k] : k \in i .. Len(Batch)}
         /\ q = <<>> <=> i = Len(Batch) + 1
<1>1. Len(Batch) \in Nat /\ i \in Int /\ Batch \in Seq(Servers)
  BY ServersOfBatch
<1>2. \A k \in i .. Len(Batch) : Batch[k] \in Servers
  <2> SUFFICES ASSUME NEW k \in i .. Len(Batch) PROVE Batch[k] \in Servers
    OBVIOUS
  <2>1. k \in 1 .. Len(Batch)
    BY <1>1
  <2> QED BY <2>1, ServersOfBatch
<1>3. /\ q \in Seq(Servers) /\ Len(q) = IF i =< Len(Batch) THEN Len(Batch) - i + 1 ELSE 0
      /\ \A k \in 1 .. Len(Batch) - i + 1 : q[k] = Batch[i + k - 1]
  BY <1>1, <1>2, SubSeqProperties
<1>4. DOMAIN q = 1 .. Len(Batch) - i + 1
  BY <1>1, <1>3, LenProperties
<1>5. ASSUME NEW k \in i .. Len(Batch) PROVE Batch[k] \in {q[n] : n \in DOMAIN q}
  <2>1. k - i + 1 \in 1 .. Len(Batch) - i + 1 /\ i + (k - i + 1) - 1 = k
    BY <1>1
  <2> QED BY <1>3, <1>4, <2>1
<1>6. ASSUME NEW n \in DOMAIN q PROVE q[n] \in {Batch[k] : k \in i .. Len(Batch)}
  <2>1. i + n - 1 \in i .. Len(Batch)
    BY <1>1, <1>4
  <2> QED BY <1>3, <1>4, <2>1
<1>7. q = <<>> <=> i = Len(Batch) + 1
  <2>1. (q = <<>>) <=> Len(q) = 0
    BY <1>3, EmptySeq
  <2> QED BY <1>1, <1>3, <2>1
<1> QED BY <1>5, <1>6, <1>7 DEF Elements

LEMMA LeftOfBatch ==
  ASSUME TypeOK
  PROVE  Left \subseteq Servers
<1>1. PICK i \in 1 .. Len(Batch) + 1 : jobs = SubSeq(Batch, i, Len(Batch))
  BY DEF TypeOK
<1>2. Left = {Batch[k] : k \in i .. Len(Batch)}
  BY <1>1, RemainingElements DEF Left
<1>3. Len(Batch) \in Nat /\ i \in Nat /\ i > 0
  BY ServersOfBatch
<1>4. \A k \in i .. Len(Batch) : k \in 1 .. Len(Batch)
  BY <1>3
<1> QED BY <1>2, <1>4, ServersOfBatch

(* The next job is one that nobody has, and the others stay left.          *)
LEMMA NextJob ==
  ASSUME jobs \in Remaining, jobs # <<>>, jobs' = Tail(jobs)
  PROVE  /\ Head(jobs) \in Left /\ Head(jobs) \in Servers
         /\ jobs' \in Remaining
         /\ Left = {Head(jobs)} \cup Left' /\ Head(jobs) \notin Left'
<1>1. PICK i \in 1 .. Len(Batch) + 1 : jobs = SubSeq(Batch, i, Len(Batch))
  BY DEF Remaining
<1>2. i \in 1 .. Len(Batch) /\ i + 1 \in 1 .. Len(Batch) + 1 /\ Len(Batch) \in i .. Len(Batch)
  BY <1>1, RemainingElements, ServersOfBatch
<1>3. Head(jobs) = Batch[i] /\ jobs' = SubSeq(Batch, i + 1, Len(Batch))
  BY <1>1, <1>2, ServersOfBatch, HeadTailOfSubSeq
<1>4. Left = {Batch[k] : k \in i .. Len(Batch)}
  BY <1>1, RemainingElements DEF Left
<1>5. Left' = {Batch[k] : k \in i + 1 .. Len(Batch)}
  BY <1>2, <1>3, RemainingElements DEF Left
<1>6. Batch[i] \notin {Batch[k] : k \in i + 1 .. Len(Batch)}
  BY <1>2, ServersOfBatch
<1>7. {Batch[k] : k \in i .. Len(Batch)} = {Batch[i]} \cup {Batch[k] : k \in i + 1 .. Len(Batch)}
  BY <1>2
<1> QED BY <1>2, <1>3, <1>4, <1>5, <1>6, <1>7, ServersOfBatch DEF Remaining

-----------------------------------------------------------------------------
(* What the steps of a worker do to it.                                    *)

Others(w) == \A v \in Workers \ {w} : worker'[v] = worker[v]
Typed == worker \in [Workers -> WorkerState]

LEMMA SilentlyDoes ==
  ASSUME Typed, NEW w \in Workers, NEW pc \in Stage, NEW r \in Found, Silently(w, pc, r)
  PROVE  /\ Typed' /\ Others(w)
         /\ worker'[w].pc = pc /\ worker'[w].result = r
         /\ worker'[w].server = worker[w].server /\ worker'[w].frame = worker[w].frame
<1>1. worker' = [worker EXCEPT ![w] = [worker[w] EXCEPT !.pc = pc, !.result = r]]
  BY DEF Silently, Typed
<1>2. worker[w] \in WorkerState
  BY DEF Typed
<1> QED BY <1>1, <1>2 DEF Typed, Others, WorkerState

(* A worker that becomes what the step makes of it.                        *)
LEMMA Becomes ==
  ASSUME Typed, NEW w \in Workers, NEW x \in WorkerState,
         worker' = [worker EXCEPT ![w] = x]
  PROVE  Typed' /\ Others(w) /\ worker'[w] = x
BY DEF Typed, Others

NewFrame(w, k, r) ==
  /\ worker'[w].frame = NoOne => context = "done"
  /\ worker'[w].frame # NoOne =>
       /\ worker'[w].frame.server = worker[w].server
       /\ worker'[w].frame.stage = k /\ worker'[w].frame.result = r

LEMMA FrameOf ==
  ASSUME context \in {"live", "done"},
         NEW w, worker[w].server \in Servers, NEW k \in 1 .. 4, NEW r \in Found
  PROVE  /\ frameOf(w, k, r) \in Frames \cup {NoOne}
         /\ frameOf(w, k, r) = NoOne => context = "done"
         /\ frameOf(w, k, r) # NoOne =>
              /\ frameOf(w, k, r).server = worker[w].server
              /\ frameOf(w, k, r).stage = k /\ frameOf(w, k, r).result = r
<1>1. [server |-> worker[w].server, stage |-> k, result |-> r] \in Frames
  BY DEF Frames
<1>2. NoOne \notin Frames
  BY Constants
<1>3. CASE context = "live"
  <2>1. frameOf(w, k, r) = [server |-> worker[w].server, stage |-> k, result |-> r]
    BY <1>3 DEF frameOf
  <2> QED BY <1>1, <1>2, <2>1
<1>4. CASE context # "live"
  <2>1. frameOf(w, k, r) = NoOne
    BY <1>4 DEF frameOf
  <2> QED BY <1>4, <2>1
<1> QED BY <1>3, <1>4

LEMMA TellingDoes ==
  ASSUME Typed, context \in {"live", "done"}, NEW w \in Workers,
         worker[w].server \in Servers, NEW pc \in Stage, NEW r \in Found, NEW k \in 1 .. 4,
         Telling(w, pc, r, k)
  PROVE  /\ Typed' /\ Others(w)
         /\ worker'[w].pc = pc /\ worker'[w].result = r
         /\ worker'[w].server = worker[w].server /\ NewFrame(w, k, r)
<1>1. PICK f \in Frames \cup {NoOne} : f = frameOf(w, k, r)
  BY FrameOf
<1>2. worker[w] \in WorkerState
  BY DEF Typed
<1> DEFINE x == [worker[w] EXCEPT !.pc = pc, !.result = r, !.frame = f]
<1>3. x \in WorkerState
  BY <1>1, <1>2 DEF WorkerState
<1>4. worker' = [worker EXCEPT ![w] = x]
  BY <1>1 DEF Telling, Typed
<1>5. x.pc = pc /\ x.result = r /\ x.server = worker[w].server /\ x.frame = f
  BY <1>2 DEF WorkerState
<1> HIDE DEF x
<1>6. Typed' /\ Others(w) /\ worker'[w] = x
  BY <1>3, <1>4, Becomes
<1> QED BY <1>1, <1>5, <1>6, FrameOf DEF NewFrame

LEMMA WorksOnServer ==
  ASSUME TypeOK, Apart, NEW w \in Workers, worker[w].pc \notin {"idle", "exited"}
  PROVE  worker[w].server \in Servers /\ worker[w].result \in Found
BY DEF TypeOK, Apart, Shape, WorkerState

LEMMA EncodeDoes ==
  ASSUME TypeOK, Apart, NEW w \in Workers, Encode(w)
  PROVE  /\ Typed' /\ Others(w)
         /\ worker[w].frame \in Frames /\ worker'[w].frame = NoOne
         /\ worker'[w].pc = worker[w].pc /\ worker'[w].server = worker[w].server
         /\ worker'[w].result = worker[w].result
         /\ \/ Line(worker[w].frame) /\ context' = context /\ faults' = faults
            \/ reader' = reader /\ context' = "done" /\ faults' \in 0 .. MaxFaults
         /\ UNCHANGED <<kind, progress, locks, published>>
<1>1. worker[w] \in WorkerState /\ worker[w].frame # NoOne
  BY DEF Encode, TypeOK
<1> DEFINE x == [worker[w] EXCEPT !.frame = NoOne]
<1>2. /\ x \in WorkerState /\ x.frame = NoOne /\ x.pc = worker[w].pc
      /\ x.server = worker[w].server /\ x.result = worker[w].result
  BY <1>1 DEF WorkerState
<1>3. worker' = [worker EXCEPT ![w] = x]
  BY DEF Encode, TypeOK
<1> HIDE DEF x
<1>4. Typed' /\ Others(w) /\ worker'[w] = x
  BY <1>2, <1>3, Becomes DEF Typed, TypeOK
<1>5. worker[w].frame \in Frames
  BY <1>1 DEF WorkerState
<1>6. Fault("io") => faults' \in 0 .. MaxFaults
  BY BatchShape DEF Fault, TypeOK
<1> QED BY <1>2, <1>4, <1>5, <1>6 DEF Encode

LEMMA LineDoes ==
  ASSUME TypeOK, NEW f \in Frames, Line(f)
  PROVE  /\ reader' \in Readers /\ reader'.answer = reader.answer
         /\ \/ /\ acceptable(f) /\ reader'.refused = reader.refused
               /\ reader'.heard[f.server].stage = f.stage
               /\ reader'.heard[f.server].result = f.result
               /\ \A s \in Servers \ {f.server} : reader'.heard[s] = reader.heard[s]
            \/ ~acceptable(f)
<1>1. f.server \in Servers /\ f.stage \in 0 .. 4 /\ f.result \in Found
  BY DEF Frames
<1>2. reader \in Readers
  BY DEF TypeOK
<1>3. CASE acceptable(f)
  BY <1>1, <1>2, <1>3 DEF Line, Readers
<1>4. CASE ~acceptable(f)
  BY <1>2, <1>4 DEF Line, Readers
<1> QED BY <1>3, <1>4

LEMMA TakeDoes ==
  ASSUME TypeOK, NEW w \in Workers, Take(w)
  PROVE  /\ main = "feed" /\ jobs # <<>> /\ jobs' = Tail(jobs)
         /\ Typed' /\ Others(w)
         /\ worker[w].pc = "idle" /\ worker[w].frame = NoOne
         /\ \/ /\ context = "done" /\ worker'[w].pc = "exited"
               /\ worker'[w].server = NoOne /\ worker'[w].frame = NoOne
            \/ /\ context = "live"
               /\ \/ worker'[w].pc = "proxy" /\ Head(jobs) \in Quic /\ kind = "speed"
                  \/ worker'[w].pc = "ping"
               /\ worker'[w].server = Head(jobs) /\ worker'[w].result = Failed
               /\ worker'[w].frame \in Frames /\ worker'[w].frame.server = Head(jobs)
               /\ worker'[w].frame.stage = 1 /\ worker'[w].frame.result = Unknown
         /\ UNCHANGED <<kind, context, main, results, locks, published, reader, faults>>
<1>1. Head(jobs) \in Servers
  BY NextJob DEF Take, TypeOK, Remaining
<1>2. Typed
  BY DEF TypeOK, Typed
<1>3. CASE context = "done"
  <2> DEFINE x == [Idle EXCEPT !.pc = "exited"]
  <2>1. x \in WorkerState /\ x.pc = "exited" /\ x.server = NoOne /\ x.frame = NoOne
    BY Constants DEF Idle, WorkerState, Stage
  <2>2. worker' = [worker EXCEPT ![w] = x]
    BY <1>3 DEF Take
  <2> HIDE DEF x
  <2>3. Typed' /\ Others(w) /\ worker'[w] = x
    BY <1>2, <2>1, <2>2, Becomes
  <2>4. worker[w].pc = "idle" /\ worker[w].frame = NoOne
    BY DEF Take, At
  <2> QED BY <1>3, <2>1, <2>3, <2>4 DEF Take
<1>4. CASE context # "done"
  <2> DEFINE f == [server |-> Head(jobs), stage |-> 1, result |-> Unknown]
             x == [pc |-> IF needsProxyFirst(Head(jobs)) THEN "proxy" ELSE "ping",
                   server |-> Head(jobs), result |-> Failed, frame |-> f]
  <2>1. /\ f \in Frames /\ f.server = Head(jobs) /\ f.stage = 1 /\ f.result = Unknown
    BY <1>1, Constants DEF Frames
  <2> HIDE DEF f
  <2>2. /\ x.pc = IF needsProxyFirst(Head(jobs)) THEN "proxy" ELSE "ping"
        /\ x.server = Head(jobs) /\ x.result = Failed /\ x.frame = f
    OBVIOUS
  <2>3. x \in WorkerState
    BY <1>1, <2>1, Constants DEF WorkerState, Stage
  <2>4. worker' = [worker EXCEPT ![w] = x]
    BY <1>4 DEF Take, f
  <2>5. context = "live"
    BY <1>4 DEF TypeOK
  <2> HIDE DEF x
  <2>6. Typed' /\ Others(w) /\ worker'[w] = x
    BY <1>2, <2>3, <2>4, Becomes
  <2> QED BY <2>1, <2>2, <2>5, <2>6 DEF Take, At, needsProxyFirst
<1> QED BY <1>3, <1>4

LEMMA EndsDoes ==
  ASSUME TypeOK, Apart, NEW w \in Workers, WorkerEnds(w)
  PROVE  /\ main # "feed" /\ Typed' /\ Others(w)
         /\ worker[w].pc = "idle" /\ worker[w].frame = NoOne
         /\ worker'[w].pc = "exited" /\ worker'[w].server = NoOne
         /\ worker'[w].frame = NoOne
         /\ UNCHANGED <<kind, context, progress, locks, published, reader, faults>>
<1>1. Typed /\ worker[w] \in WorkerState /\ worker[w].server = NoOne
  BY DEF TypeOK, Typed, Apart, Shape, WorkerEnds, At
<1>2. "exited" \in Stage /\ Unknown \in Found
  BY Constants DEF Stage
<1> QED BY <1>1, <1>2, SilentlyDoes DEF WorkerEnds, At

(* What leaves the locks and the command alone.                            *)
Measures(w) ==
  /\ Typed' /\ Others(w) /\ worker[w].frame = NoOne
  /\ worker'[w].server = worker[w].server
  /\ UNCHANGED <<kind, context, progress, publisher, holder, published, reader, faults>>

LEMMA PingDoes ==
  ASSUME TypeOK, Apart, NEW w \in Workers, Ping(w)
  PROVE  /\ worker[w].pc = "ping" /\ Measures(w) /\ slot' = slot
         /\ NewFrame(w, 2, worker'[w].result)
         /\ \/ worker'[w].pc = "done" /\ worker'[w].result = Failed
            \/ /\ worker'[w].pc = "proxy" /\ Reached(worker'[w].result)
               /\ worker[w].server \notin Quic
            \/ worker'[w].pc = "site" /\ Reached(worker'[w].result)
<1>1. worker[w].pc = "ping" /\ worker[w].frame = NoOne /\ Typed /\ context \in {"live", "done"}
  BY DEF Ping, At, TypeOK, Typed
<1>2. worker[w].server \in Servers /\ worker[w] \in WorkerState
  BY <1>1, WorksOnServer DEF TypeOK
<1>3. "done" \in Stage /\ "proxy" \in Stage /\ "site" \in Stage /\ Failed \in Found
  BY Constants DEF Stage
<1>4. CASE Telling(w, "done", Failed, 2)
  <2>2. /\ Typed' /\ Others(w) /\ worker'[w].pc = "done" /\ worker'[w].result = Failed
        /\ worker'[w].server = worker[w].server /\ NewFrame(w, 2, Failed)
    BY <1>1, <1>2, <1>3, <1>4, TellingDoes
  <2>3. NewFrame(w, 2, worker'[w].result)
    BY <2>2 DEF NewFrame
  <2>4. Measures(w) /\ slot' = slot
    BY <1>1, <2>2 DEF Ping, Measures, locks
  <2> QED BY <1>1, <2>2, <2>3, <2>4
<1> DEFINE pc == IF kind = "speed" /\ worker[w].server \notin Quic THEN "proxy" ELSE "site"
<1>5. ASSUME Telling(w, pc, [Failed EXCEPT !.ping = "ready"], 2)
      PROVE  /\ Measures(w) /\ slot' = slot /\ worker'[w].pc = pc
             /\ NewFrame(w, 2, worker'[w].result) /\ Reached(worker'[w].result)
  <2>1. pc \in Stage /\ pc \in {"proxy", "site"}
    BY <1>3
  <2> HIDE DEF pc
  <2>2. /\ [Failed EXCEPT !.ping = "ready"] \in Found
        /\ Reached([Failed EXCEPT !.ping = "ready"])
    BY Results, Constants
  <2>3. PICK r \in Found : r = [Failed EXCEPT !.ping = "ready"] /\ Reached(r)
    BY <2>2
  <2>4. Telling(w, pc, r, 2)
    BY <1>5, <2>3
  <2> QED BY <1>1, <1>2, <1>3, <2>1, <2>3, <2>4, TellingDoes DEF Ping, Measures, locks
<1>6. Telling(w, "done", Failed, 2) \/ Telling(w, pc, [Failed EXCEPT !.ping = "ready"], 2)
  BY DEF Ping
<1> QED BY <1>1, <1>4, <1>5, <1>6

LEMMA ProxyDoes ==
  ASSUME TypeOK, Apart, NEW w \in Workers, Proxy(w)
  PROVE  /\ worker[w].pc = "proxy" /\ Measures(w) /\ slot' = slot
         /\ worker'[w].frame = NoOne /\ worker'[w].result = worker[w].result
         /\ \/ worker'[w].pc = "done"
            \/ worker'[w].pc = "ping" /\ worker[w].server \in Quic
            \/ worker'[w].pc = "site" /\ worker[w].server \notin Quic
<1>1. worker[w].pc = "proxy" /\ worker[w].frame = NoOne /\ Typed
  BY DEF Proxy, At, TypeOK, Typed
<1>2. worker[w].result \in Found /\ "done" \in Stage /\ "ping" \in Stage /\ "site" \in Stage
  BY <1>1, WorksOnServer DEF Stage
<1> DEFINE next == IF worker[w].server \in Quic THEN "ping" ELSE "site"
<1>3. Silently(w, "done", worker[w].result) \/ Silently(w, next, worker[w].result)
  BY DEF Proxy
<1>4. next \in Stage /\ (next = "ping" => worker[w].server \in Quic)
      /\ (next = "site" => worker[w].server \notin Quic) /\ next \in {"ping", "site"}
  BY <1>2
<1> HIDE DEF next
<1>5. ASSUME NEW pc \in Stage, Silently(w, pc, worker[w].result)
      PROVE  /\ Measures(w) /\ slot' = slot /\ worker'[w].pc = pc
             /\ worker'[w].frame = NoOne /\ worker'[w].result = worker[w].result
  <2>1. /\ Typed' /\ Others(w) /\ worker'[w].pc = pc
        /\ worker'[w].result = worker[w].result
        /\ worker'[w].server = worker[w].server /\ worker'[w].frame = worker[w].frame
    BY <1>1, <1>2, <1>5, SilentlyDoes
  <2> QED BY <1>1, <2>1 DEF Proxy, Measures, locks
<1> QED BY <1>1, <1>2, <1>3, <1>4, <1>5

LEMMA SiteDoes ==
  ASSUME TypeOK, Apart, NEW w \in Workers, Site(w)
  PROVE  /\ worker[w].pc = "site" /\ Measures(w) /\ slot' = slot
         /\ worker'[w].frame = NoOne
         /\ Reached(worker[w].result) => Answered(worker'[w].result)
         /\ \/ worker'[w].pc = "done"
            \/ worker'[w].pc = "slot"
<1>1. worker[w].pc = "site" /\ worker[w].frame = NoOne /\ Typed
  BY DEF Site, At, TypeOK, Typed
<1>2. worker[w].result \in Found /\ "done" \in Stage /\ "slot" \in Stage
  BY <1>1, WorksOnServer DEF Stage
<1> DEFINE next == IF kind = "speed" THEN "slot" ELSE "done"
<1>3. PICK answer \in {"ready", "failed"} :
        Silently(w, next, [worker[w].result EXCEPT !.availability = answer])
  BY DEF Site
<1>4. next \in Stage /\ next \in {"slot", "done"}
  BY <1>2
<1> HIDE DEF next
<1>5. PICK r \in Found : /\ r = [worker[w].result EXCEPT !.availability = answer]
                         /\ Reached(worker[w].result) => Answered(r)
  BY <1>2, Results
<1>6. Silently(w, next, r)
  BY <1>3, <1>5
<1>7. /\ Typed' /\ Others(w) /\ worker'[w].pc = next /\ worker'[w].result = r
      /\ worker'[w].server = worker[w].server /\ worker'[w].frame = worker[w].frame
  BY <1>1, <1>4, <1>6, SilentlyDoes
<1> QED BY <1>1, <1>4, <1>5, <1>7 DEF Site, Measures, locks

LEMMA SlotDoes ==
  ASSUME TypeOK, Apart, NEW w \in Workers, Slot(w)
  PROVE  /\ worker[w].pc = "slot" /\ Measures(w)
         /\ worker'[w].result = worker[w].result
         /\ \/ /\ slot = NoOne /\ slot' = w /\ worker'[w].pc = "download"
               /\ NewFrame(w, 3, worker[w].result)
            \/ /\ slot' = slot /\ worker'[w].pc = "done" /\ worker'[w].frame = NoOne
<1>1. worker[w].pc = "slot" /\ worker[w].frame = NoOne /\ Typed /\ context \in {"live", "done"}
  BY DEF Slot, At, TypeOK, Typed
<1>2. /\ worker[w].server \in Servers /\ worker[w].result \in Found
      /\ "done" \in Stage /\ "download" \in Stage
  BY <1>1, WorksOnServer DEF Stage
<1>3. CASE slot' = w /\ Telling(w, "download", worker[w].result, 3) /\ slot = NoOne
  <2>1. /\ Typed' /\ Others(w) /\ worker'[w].pc = "download"
        /\ worker'[w].result = worker[w].result /\ worker'[w].server = worker[w].server
        /\ NewFrame(w, 3, worker[w].result)
    BY <1>1, <1>2, <1>3, TellingDoes
  <2> QED BY <1>1, <1>3, <2>1 DEF Slot, Measures
<1>4. CASE Silently(w, "done", worker[w].result) /\ slot' = slot
  <2>1. /\ Typed' /\ Others(w) /\ worker'[w].pc = "done"
        /\ worker'[w].result = worker[w].result
        /\ worker'[w].server = worker[w].server /\ worker'[w].frame = worker[w].frame
    BY <1>1, <1>2, <1>4, SilentlyDoes
  <2> QED BY <1>1, <1>4, <2>1 DEF Slot, Measures
<1> QED BY <1>3, <1>4 DEF Slot

LEMMA DownloadDoes ==
  ASSUME TypeOK, Apart, NEW w \in Workers, Download(w)
  PROVE  /\ worker[w].pc = "download" /\ Measures(w) /\ slot' = NoOne
         /\ worker'[w].pc = "done" /\ worker'[w].frame = NoOne
         /\ Answered(worker[w].result) => Measured(worker'[w].result)
<1>1. worker[w].pc = "download" /\ worker[w].frame = NoOne /\ Typed
  BY DEF Download, At, TypeOK, Typed
<1>2. worker[w].result \in Found /\ "done" \in Stage
  BY <1>1, WorksOnServer DEF Stage
<1>3. PICK ok \in BOOLEAN : Silently(w, "done", [worker[w].result EXCEPT !.ok = ok])
  BY DEF Download
<1>4. PICK r \in Found : /\ r = [worker[w].result EXCEPT !.ok = ok]
                         /\ Answered(worker[w].result) => Measured(r)
  BY <1>2, Results
<1>5. Silently(w, "done", r)
  BY <1>3, <1>4
<1>6. /\ Typed' /\ Others(w) /\ worker'[w].pc = "done" /\ worker'[w].result = r
      /\ worker'[w].server = worker[w].server /\ worker'[w].frame = worker[w].frame
  BY <1>1, <1>2, <1>5, SilentlyDoes
<1> QED BY <1>1, <1>4, <1>6 DEF Download, Measures

(* A worker that is done with its server.                                  *)
Rested(w) == /\ worker'[w].pc = "idle" /\ worker'[w].server = NoOne
             /\ worker'[w].frame = NoOne

LEMMA RestDoes ==
  ASSUME Typed, NEW w \in Workers, Rest(w)
  PROVE  Typed' /\ Others(w) /\ Rested(w)
BY Becomes, Constants DEF Rest, Rested

LEMMA CompletedDoes ==
  ASSUME TypeOK, Apart, NEW w \in Workers, Completed(w)
  PROVE  /\ worker[w].pc = "done" /\ worker[w].frame = NoOne
         /\ worker[w].server \in Servers /\ worker[w].result \in Found
         /\ Typed' /\ Others(w)
         /\ results' = [results EXCEPT ![worker[w].server] = worker[w].result]
         /\ \/ context = "done" /\ Rested(w)
            \/ /\ context = "live" /\ kind = "check" /\ worker'[w].pc = "idle"
               /\ worker'[w].server = NoOne /\ NewFrame(w, 4, worker[w].result)
            \/ /\ context = "live" /\ kind = "speed" /\ worker'[w].pc = "publish"
               /\ worker'[w].server = worker[w].server
               /\ worker'[w].result = worker[w].result /\ worker'[w].frame = NoOne
         /\ UNCHANGED <<kind, context, main, jobs, locks, published, reader, faults>>
<1>1. worker[w].pc = "done" /\ worker[w].frame = NoOne /\ Typed /\ context \in {"live", "done"}
  BY DEF Completed, At, TypeOK, Typed
<1>2. worker[w].server \in Servers /\ worker[w].result \in Found /\ "publish" \in Stage
  BY <1>1, WorksOnServer DEF Stage
<1>3. CASE context = "done"
  BY <1>1, <1>2, <1>3, RestDoes DEF Completed
<1>4. CASE context # "done" /\ kind = "check"
  <2> DEFINE f == frameOf(w, 4, worker[w].result)
             x == [Idle EXCEPT !.frame = f]
  <2>1. /\ f \in Frames \cup {NoOne}
        /\ f = NoOne => context = "done"
        /\ f # NoOne => /\ f.server = worker[w].server
                        /\ f.stage = 4 /\ f.result = worker[w].result
    BY <1>1, <1>2, FrameOf
  <2>2. worker' = [worker EXCEPT ![w] = x]
    BY <1>4 DEF Completed
  <2> HIDE DEF f
  <2>3. x \in WorkerState /\ x.pc = "idle" /\ x.server = NoOne /\ x.frame = f
    BY <2>1, Constants DEF WorkerState, Idle
  <2> HIDE DEF x
  <2>4. Typed' /\ Others(w) /\ worker'[w] = x
    BY <1>1, <2>2, <2>3, Becomes
  <2>5. NewFrame(w, 4, worker[w].result)
    BY <2>1, <2>3, <2>4 DEF NewFrame
  <2> QED BY <1>1, <1>2, <1>4, <2>3, <2>4, <2>5 DEF Completed
<1>5. CASE context # "done" /\ kind # "check"
  <2>1. Silently(w, "publish", worker[w].result)
    BY <1>5 DEF Completed
  <2>2. /\ Typed' /\ Others(w) /\ worker'[w].pc = "publish"
        /\ worker'[w].result = worker[w].result
        /\ worker'[w].server = worker[w].server /\ worker'[w].frame = worker[w].frame
    BY <1>1, <1>2, <2>1, SilentlyDoes
  <2>3. kind = "speed"
    BY <1>5 DEF TypeOK
  <2> QED BY <1>1, <1>2, <1>5, <2>2, <2>3 DEF Completed
<1> QED BY <1>3, <1>4, <1>5

(* A step that keeps the server and what was found of it.                  *)
Keeps(w) ==
  /\ worker'[w].result = worker[w].result /\ worker'[w].server = worker[w].server
  /\ worker'[w].frame = NoOne

LEMMA BeginPublishDoes ==
  ASSUME TypeOK, Apart, NEW w \in Workers, BeginPublish(w)
  PROVE  /\ worker[w].pc = "publish" /\ worker[w].frame = NoOne /\ Typed' /\ Others(w)
         /\ \/ (failed \/ context = "done") /\ Rested(w) /\ publisher' = publisher
            \/ /\ worker'[w].pc = "lock" /\ Keeps(w)
               /\ publisher = NoOne /\ publisher' = w
         /\ UNCHANGED <<kind, context, progress, slot, holder, published, reader, faults>>
<1>1. worker[w].pc = "publish" /\ worker[w].frame = NoOne /\ Typed
  BY DEF BeginPublish, At, TypeOK, Typed
<1>2. worker[w].result \in Found /\ "lock" \in Stage
  BY <1>1, WorksOnServer DEF Stage
<1>3. CASE failed \/ context = "done"
  BY <1>1, <1>3, RestDoes DEF BeginPublish
<1>4. CASE ~(failed \/ context = "done")
  <2>1. Silently(w, "lock", worker[w].result) /\ publisher' = w /\ publisher = NoOne
    BY <1>4 DEF BeginPublish
  <2>2. Typed' /\ Others(w) /\ worker'[w].pc = "lock" /\ Keeps(w)
    BY <1>1, <1>2, <2>1, SilentlyDoes DEF Keeps
  <2> QED BY <1>1, <1>4, <2>1, <2>2 DEF BeginPublish
<1> QED BY <1>3, <1>4

LEMMA LockDoes ==
  ASSUME TypeOK, Apart, NEW w \in Workers, Lock(w)
  PROVE  /\ worker[w].pc = "lock" /\ worker[w].frame = NoOne /\ Typed' /\ Others(w)
         /\ \/ /\ Rested(w) /\ publisher' = NoOne
               /\ holder' = (IF holder = w THEN NoOne ELSE holder)
               /\ failed' = TRUE /\ context' = "done"
            \/ /\ worker'[w].pc = "write" /\ Keeps(w) /\ catalog.version = baseline
               /\ holder = NoOne /\ holder' = w
               /\ UNCHANGED <<context, publisher, failed>>
         /\ UNCHANGED <<kind, progress, slot, catalog, baseline, reader, faults>>
<1>1. worker[w].pc = "lock" /\ worker[w].frame = NoOne /\ Typed
  BY DEF Lock, At, TypeOK, Typed
<1>2. worker[w].result \in Found /\ "write" \in Stage
  BY <1>1, WorksOnServer DEF Stage
<1>3. CASE GivesUp(w)
  BY <1>1, <1>3, RestDoes DEF Lock, GivesUp
<1>4. CASE /\ holder = NoOne /\ catalog.version = baseline
           /\ holder' = w /\ Silently(w, "write", worker[w].result)
           /\ UNCHANGED <<context, publisher, failed>>
  <2>1. Typed' /\ Others(w) /\ worker'[w].pc = "write" /\ Keeps(w)
    BY <1>1, <1>2, <1>4, SilentlyDoes DEF Keeps
  <2> QED BY <1>1, <1>4, <2>1 DEF Lock
<1> QED BY <1>3, <1>4 DEF Lock

(* The catalog with one server's row of the batch.                         *)
Rewritten(w) ==
  /\ catalog' \in Versions /\ catalog'.version = catalog.version + 1
  /\ catalog'.rows[worker[w].server] = measured(worker[w].result)
  /\ \A s \in Servers \ {worker[w].server} : catalog'.rows[s] = catalog.rows[s]

LEMMA Rewrites ==
  ASSUME TypeOK, NEW w \in Workers,
         worker[w].server \in Servers, worker[w].result \in Found,
         catalog' = [version |-> catalog.version + 1,
                     rows |-> [catalog.rows EXCEPT ![worker[w].server] =
                                 measured(worker[w].result)]]
  PROVE  Rewritten(w)
<1>1. catalog.version \in Nat /\ catalog.rows \in [Servers -> Rows]
  BY DEF TypeOK, Versions
<1>2. measured(worker[w].result) \in Rows
  BY Constants
<1> QED BY <1>1, <1>2 DEF Rewritten, Versions

LEMMA WriteDoes ==
  ASSUME TypeOK, Apart, NEW w \in Workers, Write(w)
  PROVE  /\ worker[w].pc = "write" /\ worker[w].frame = NoOne /\ Typed' /\ Others(w)
         /\ worker[w].server \in Servers
         /\ worker'[w].pc = "unlock" /\ worker'[w].server = worker[w].server
         /\ NewFrame(w, 4, worker[w].result)
         /\ Rewritten(w) /\ baseline' = catalog'.version
         /\ UNCHANGED <<kind, context, progress, locks, failed, reader, faults>>
<1>1. worker[w].pc = "write" /\ worker[w].frame = NoOne /\ Typed /\ context \in {"live", "done"}
  BY DEF Write, At, TypeOK, Typed
<1>2. worker[w].server \in Servers /\ worker[w].result \in Found /\ "unlock" \in Stage
  BY <1>1, WorksOnServer DEF Stage
<1>3. /\ Typed' /\ Others(w) /\ worker'[w].pc = "unlock"
      /\ worker'[w].server = worker[w].server /\ NewFrame(w, 4, worker[w].result)
  BY <1>1, <1>2, TellingDoes DEF Write
<1>4. Rewritten(w) /\ baseline' = catalog'.version
  BY <1>2, Rewrites DEF Write
<1> QED BY <1>1, <1>2, <1>3, <1>4 DEF Write

LEMMA WriteFailsDoes ==
  ASSUME TypeOK, Apart, NEW w \in Workers, WriteFails(w)
  PROVE  /\ worker[w].pc = "write" /\ worker[w].frame = NoOne /\ Typed' /\ Others(w)
         /\ worker[w].server \in Servers
         /\ Rested(w) /\ publisher' = NoOne
         /\ holder' = (IF holder = w THEN NoOne ELSE holder)
         /\ failed' = TRUE /\ context' = "done"
         /\ catalog' = catalog \/ Rewritten(w)
         /\ faults' \in 0 .. MaxFaults
         /\ UNCHANGED <<kind, progress, slot, baseline, reader>>
<1>1. worker[w].pc = "write" /\ worker[w].frame = NoOne /\ Typed
  BY DEF WriteFails, At, TypeOK, Typed
<1>2. worker[w].server \in Servers /\ worker[w].result \in Found
  BY <1>1, WorksOnServer
<1>3. Typed' /\ Others(w) /\ Rested(w)
  BY <1>1, RestDoes DEF WriteFails, GivesUp
<1>4. catalog' = catalog \/ Rewritten(w)
  BY <1>2, Rewrites DEF WriteFails
<1>5. faults' \in 0 .. MaxFaults
  BY BatchShape DEF WriteFails, Fault, TypeOK
<1> QED BY <1>1, <1>2, <1>3, <1>4, <1>5 DEF WriteFails, GivesUp

LEMMA UnlockDoes ==
  ASSUME TypeOK, NEW w \in Workers, Unlock(w)
  PROVE  /\ worker[w].pc = "unlock" /\ worker[w].frame = NoOne /\ Typed' /\ Others(w)
         /\ Rested(w) /\ publisher' = NoOne /\ holder' = NoOne
         /\ UNCHANGED <<kind, context, progress, slot, published, reader, faults>>
<1>1. worker[w].pc = "unlock" /\ worker[w].frame = NoOne /\ Typed
  BY DEF Unlock, At, TypeOK, Typed
<1> QED BY <1>1, RestDoes DEF Unlock

-----------------------------------------------------------------------------
(* What the command and its surroundings do.                               *)

LEMMA AnswerDoes ==
  ASSUME TypeOK, Answer
  PROVE  /\ main \in {"ok", "refused"} /\ main' = "ended"
         /\ reader' \in Readers /\ reader'.heard = reader.heard
         /\ \/ reader.answer = NoOne /\ reader'.refused = reader.refused
            \/ reader.answer # NoOne
         /\ holder' = NoOne
         /\ UNCHANGED <<kind, context, jobs, results, worker, slot, publisher, published, faults>>
<1>1. reader \in Readers /\ main \in {"ok", "refused"}
  BY DEF TypeOK, Answer
<1>2. CASE reader.answer = NoOne
  BY <1>1, <1>2 DEF Answer, Readers
<1>3. CASE reader.answer # NoOne
  BY <1>1, <1>3 DEF Answer, Readers
<1> QED BY <1>2, <1>3

LEMMA PublishDoes ==
  ASSUME TypeOK, Publish
  PROVE  /\ main = "write" /\ main' = "ok"
         /\ catalog' \in Versions /\ catalog'.version = catalog.version + 1
         /\ \A s \in Servers : catalog'.rows[s] = measured(results[s])
         /\ UNCHANGED <<kind, context, jobs, results, worker, locks, baseline, failed, reader,
                        faults>>
<1>1. \A s \in Servers : measured(results[s]) \in Rows
  BY Constants DEF TypeOK
<1>2. catalog.version \in Nat
  BY DEF TypeOK, Versions
<1> QED BY <1>1, <1>2 DEF Publish, Versions

LEMMA KillDoes ==
  ASSUME TypeOK, Kill
  PROVE  /\ main' = "ended" /\ Typed'
         /\ \A w \in Workers : /\ worker'[w].pc = "exited" /\ worker'[w].server = NoOne
                               /\ worker'[w].frame = NoOne
         /\ slot' = NoOne /\ publisher' = NoOne /\ holder' = NoOne
         /\ faults' \in 0 .. MaxFaults
         /\ UNCHANGED <<kind, context, jobs, results, published, reader>>
<1> DEFINE x == [Idle EXCEPT !.pc = "exited"]
<1>1. x \in WorkerState /\ x.pc = "exited" /\ x.server = NoOne /\ x.frame = NoOne
  BY Constants DEF Idle, WorkerState, Stage
<1>2. worker' = [w \in Workers |-> x]
  BY DEF Kill
<1>3. faults' \in 0 .. MaxFaults
  BY BatchShape DEF Kill, Fault, TypeOK
<1> HIDE DEF x
<1> QED BY <1>1, <1>2, <1>3 DEF Kill, Typed

LEMMA RivalDoes ==
  ASSUME TypeOK, Rival
  PROVE  /\ holder = NoOne /\ catalog' \in Versions
         /\ catalog'.version = catalog.version + 1
         /\ \A s \in Servers : catalog'.rows[s] = catalog.rows[s] \/ catalog'.rows[s].by = "other"
         /\ faults' \in 0 .. MaxFaults
         /\ UNCHANGED <<kind, context, progress, worker, locks, baseline, failed, reader>>
<1>1. PICK S \in {{Batch[1]}, Servers} :
        catalog' = [version |-> catalog.version + 1,
                    rows |-> [s \in Servers |->
                               IF s \in S THEN row("other", Unknown) ELSE catalog.rows[s]]]
  BY DEF Rival
<1>2. catalog.version \in Nat /\ catalog.rows \in [Servers -> Rows]
  BY DEF TypeOK, Versions
<1>3. row("other", Unknown) \in Rows /\ row("other", Unknown).by = "other"
  BY Constants
<1>4. faults' \in 0 .. MaxFaults
  BY BatchShape DEF Rival, Fault, TypeOK
<1> QED BY <1>1, <1>2, <1>3, <1>4 DEF Rival, Versions

-----------------------------------------------------------------------------
(* Type correctness, with each server at one worker.                       *)

(* Who holds what, and whose server it is, when one worker goes on.        *)
Holds(w) ==
  /\ (slot = w <=> worker[w].pc = "download")
  /\ (publisher = w <=> worker[w].pc \in {"lock", "write", "unlock"})
  /\ (holder = w <=> worker[w].pc \in {"write", "unlock"})
  /\ \A v \in Workers \ {w} :
       worker[v].server = worker[w].server => worker[w].server = NoOne

LEMMA OneGoesOn ==
  ASSUME TypeOK, NEW w \in Workers, Others(w),
         slot' = w <=> worker'[w].pc = "download",
         publisher' = w <=> worker'[w].pc \in {"lock", "write", "unlock"},
         holder' = w <=> worker'[w].pc \in {"write", "unlock"},
         \A v \in Workers \ {w} : /\ (slot' = v <=> slot = v)
                                 /\ (publisher' = v <=> publisher = v)
                                 /\ (holder' = v <=> holder = v),
         \/ worker'[w].server \in {worker[w].server, NoOne}
         \/ \A v \in Workers \ {w} : worker[v].server # worker'[w].server
  PROVE  \A v \in Workers : Holds(v)'
<1> USE DEF Others
<1>1. \A v \in Workers : Holds(v)
  BY DEF TypeOK, Holds
<1>2. Holds(w)'
  BY <1>1 DEF Holds
<1>3. ASSUME NEW v \in Workers \ {w} PROVE Holds(v)'
  <2>1. worker'[v] = worker[v] /\ Holds(v)
    BY <1>1
  <2>2. \A u \in Workers \ {v} :
          worker'[u].server = worker'[v].server => worker'[v].server = NoOne
    BY <1>1, <2>1 DEF Holds
  <2>3. /\ (slot' = v <=> slot = v)
        /\ (publisher' = v <=> publisher = v)
        /\ (holder' = v <=> holder = v)
    BY <1>3
  <2>4. /\ (slot' = v <=> worker'[v].pc = "download")
        /\ (publisher' = v <=> worker'[v].pc \in {"lock", "write", "unlock"})
        /\ (holder' = v <=> worker'[v].pc \in {"write", "unlock"})
    BY <2>1, <2>3 DEF Holds
  <2> QED BY <2>2, <2>4 DEF Holds
<1> QED BY <1>2, <1>3

LEMMA TypeFromParts ==
  ASSUME Typed', (\A v \in Workers : Holds(v)'),
         kind' \in {"check", "speed"} /\ context' \in {"live", "done"},
         main' \in {"feed", "wait", "final", "write", "ok", "refused", "ended"},
         jobs' \in Remaining, holder' = Main => main' \in {"write", "ok", "refused"},
         catalog' \in Versions, baseline' \in 0 .. catalog'.version, failed' \in BOOLEAN,
         results' \in [Servers -> Found], reader' \in Readers, faults' \in 0 .. MaxFaults
  PROVE  TypeOK'
BY DEF TypeOK, Holds, Typed, Remaining

LEMMA TypeStep ==
  ASSUME TypeOK, Apart, Waited, [Next]_vars
  PROVE  TypeOK'
<1> USE Constants DEF Measures, Rested, Keeps, progress, locks, published
<1>0. \A w \in Workers : Holds(w)
  BY DEF TypeOK, Holds
<1>24. jobs \in Remaining
  BY DEF TypeOK, Remaining
<1>25. catalog \in Versions /\ catalog.version \in Nat /\ baseline \in 0 .. catalog.version
  BY DEF TypeOK, Versions
<1>1. ASSUME NEW w \in Workers, Encode(w) PROVE TypeOK'
  <2>1. reader' \in Readers
    BY <1>1, EncodeDoes, LineDoes DEF TypeOK
  <2>2. \A v \in Workers : Holds(v)'
    BY <1>0, <1>1, EncodeDoes, OneGoesOn DEF Holds
  <2> QED BY <1>1, <1>24, <2>1, <2>2, EncodeDoes, TypeFromParts DEF TypeOK
<1>2. ASSUME NEW w \in Workers, Take(w) PROVE TypeOK'
  <2>1. /\ Head(jobs) \in Left /\ Head(jobs) \in Servers
        /\ jobs' \in {SubSeq(Batch, i, Len(Batch)) : i \in 1 .. Len(Batch) + 1}
    BY <1>2, NextJob, TakeDoes DEF TypeOK, Remaining
  <2>2. \A v \in Workers : worker[v].server # Head(jobs)
    BY <2>1 DEF Apart, Concerns
  <2>3. \A v \in Workers : Holds(v)'
    BY <1>0, <1>2, <2>2, TakeDoes, OneGoesOn DEF Holds
  <2> QED BY <1>2, <2>1, <2>3, TakeDoes, TypeFromParts DEF TypeOK, Remaining
<1>3. ASSUME NEW w \in Workers, WorkerEnds(w) PROVE TypeOK'
  <2>1. \A v \in Workers : Holds(v)'
    BY <1>0, <1>3, EndsDoes, OneGoesOn DEF Holds
  <2> QED BY <1>3, <1>24, <2>1, EndsDoes, TypeFromParts DEF TypeOK
<1>4. ASSUME NEW w \in Workers, Ping(w) PROVE TypeOK'
  <2>1. \A v \in Workers : Holds(v)'
    BY <1>0, <1>4, PingDoes, OneGoesOn DEF Holds
  <2> QED BY <1>4, <1>24, <2>1, PingDoes, TypeFromParts DEF TypeOK
<1>5. ASSUME NEW w \in Workers, Proxy(w) PROVE TypeOK'
  <2>1. \A v \in Workers : Holds(v)'
    BY <1>0, <1>5, ProxyDoes, OneGoesOn DEF Holds
  <2> QED BY <1>5, <1>24, <2>1, ProxyDoes, TypeFromParts DEF TypeOK
<1>6. ASSUME NEW w \in Workers, Site(w) PROVE TypeOK'
  <2>1. \A v \in Workers : Holds(v)'
    BY <1>0, <1>6, SiteDoes, OneGoesOn DEF Holds
  <2> QED BY <1>6, <1>24, <2>1, SiteDoes, TypeFromParts DEF TypeOK
<1>7. ASSUME NEW w \in Workers, Slot(w) PROVE TypeOK'
  <2>1. \A v \in Workers : Holds(v)'
    BY <1>0, <1>7, SlotDoes, OneGoesOn DEF Holds
  <2> QED BY <1>7, <1>24, <2>1, SlotDoes, TypeFromParts DEF TypeOK
<1>8. ASSUME NEW w \in Workers, Download(w) PROVE TypeOK'
  <2>1. \A v \in Workers : Holds(v)'
    BY <1>0, <1>8, DownloadDoes, OneGoesOn DEF Holds
  <2> QED BY <1>8, <1>24, <2>1, DownloadDoes, TypeFromParts DEF TypeOK
<1>9. ASSUME NEW w \in Workers, Completed(w) PROVE TypeOK'
  <2>1. results' \in [Servers -> Found]
    BY <1>9, CompletedDoes DEF TypeOK
  <2>2. \A v \in Workers : Holds(v)'
    BY <1>0, <1>9, CompletedDoes, OneGoesOn DEF Holds
  <2> QED BY <1>9, <1>24, <2>1, <2>2, CompletedDoes, TypeFromParts DEF TypeOK
<1>10. ASSUME NEW w \in Workers, BeginPublish(w) PROVE TypeOK'
  <2>1. \A v \in Workers : Holds(v)'
    BY <1>0, <1>10, BeginPublishDoes, OneGoesOn DEF Holds
  <2> QED BY <1>10, <1>24, <2>1, BeginPublishDoes, TypeFromParts DEF TypeOK
<1>11. ASSUME NEW w \in Workers, Lock(w) PROVE TypeOK'
  <2>2. publisher = w /\ holder # w
    BY <1>0, <1>11, LockDoes DEF Holds
  <2>3. \/ holder' = holder /\ publisher' = NoOne /\ Rested(w)
        \/ holder' = w /\ holder = NoOne /\ publisher' = w /\ worker'[w].pc = "write" /\ Keeps(w)
    BY <1>11, <2>2, LockDoes
  <2>4. slot' = slot /\ Others(w) /\ worker[w].pc = "lock"
    BY <1>11, LockDoes
  <2>1. \A v \in Workers : Holds(v)'
    BY <1>0, <2>2, <2>3, <2>4, OneGoesOn DEF Holds
  <2> QED BY <1>11, <1>24, <2>1, LockDoes, TypeFromParts DEF TypeOK
<1>12. ASSUME NEW w \in Workers, Write(w) PROVE TypeOK'
  <2>1. \A v \in Workers : Holds(v)'
    BY <1>0, <1>12, WriteDoes, OneGoesOn DEF Holds
  <2>2. Rewritten(w) /\ baseline' = catalog'.version
    BY <1>12, WriteDoes
  <2>3. baseline' \in 0 .. catalog'.version /\ catalog' \in Versions
    BY <1>25, <2>2 DEF Rewritten, Versions
  <2>4. Typed' /\ UNCHANGED <<kind, context, main, jobs, results, holder, failed, reader, faults>>
    BY <1>12, WriteDoes
  <2> QED BY <1>24, <2>1, <2>3, <2>4, TypeFromParts DEF TypeOK
<1>13. ASSUME NEW w \in Workers, WriteFails(w) PROVE TypeOK'
  <2>2. publisher = w /\ holder = w
    BY <1>0, <1>13, WriteFailsDoes DEF Holds
  <2>3. /\ holder' = NoOne /\ publisher' = NoOne /\ Rested(w)
        /\ slot' = slot /\ Others(w) /\ worker[w].pc = "write"
    BY <1>13, <2>2, WriteFailsDoes
  <2>1. \A v \in Workers : Holds(v)'
    BY <1>0, <2>2, <2>3, OneGoesOn DEF Holds
  <2>6. baseline' = baseline /\ (catalog' = catalog \/ Rewritten(w))
    BY <1>13, WriteFailsDoes
  <2>4. baseline' \in 0 .. catalog'.version /\ catalog' \in Versions
    BY <1>25, <2>6 DEF Rewritten, Versions
  <2>5. Typed' /\ failed' = TRUE /\ context' = "done" /\ faults' \in 0 .. MaxFaults
        /\ UNCHANGED <<kind, main, jobs, results, reader>>
    BY <1>13, WriteFailsDoes
  <2> QED BY <1>24, <2>1, <2>3, <2>4, <2>5, TypeFromParts DEF TypeOK
<1>14. ASSUME NEW w \in Workers, Unlock(w) PROVE TypeOK'
  <2>1. \A v \in Workers : Holds(v)'
    BY <1>0, <1>14, UnlockDoes, OneGoesOn DEF Holds
  <2> QED BY <1>14, <1>24, <2>1, UnlockDoes, TypeFromParts DEF TypeOK
<1>15. CASE Close \/ Wait
  BY <1>15 DEF Close, Wait, TypeOK
<1>16. CASE Final
  BY <1>16 DEF Final, TypeOK
<1>17. CASE Publish
  BY <1>17, PublishDoes DEF TypeOK, Versions
<1>18. CASE PublishFails
  <2>1. faults' \in 0 .. MaxFaults /\ main' = "refused"
    BY <1>18, BatchShape DEF PublishFails, Fault, TypeOK
  <2>2. \A v \in Workers : Holds(v)'
    BY <1>0, <1>18 DEF PublishFails, Holds
  <2>3. Typed'
    BY <1>18 DEF PublishFails, Typed, TypeOK
  <2> QED BY <1>18, <1>24, <2>1, <2>2, <2>3, TypeFromParts DEF PublishFails, TypeOK
<1>19. CASE Answer
  <2>1. main \in {"ok", "refused"} /\ main' = "ended" /\ reader' \in Readers /\ holder' = NoOne
    BY <1>19, AnswerDoes
  <2>2. UNCHANGED <<kind, context, jobs, results, worker, slot, publisher, published, faults>>
    BY <1>19, AnswerDoes
  <2>3. holder \notin Workers
    BY <1>0, <2>1 DEF Waited, Holds
  <2>4. \A v \in Workers : Holds(v)'
    BY <1>0, <2>1, <2>2, <2>3 DEF Holds
  <2>5. Typed'
    BY <2>2 DEF Typed, TypeOK
  <2> QED BY <1>24, <2>1, <2>2, <2>4, <2>5, TypeFromParts DEF TypeOK
<1>20. CASE Cancel
  <2>1. faults' \in 0 .. MaxFaults /\ context' = "done"
    BY <1>20, BatchShape DEF Cancel, Fault, TypeOK
  <2>2. \A v \in Workers : Holds(v)'
    BY <1>0, <1>20 DEF Cancel, Holds
  <2>3. Typed'
    BY <1>20 DEF Cancel, Typed, TypeOK
  <2> QED BY <1>20, <1>24, <2>1, <2>2, <2>3, TypeFromParts DEF Cancel, TypeOK
<1>21. CASE Kill
  <2>1. \A v \in Workers : Holds(v)'
    BY <1>21, KillDoes DEF Holds
  <2> QED BY <1>21, <1>24, <2>1, KillDoes, TypeFromParts DEF TypeOK
<1>22. CASE Rival
  <2>1. /\ catalog' \in Versions /\ catalog'.version = catalog.version + 1
        /\ faults' \in 0 .. MaxFaults
        /\ UNCHANGED <<kind, context, progress, worker, locks, baseline, failed, reader>>
    BY <1>22, RivalDoes
  <2>2. baseline' \in 0 .. catalog'.version
    BY <1>25, <2>1
  <2>3. \A v \in Workers : Holds(v)'
    BY <1>0, <2>1 DEF Holds
  <2>4. Typed'
    BY <2>1 DEF Typed, TypeOK
  <2> QED BY <1>24, <2>1, <2>2, <2>3, <2>4, TypeFromParts DEF TypeOK
<1>23. CASE UNCHANGED vars
  BY <1>23 DEF vars, TypeOK
<1> QED
  BY <1>1, <1>2, <1>3, <1>4, <1>5, <1>6, <1>7, <1>8, <1>9, <1>10, <1>11, <1>12, <1>13, <1>14,
     <1>15, <1>16, <1>17, <1>18, <1>19, <1>20, <1>21, <1>22, <1>23
  DEF Next, Steps, Command, Measuring, Publishing

-----------------------------------------------------------------------------
(* Each server is with one worker.                                         *)

LEMMA ApartFromOne ==
  ASSUME TypeOK, Apart, NEW w \in Workers, Others(w), Shape(w)',
         Left' \subseteq Left,
         \A s \in Servers : Concerns(w, s)' => (Concerns(w, s) \/ s \in Left \ Left'),
         \A s \in Left' : reader'.heard[s].stage = reader.heard[s].stage
  PROVE  Apart'
<1>1. \A v \in Workers \ {w} : worker'[v] = worker[v]
  BY DEF Others
<1>2. \A v \in Workers : Shape(v)'
  BY <1>1 DEF Apart, Shape
<1>3. \A v \in Workers \ {w} : \A s \in Servers : Concerns(v, s)' => Concerns(v, s)
  BY <1>1 DEF Concerns
<1>4. \A s \in Servers : \A v \in Workers : s \in Left => ~Concerns(v, s)
  BY DEF Apart
<1>5. \A v, u \in Workers : \A s \in Servers : (Concerns(v, s)' /\ Concerns(u, s)') => v = u
  BY <1>3, <1>4 DEF Apart
<1>6. ASSUME NEW s \in Left' PROVE reader'.heard[s].stage = 0 /\ \A v \in Workers : ~Concerns(v, s)'
  <2>1. s \in Left /\ s \in Servers
    BY LeftOfBatch
  <2>2. \A v \in Workers : ~Concerns(v, s)'
    BY <1>3, <1>4, <1>6, <2>1
  <2>3. reader'.heard[s].stage = 0
    BY <1>6, <2>1 DEF Apart
  <2> QED BY <2>2, <2>3
<1> QED BY <1>2, <1>5, <1>6 DEF Apart

LEMMA Unmoved ==
  ASSUME jobs' = jobs
  PROVE  Left' = Left
BY DEF Left, Elements

(* The stages at which a worker has a server.                              *)
LEMMA ApartFromMeasuring ==
  ASSUME TypeOK, Apart, NEW w \in Workers, Typed', Others(w),
         jobs' = jobs, reader'.heard = reader.heard,
         worker[w].pc \notin {"idle", "exited"},
         \/ /\ worker'[w].pc \notin {"idle", "exited"}
            /\ worker'[w].server = worker[w].server
         \/ worker'[w].pc = "idle" /\ worker'[w].server = NoOne,
         worker'[w].frame # NoOne => worker'[w].frame.server = worker[w].server
  PROVE  Apart'
<1>1. worker[w].server \in Servers
  BY WorksOnServer
<1>2. Shape(w)'
  BY <1>1, Constants DEF Shape
<1>3. \A s \in Servers : Concerns(w, s)' => Concerns(w, s)
  BY Constants DEF Concerns
<1> QED BY <1>2, <1>3, Unmoved, ApartFromOne

LEMMA ApartStep ==
  ASSUME TypeOK, Apart, [Next]_vars
  PROVE  Apart'
<1> USE DEF progress
<1>1. ASSUME NEW w \in Workers, Encode(w) PROVE Apart'
  <2>1. /\ Others(w) /\ worker[w].frame \in Frames /\ worker'[w].frame = NoOne
        /\ worker'[w].pc = worker[w].pc /\ worker'[w].server = worker[w].server
        /\ jobs' = jobs
    BY <1>1, EncodeDoes
  <2>2. Shape(w)' /\ \A s \in Servers : Concerns(w, s)' => Concerns(w, s)
    BY <2>1 DEF Apart, Shape, Concerns
  <2>3. Concerns(w, worker[w].frame.server) /\ worker[w].frame.server \notin Left
    BY <2>1, Constants DEF Apart, Concerns, Frames
  <2>4. ASSUME NEW s \in Left PROVE reader'.heard[s].stage = reader.heard[s].stage
    <3>1. s \in Servers \ {worker[w].frame.server}
      BY <2>3, LeftOfBatch
    <3>2. \/ reader' = reader
          \/ reader' = [reader EXCEPT !.refused = TRUE]
          \/ reader'.heard[s] = reader.heard[s]
      BY <1>1, <2>1, <3>1, EncodeDoes, LineDoes DEF Line
    <3> QED BY <3>2 DEF TypeOK, Readers
  <2> QED BY <2>1, <2>2, <2>4, Unmoved, ApartFromOne
<1>2. ASSUME NEW w \in Workers, Take(w) PROVE Apart'
  <2>1. /\ Head(jobs) \in Left /\ Head(jobs) \in Servers
        /\ Left = {Head(jobs)} \cup Left' /\ Head(jobs) \notin Left'
    BY <1>2, TakeDoes, NextJob DEF TypeOK, Remaining
  <2>2. /\ Others(w) /\ reader' = reader
        /\ \/ /\ worker'[w].pc = "exited" /\ worker'[w].server = NoOne
              /\ worker'[w].frame = NoOne
           \/ /\ worker'[w].pc \in {"proxy", "ping"} /\ worker'[w].server = Head(jobs)
              /\ worker'[w].frame.server = Head(jobs)
    BY <1>2, TakeDoes
  <2>3. Shape(w)'
    BY <2>1, <2>2, Constants DEF Shape
  <2>4. \A s \in Servers : Concerns(w, s)' => s \in Left \ Left'
    BY <2>1, <2>2, Constants DEF Concerns
  <2> QED BY <2>1, <2>2, <2>3, <2>4, ApartFromOne
<1>3. ASSUME NEW w \in Workers, WorkerEnds(w) PROVE Apart'
  <2>1. /\ Others(w) /\ reader' = reader /\ jobs' = jobs
        /\ worker'[w].pc = "exited" /\ worker'[w].server = NoOne /\ worker'[w].frame = NoOne
    BY <1>3, EndsDoes
  <2>2. Shape(w)' /\ \A s \in Servers : ~Concerns(w, s)'
    BY <2>1, Constants DEF Shape, Concerns
  <2> QED BY <2>1, <2>2, Unmoved, ApartFromOne
<1>4. ASSUME NEW w \in Workers,
             Ping(w) \/ Proxy(w) \/ Site(w) \/ Slot(w) \/ Download(w)
      PROVE  Apart'
  <2>1. /\ Measures(w)
        /\ worker[w].pc \in {"ping", "proxy", "site", "slot", "download"}
        /\ worker'[w].pc \in {"ping", "proxy", "site", "slot", "download", "done"}
        /\ worker'[w].frame # NoOne => worker'[w].frame.server = worker[w].server
    BY <1>4, PingDoes, ProxyDoes, SiteDoes, SlotDoes, DownloadDoes DEF NewFrame
  <2> QED BY <2>1, ApartFromMeasuring DEF Measures
<1>5. ASSUME NEW w \in Workers,
             Completed(w) \/ BeginPublish(w) \/ Lock(w) \/ Write(w) \/ WriteFails(w) \/ Unlock(w)
      PROVE  Apart'
  <2>1. /\ Typed' /\ Others(w) /\ jobs' = jobs /\ reader'.heard = reader.heard
        /\ worker[w].pc \in {"done", "publish", "lock", "write", "unlock"}
        /\ \/ /\ worker'[w].pc \in {"publish", "lock", "write", "unlock"}
              /\ worker'[w].server = worker[w].server
           \/ worker'[w].pc = "idle" /\ worker'[w].server = NoOne
        /\ worker'[w].frame # NoOne => worker'[w].frame.server = worker[w].server
    <3>1. CASE Completed(w)
      BY <3>1, CompletedDoes DEF NewFrame, Rested, Keeps
    <3>2. CASE BeginPublish(w)
      BY <3>2, BeginPublishDoes DEF NewFrame, Rested, Keeps
    <3>3. CASE Lock(w)
      BY <3>3, LockDoes DEF NewFrame, Rested, Keeps
    <3>4. CASE Write(w)
      BY <3>4, WriteDoes DEF NewFrame, Rested, Keeps
    <3>5. CASE WriteFails(w)
      BY <3>5, WriteFailsDoes DEF NewFrame, Rested, Keeps
    <3>6. CASE Unlock(w)
      BY <3>6, UnlockDoes DEF NewFrame, Rested, Keeps
    <3> QED BY <1>5, <3>1, <3>2, <3>3, <3>4, <3>5, <3>6
  <2> QED BY <2>1, ApartFromMeasuring
<1>6. CASE Close \/ Wait \/ Final \/ Publish \/ PublishFails \/ Cancel \/ Rival \/ UNCHANGED vars
  <2>1. worker' = worker /\ jobs' = jobs /\ reader' = reader
    BY <1>6 DEF Close, Wait, Final, Publish, PublishFails, Cancel, Rival, vars
  <2> QED BY <2>1, Unmoved DEF Apart, Shape, Concerns
<1>7. CASE Answer
  <2>1. worker' = worker /\ jobs' = jobs /\ reader'.heard = reader.heard
    BY <1>7, AnswerDoes
  <2> QED BY <2>1, Unmoved DEF Apart, Shape, Concerns
<1>8. CASE Kill
  <2>1. /\ jobs' = jobs /\ reader' = reader
        /\ \A w \in Workers : /\ worker'[w].pc = "exited" /\ worker'[w].server = NoOne
                              /\ worker'[w].frame = NoOne
    BY <1>8, KillDoes
  <2>2. \A w \in Workers : Shape(w)' /\ \A s \in Servers : ~Concerns(w, s)'
    BY <2>1, Constants DEF Shape, Concerns
  <2> QED BY <2>1, <2>2, Unmoved, LeftOfBatch DEF Apart
<1> QED
  BY <1>1, <1>2, <1>3, <1>4, <1>5, <1>6, <1>7, <1>8
  DEF Next, Steps, Command, Measuring, Publishing

-----------------------------------------------------------------------------
(* What the reader is told is what it may be told.                         *)

LEMMA OthersTell ==
  ASSUME Apart, Tellings, NEW w \in Workers, Typed, Others(w), kind' = kind,
         \A s \in Servers : reader'.heard[s] = reader.heard[s] \/ Concerns(w, s)
  PROVE  \A v \in Workers \ {w} : Tells(v)'
<1> SUFFICES ASSUME NEW v \in Workers \ {w} PROVE Tells(v)'
  OBVIOUS
<1>1. worker'[v] = worker[v] /\ Tells(v)
  BY DEF Others, Tellings
<1>2. worker[v].server \in Servers \cup {NoOne} /\ worker[v].frame \in Frames \cup {NoOne}
  BY DEF Typed, WorkerState
<1>3. worker[v].server # NoOne => reader'.heard[worker[v].server] = reader.heard[worker[v].server]
  BY <1>2 DEF Apart, Concerns
<1>4. worker[v].frame # NoOne =>
        reader'.heard[worker[v].frame.server] = reader.heard[worker[v].frame.server]
  BY <1>2 DEF Apart, Concerns, Frames
<1>5. Told(v)' = Told(v)
  BY <1>1 DEF Told
<1> QED BY <1>1, <1>3, <1>4, <1>5 DEF Tells

LEMMA TellingsFromOne ==
  ASSUME Apart, Tellings, NEW w \in Workers, Typed, Others(w), kind' = kind,
         reader'.heard = reader.heard, Tells(w)'
  PROVE  Tellings'
BY OthersTell DEF Tellings

(* The frame that a worker has to tell is one that the reader accepts.     *)
LEMMA FrameIsAccepted ==
  ASSUME TypeOK, Apart, Tellings, Waited, NEW w \in Workers, worker[w].frame # NoOne
  PROVE  acceptable(worker[w].frame)
<1>1. worker[w].frame \in Frames
  BY DEF TypeOK, WorkerState
<1>2. /\ reader.heard[worker[w].frame.server].stage < worker[w].frame.stage
      /\ Complete(worker[w].frame)
  BY DEF Tellings, Tells
<1>3. reader.answer = NoOne
  BY DEF Waited
<1>4. PICK f \in Frames : f = worker[w].frame
  BY <1>1
<1>5. /\ f.stage \in 1 .. 4
      /\ reader.heard[f.server].stage \in 0 .. 4 /\ reader.heard[f.server].stage < f.stage
  BY <1>2, <1>4 DEF Frames, TypeOK, Readers
<1>6. CASE f.stage = 1
  BY <1>2, <1>3, <1>4, <1>5, <1>6 DEF acceptable, Complete, Unknown
<1>7. CASE f.stage = 2
  BY <1>2, <1>3, <1>4, <1>5, <1>7 DEF acceptable, Complete, Unknown, Failed, Reached
<1>8. CASE f.stage = 3
  BY <1>2, <1>3, <1>4, <1>5, <1>8 DEF acceptable, Complete, Answered
<1>9. CASE f.stage = 4
  BY <1>2, <1>3, <1>4, <1>5, <1>9 DEF acceptable, Complete, Measured
<1> QED BY <1>4, <1>5, <1>6, <1>7, <1>8, <1>9

LEMMA HeardStages ==
  ASSUME TypeOK
  PROVE  \A s \in Servers : reader.heard[s].stage \in 0 .. 4
BY DEF TypeOK, Readers

LEMMA TellingsStep ==
  ASSUME TypeOK, Apart, Tellings, Waited, [Next]_vars
  PROVE  Tellings'
<1> USE Constants DEF progress
<1>0. Typed /\ \A w \in Workers : Tells(w) /\ worker[w] \in WorkerState
  BY DEF TypeOK, Typed, Tellings
<1>1. ASSUME NEW w \in Workers, Encode(w) PROVE Tellings'
  <2>1. /\ Others(w) /\ worker[w].frame \in Frames /\ worker'[w].frame = NoOne
        /\ worker'[w].pc = worker[w].pc /\ worker'[w].server = worker[w].server
        /\ worker'[w].result = worker[w].result /\ kind' = kind
        /\ Line(worker[w].frame) \/ reader' = reader
    BY <1>1, EncodeDoes
  <2>2. PICK f \in Frames : f = worker[w].frame
    BY <2>1
  <2>3. acceptable(f) /\ f.server \in Servers /\ Concerns(w, f.server)
    BY <2>2, FrameIsAccepted DEF Frames, Concerns
  <2>4. \/ reader' = reader
        \/ /\ reader'.heard[f.server].stage = f.stage
           /\ \A s \in Servers \ {f.server} : reader'.heard[s] = reader.heard[s]
    BY <2>1, <2>2, <2>3, LineDoes
  <2>5. \A s \in Servers : reader'.heard[s] = reader.heard[s] \/ Concerns(w, s)
    BY <2>3, <2>4
  <2>6. Told(w)' = Told(w)
    BY <2>1 DEF Told
  <2>7. /\ f.stage =< Told(w)
        /\ (worker[w].pc # "idle" => worker[w].server = f.server)
        /\ (worker[w].pc = "idle" => worker[w].server = NoOne)
    BY <1>0, <2>2 DEF Tells, Apart, Shape
  <2>8. worker[w].server # NoOne => reader'.heard[worker[w].server].stage =< Told(w)
    BY <1>0, <2>4, <2>7 DEF Tells
  <2>9. Tells(w)'
    BY <1>0, <2>1, <2>6, <2>8 DEF Tells
  <2> QED BY <1>0, <2>1, <2>5, <2>9, OthersTell DEF Tellings
<1>2. ASSUME NEW w \in Workers, Take(w) PROVE Tellings'
  <2>1. Head(jobs) \in Left
    BY <1>2, TakeDoes, NextJob DEF TypeOK, Remaining
  <2>2. reader.heard[Head(jobs)].stage = 0
    BY <2>1 DEF Apart
  <2>3. /\ Others(w) /\ reader' = reader /\ kind' = kind
        /\ \/ /\ worker'[w].pc = "exited"
              /\ worker'[w].server = NoOne /\ worker'[w].frame = NoOne
           \/ /\ \/ worker'[w].pc = "proxy" /\ Head(jobs) \in Quic
                 \/ worker'[w].pc = "ping"
              /\ worker'[w].server = Head(jobs) /\ worker'[w].result = Failed
              /\ worker'[w].frame \in Frames /\ worker'[w].frame.server = Head(jobs)
              /\ worker'[w].frame.stage = 1 /\ worker'[w].frame.result = Unknown
    BY <1>2, TakeDoes
  <2>4. Tells(w)'
    BY <2>2, <2>3 DEF Tells, Told, Complete
  <2> QED BY <1>0, <2>3, <2>4, TellingsFromOne
<1>3. ASSUME NEW w \in Workers, WorkerEnds(w) PROVE Tellings'
  <2>1. /\ Others(w) /\ reader' = reader /\ kind' = kind /\ worker'[w].pc = "exited"
        /\ worker'[w].server = NoOne /\ worker'[w].frame = NoOne
    BY <1>3, EndsDoes
  <2>2. Tells(w)'
    BY <2>1 DEF Tells, Told
  <2> QED BY <1>0, <2>1, <2>2, TellingsFromOne
<1>4. ASSUME NEW w \in Workers, Ping(w) PROVE Tellings'
  <2>1. /\ worker[w].server \in Servers /\ reader.heard[worker[w].server].stage \in 0 .. 4
        /\ reader.heard[worker[w].server].stage =< 1
    BY <1>0, <1>4, PingDoes, WorksOnServer, HeardStages DEF Tells, Told
  <2>2. Measured(Failed)
    BY Results
  <2>3. /\ Measures(w) /\ Others(w) /\ reader' = reader /\ kind' = kind
        /\ worker'[w].server = worker[w].server
    BY <1>4, PingDoes DEF Measures
  <2>4. /\ NewFrame(w, 2, worker'[w].result)
        /\ \/ worker'[w].pc = "done" /\ worker'[w].result = Failed
           \/ /\ worker'[w].pc = "proxy" /\ Reached(worker'[w].result)
              /\ worker[w].server \notin Quic
           \/ worker'[w].pc = "site" /\ Reached(worker'[w].result)
    BY <1>4, PingDoes
  <2>5. Tells(w)'
    BY <2>1, <2>2, <2>3, <2>4 DEF Tells, Told, NewFrame, Complete
  <2> QED BY <1>0, <2>3, <2>5, TellingsFromOne
<1>5. ASSUME NEW w \in Workers, Proxy(w) PROVE Tellings'
  <2>1. /\ worker[w].server \in Servers /\ reader.heard[worker[w].server].stage \in 0 .. 4
        /\ worker[w].pc = "proxy" /\ worker[w].result \in Found
    BY <1>5, ProxyDoes, WorksOnServer, HeardStages
  <2>2. IF worker[w].server \in Quic
          THEN reader.heard[worker[w].server].stage =< 1 /\ worker[w].result = Failed
          ELSE reader.heard[worker[w].server].stage =< 2 /\ Reached(worker[w].result)
    BY <1>0, <2>1 DEF Tells, Told
  <2>3. Measured(worker[w].result)
    BY <2>1, <2>2, Results
  <2>4. /\ Others(w) /\ reader' = reader /\ kind' = kind
        /\ worker'[w].server = worker[w].server
        /\ worker'[w].frame = NoOne /\ worker'[w].result = worker[w].result
        /\ \/ worker'[w].pc = "done"
           \/ worker'[w].pc = "ping" /\ worker[w].server \in Quic
           \/ worker'[w].pc = "site" /\ worker[w].server \notin Quic
    BY <1>5, ProxyDoes DEF Measures
  <2>5. Tells(w)'
    BY <2>1, <2>2, <2>3, <2>4 DEF Tells, Told
  <2> QED BY <1>0, <2>4, <2>5, TellingsFromOne
<1>6. ASSUME NEW w \in Workers, Site(w) PROVE Tellings'
  <2>1. /\ worker[w].server \in Servers /\ reader.heard[worker[w].server].stage \in 0 .. 4
        /\ reader.heard[worker[w].server].stage =< 2 /\ Reached(worker[w].result)
    BY <1>0, <1>6, SiteDoes, WorksOnServer, HeardStages DEF Tells, Told
  <2>2. /\ Others(w) /\ reader' = reader /\ kind' = kind /\ Typed'
        /\ worker'[w].server = worker[w].server
        /\ worker'[w].frame = NoOne /\ Answered(worker'[w].result)
        /\ worker'[w].pc = "done" \/ worker'[w].pc = "slot"
    BY <1>6, <2>1, SiteDoes DEF Measures
  <2>3. Measured(worker'[w].result)
    BY <2>2, Results DEF Typed, WorkerState
  <2>4. Tells(w)'
    BY <2>1, <2>2, <2>3 DEF Tells, Told
  <2> QED BY <1>0, <2>2, <2>4, TellingsFromOne
<1>7. ASSUME NEW w \in Workers, Slot(w) PROVE Tellings'
  <2>1. /\ worker[w].server \in Servers /\ reader.heard[worker[w].server].stage \in 0 .. 4
        /\ reader.heard[worker[w].server].stage =< 2 /\ Answered(worker[w].result)
        /\ worker[w].result \in Found
    BY <1>0, <1>7, SlotDoes, WorksOnServer, HeardStages DEF Tells, Told
  <2>2. /\ Others(w) /\ reader' = reader /\ kind' = kind
        /\ worker'[w].server = worker[w].server /\ worker'[w].result = worker[w].result
        /\ \/ worker'[w].pc = "download" /\ NewFrame(w, 3, worker[w].result)
           \/ worker'[w].pc = "done" /\ worker'[w].frame = NoOne
    BY <1>7, SlotDoes DEF Measures
  <2>3. Measured(worker[w].result)
    BY <2>1, Results
  <2>4. Tells(w)'
    BY <2>1, <2>2, <2>3 DEF Tells, Told, NewFrame, Complete
  <2> QED BY <1>0, <2>2, <2>4, TellingsFromOne
<1>8. ASSUME NEW w \in Workers, Download(w) PROVE Tellings'
  <2>1. /\ worker[w].server \in Servers /\ reader.heard[worker[w].server].stage \in 0 .. 4
        /\ reader.heard[worker[w].server].stage =< 3 /\ Answered(worker[w].result)
    BY <1>0, <1>8, DownloadDoes, WorksOnServer, HeardStages DEF Tells, Told
  <2>2. /\ Others(w) /\ reader' = reader /\ kind' = kind
        /\ worker'[w].server = worker[w].server /\ worker'[w].frame = NoOne
        /\ worker'[w].pc = "done" /\ Measured(worker'[w].result)
    BY <1>8, <2>1, DownloadDoes DEF Measures
  <2>3. Tells(w)'
    BY <2>1, <2>2 DEF Tells, Told
  <2> QED BY <1>0, <2>2, <2>3, TellingsFromOne
<1>9. ASSUME NEW w \in Workers,
             Completed(w) \/ BeginPublish(w) \/ Lock(w) \/ Write(w) \/ WriteFails(w) \/ Unlock(w)
      PROVE  Tellings'
  <2>1. /\ Others(w) /\ reader' = reader /\ kind' = kind
        /\ worker[w].pc \in {"done", "publish", "lock", "write", "unlock"}
        /\ \/ Rested(w)
           \/ /\ worker[w].pc = "done" /\ kind = "check" /\ worker'[w].pc = "idle"
              /\ worker'[w].server = NoOne /\ NewFrame(w, 4, worker[w].result)
           \/ /\ worker[w].pc = "done" /\ kind = "speed" /\ worker'[w].pc = "publish" /\ Keeps(w)
           \/ worker[w].pc = "publish" /\ worker'[w].pc = "lock" /\ Keeps(w)
           \/ worker[w].pc = "lock" /\ worker'[w].pc = "write" /\ Keeps(w)
           \/ /\ worker[w].pc = "write" /\ worker'[w].pc = "unlock"
              /\ worker'[w].server = worker[w].server /\ NewFrame(w, 4, worker[w].result)
    <3>1. CASE Completed(w)
      BY <3>1, CompletedDoes DEF Keeps
    <3>2. CASE BeginPublish(w)
      BY <3>2, BeginPublishDoes DEF Keeps
    <3>3. CASE Lock(w)
      BY <3>3, LockDoes DEF Keeps
    <3>4. CASE Write(w)
      BY <3>4, WriteDoes DEF Keeps
    <3>5. CASE WriteFails(w)
      BY <3>5, WriteFailsDoes DEF Keeps
    <3>6. CASE Unlock(w)
      BY <3>6, UnlockDoes DEF Keeps
    <3> QED BY <1>9, <3>1, <3>2, <3>3, <3>4, <3>5, <3>6
  <2>2. /\ worker[w].server \in Servers /\ reader.heard[worker[w].server].stage \in 0 .. 4
    BY <2>1, WorksOnServer, HeardStages
  <2>3. Tells(w)
    BY <1>0
  <2>5. ASSUME Rested(w) PROVE Tells(w)'
    BY <2>5 DEF Tells, Rested
  <2>6. ASSUME /\ Keeps(w) /\ kind = "speed"
               /\ worker'[w].pc \in {"publish", "lock", "write"}
               /\ worker[w].pc \in {"done", "publish", "lock"}
        PROVE  Tells(w)'
    <3>1. reader.heard[worker[w].server].stage =< 3 /\ Measured(worker[w].result)
      BY <2>2, <2>3, <2>6 DEF Tells, Told
    <3> QED BY <2>1, <2>2, <2>6, <3>1 DEF Tells, Told, Keeps
  <2>7. ASSUME /\ NewFrame(w, 4, worker[w].result) /\ worker[w].pc \in {"done", "write"}
               /\ \/ worker'[w].pc = "idle" /\ worker'[w].server = NoOne /\ kind = "check"
                  \/ /\ worker'[w].pc = "unlock" /\ kind = "speed"
                     /\ worker'[w].server = worker[w].server
        PROVE  Tells(w)'
    <3>1. reader.heard[worker[w].server].stage =< 3 /\ Measured(worker[w].result)
      BY <2>2, <2>3, <2>7 DEF Tells, Told
    <3>2. kind' = kind /\ reader' = reader
      BY <2>1
    <3> QED BY <2>2, <2>7, <3>1, <3>2 DEF Tells, Told, NewFrame, Complete
  <2>8. worker[w].pc \in {"publish", "lock", "write"} => kind = "speed"
    BY <2>3 DEF Tells
  <2>4. Tells(w)'
    BY <2>1, <2>5, <2>6, <2>7, <2>8
  <2> QED BY <1>0, <2>1, <2>4, TellingsFromOne
<1>10. CASE Close \/ Wait \/ Final \/ Publish \/ PublishFails \/ Cancel \/ Rival \/ UNCHANGED vars
  <2>1. worker' = worker /\ kind' = kind /\ reader' = reader
    BY <1>10 DEF Close, Wait, Final, Publish, PublishFails, Cancel, Rival, vars
  <2> QED BY <2>1 DEF Tellings, Tells, Told
<1>11. CASE Answer
  <2>1. worker' = worker /\ kind' = kind /\ reader'.heard = reader.heard
    BY <1>11, AnswerDoes
  <2> QED BY <2>1 DEF Tellings, Tells, Told
<1>12. CASE Kill
  <2>1. \A w \in Workers : /\ worker'[w].pc = "exited" /\ worker'[w].server = NoOne
                           /\ worker'[w].frame = NoOne
    BY <1>12, KillDoes
  <2> QED BY <2>1 DEF Tellings, Tells
<1> QED
  BY <1>1, <1>2, <1>3, <1>4, <1>5, <1>6, <1>7, <1>8, <1>9, <1>10, <1>11, <1>12
  DEF Next, Steps, Command, Measuring, Publishing

-----------------------------------------------------------------------------
(* The command waits for its workers, and answers once.                    *)

(* A worker that has something to do is one the command still waits for.   *)
LEMMA WaitsFor ==
  ASSUME Waited, TypeOK, NEW w \in Workers,
         worker[w].pc # "exited" \/ worker[w].frame # NoOne
  PROVE  main \in {"feed", "wait"}
BY DEF Waited, TypeOK

LEMMA WorkerActs ==
  ASSUME TypeOK, Apart, NEW w \in Workers, Measuring(w) \/ Publishing(w)
  PROVE  /\ worker[w].pc # "exited" \/ worker[w].frame # NoOne
         /\ main' = main /\ kind' = kind /\ Others(w)
         /\ (jobs' = jobs \/ Take(w))
         /\ (reader' = reader \/ Encode(w))
<1> USE DEF progress
<1>1. CASE Encode(w) \/ Take(w) \/ WorkerEnds(w) \/ Completed(w)
  BY <1>1, EncodeDoes, TakeDoes, EndsDoes, CompletedDoes, Constants
<1>2. CASE Ping(w) \/ Proxy(w) \/ Site(w) \/ Slot(w) \/ Download(w)
  BY <1>2, PingDoes, ProxyDoes, SiteDoes, SlotDoes, DownloadDoes DEF Measures
<1>3. CASE Publishing(w)
  BY <1>3, BeginPublishDoes, LockDoes, WriteDoes, WriteFailsDoes, UnlockDoes DEF Publishing
<1> QED BY <1>1, <1>2, <1>3 DEF Measuring

LEMMA WaitedStep ==
  ASSUME TypeOK, Apart, Tellings, Waited, [Next]_vars
  PROVE  Waited'
<1>1. ASSUME NEW w \in Workers, Measuring(w) \/ Publishing(w) PROVE Waited'
  <2>1. main \in {"feed", "wait"} /\ main' = main
    BY <1>1, WorkerActs, WaitsFor
  <2>2. reader.answer = NoOne /\ ~reader.refused
    BY <2>1 DEF Waited
  <2>3. CASE reader' = reader
    BY <2>1, <2>2, <2>3 DEF Waited
  <2>4. CASE Encode(w)
    <3>1. /\ worker[w].frame \in Frames
          /\ Line(worker[w].frame) \/ reader' = reader
      BY <2>4, EncodeDoes
    <3>2. acceptable(worker[w].frame)
      BY <3>1, FrameIsAccepted, Constants
    <3>3. reader'.answer = reader.answer /\ reader'.refused = reader.refused
      BY <3>1, <3>2, LineDoes
    <3> QED BY <2>1, <2>2, <3>3 DEF Waited
  <2> QED BY <1>1, <2>3, <2>4, WorkerActs
<1>2. CASE Close \/ Cancel \/ Rival \/ UNCHANGED vars
  <2>1. worker' = worker /\ reader' = reader /\ (main' = main \/ main' = "wait")
    BY <1>2 DEF Close, Cancel, Rival, progress, vars
  <2>2. CASE main' = main
    BY <2>1, <2>2 DEF Waited
  <2>3. CASE main' = "wait"
    <3>1. reader.answer = NoOne
      BY <1>2, <2>1, <2>3 DEF Close, Cancel, Rival, progress, vars, Waited
    <3> QED BY <2>1, <2>3, <3>1 DEF Waited
  <2> QED BY <2>1, <2>2, <2>3
<1>3. CASE Wait \/ Final \/ Publish \/ PublishFails
  <2>1. /\ worker' = worker /\ reader' = reader /\ main # "ended"
        /\ main \in {"final", "write"} \/ \A w \in Workers : At(w, "exited")
    BY <1>3 DEF Wait, Final, Publish, PublishFails
  <2> QED BY <2>1 DEF Waited, At
<1>4. CASE Answer
  <2>1. /\ worker' = worker /\ main \in {"ok", "refused"} /\ main' = "ended"
        /\ reader.answer # NoOne \/ reader'.refused = reader.refused
    BY <1>4, AnswerDoes
  <2> QED BY <2>1 DEF Waited
<1>5. CASE Kill
  BY <1>5, KillDoes DEF Waited
<1> QED
  BY <1>1, <1>2, <1>3, <1>4, <1>5 DEF Next, Steps, Command

BatchInv == TypeOK /\ Apart /\ Tellings /\ Waited

LEMMA BatchInit ==
  ASSUME Init
  PROVE  BatchInv
<1> USE Constants DEF Init
<1>1. 1 \in 1 .. Len(Batch) + 1 /\ Batch = SubSeq(Batch, 1, Len(Batch))
  BY ServersOfBatch, SubSeqFull
<1>2. Unknown \in Found /\ row("earlier", Unknown) \in Rows
  OBVIOUS
<1>3. \A w \in Workers : /\ worker[w].pc = "idle" /\ worker[w].server = NoOne
                         /\ worker[w].frame = NoOne
  OBVIOUS
<1>4. catalog \in Versions /\ reader \in Readers /\ baseline \in 0 .. catalog.version
  BY <1>2 DEF Versions, Readers
<1>10. worker \in [Workers -> WorkerState] /\ results \in [Servers -> Found]
  OBVIOUS
<1>11. jobs \in {SubSeq(Batch, i, Len(Batch)) : i \in 1 .. Len(Batch) + 1}
  BY <1>1
<1>12. \A w \in Workers : slot # w /\ publisher # w /\ holder # w
  OBVIOUS
<1>13. faults \in 0 .. MaxFaults
  BY BatchShape
<1>5. TypeOK
  BY <1>3, <1>4, <1>10, <1>11, <1>12, <1>13 DEF TypeOK
<1>6. Left \subseteq Servers
  BY <1>5, LeftOfBatch
<1>7. Apart
  BY <1>3, <1>6 DEF Apart, Shape, Concerns
<1>8. Tellings
  BY <1>3 DEF Tellings, Tells
<1>9. Waited
  BY DEF Waited
<1> QED BY <1>5, <1>7, <1>8, <1>9 DEF BatchInv

(* Workers, frames and the reader are as the invariants say, in every      *)
(* state (checkNodes, speedNodeUsing, CheckStream.line).                   *)
THEOREM BatchInvariant == Spec => []BatchInv
<1>1. BatchInv /\ [Next]_vars => BatchInv'
  BY TypeStep, ApartStep, TellingsStep, WaitedStep DEF BatchInv
<1> QED BY <1>1, BatchInit, PTL DEF Spec

(* The variables have their types, each lock is with the worker that is at *)
(* the lines it guards, and no two workers have one server.                *)
THEOREM TypeCorrect == Spec => []TypeOK
<1>1. BatchInv => TypeOK
  BY DEF BatchInv
<1> QED BY <1>1, BatchInvariant, PTL

(* The reader refuses no frame: whoever of the workers, a cancellation, a  *)
(* failing publication and the answer comes first, each server's frames    *)
(* reach CheckStream.line in the order of their stages, with evidence that *)
(* is complete, and before the answer.                                     *)
THEOREM FramesAreAccepted == Spec => []FramesAccepted
<1>1. BatchInv => FramesAccepted
  BY DEF BatchInv, Waited, FramesAccepted
<1> QED BY <1>1, BatchInvariant, PTL

-----------------------------------------------------------------------------
(* What others wrote is not overwritten.                                   *)

Kept(s) == catalog.rows[s].by = "other" => catalog'.rows[s].by = "other"
OthersKept == \A s \in Servers : Kept(s)

(* A worker that has the lock has it alone.                                *)
LEMMA HolderWrites ==
  ASSUME TypeOK, Waited, Baseline, NEW w \in Workers, worker[w].pc \in {"write", "unlock"}
  PROVE  /\ holder = w /\ catalog.version = baseline /\ main \in {"feed", "wait"}
         /\ \A v \in Workers \ {w} : worker[v].pc \notin {"write", "unlock"}
<1>1. \A v \in Workers : (holder = v <=> worker[v].pc \in {"write", "unlock"})
  BY DEF TypeOK
<1> QED BY <1>1, WaitsFor DEF Baseline

(* A step that leaves the catalog alone.                                   *)
LEMMA BaselineFromOne ==
  ASSUME Baseline, NEW w \in Workers, Others(w), UNCHANGED <<kind, catalog, baseline>>,
         main' = main, main \in {"feed", "wait"},
         worker'[w].pc \in {"write", "unlock"} => catalog.version = baseline,
         holder' \in Workers \cup {Main, NoOne}
  PROVE  Baseline'
BY DEF Baseline, Others

LEMMA BaselineStep ==
  ASSUME BatchInv, Baseline, [Next]_vars
  PROVE  Baseline' /\ OthersKept
<1> USE Constants DEF BatchInv, progress, locks, published
<1>1. ASSUME NEW w \in Workers, Measuring(w) PROVE Baseline' /\ OthersKept
  <2>1. /\ main \in {"feed", "wait"} /\ main' = main /\ kind' = kind /\ Others(w)
    BY <1>1, WorkerActs, WaitsFor
  <2>2. /\ catalog' = catalog /\ baseline' = baseline /\ holder' = holder
        /\ worker'[w].pc \in {"write", "unlock"} => worker'[w].pc = worker[w].pc
    BY <1>1, EncodeDoes, TakeDoes, EndsDoes, PingDoes, ProxyDoes, SiteDoes, SlotDoes, DownloadDoes,
       CompletedDoes
    DEF Measuring, Measures, Rested
  <2>3. worker'[w].pc \in {"write", "unlock"} => catalog.version = baseline
    BY <2>2 DEF Baseline
  <2>4. holder' \in Workers \cup {Main, NoOne}
    BY <2>2 DEF Baseline
  <2> QED BY <2>1, <2>2, <2>3, <2>4, BaselineFromOne DEF OthersKept, Kept
<1>2. ASSUME NEW w \in Workers, BeginPublish(w) \/ Lock(w) \/ Unlock(w)
      PROVE  Baseline' /\ OthersKept
  <2>1. main \in {"feed", "wait"} /\ main' = main /\ kind' = kind /\ Others(w)
    BY <1>2, WorkerActs, WaitsFor DEF Publishing
  <2>2. /\ catalog' = catalog /\ baseline' = baseline
        /\ holder' \in {holder, w, NoOne}
        /\ worker'[w].pc \in {"write", "unlock"} => catalog.version = baseline
    BY <1>2, BeginPublishDoes, LockDoes, UnlockDoes DEF Rested
  <2>3. holder' \in Workers \cup {Main, NoOne}
    BY <2>2 DEF Baseline
  <2> QED BY <2>1, <2>2, <2>3, BaselineFromOne DEF OthersKept, Kept
<1>3. ASSUME NEW w \in Workers, Write(w) PROVE Baseline' /\ OthersKept
  <2>1. /\ worker[w].pc = "write" /\ worker[w].server \in Servers /\ worker[w].result \in Found
        /\ Others(w) /\ Rewritten(w) /\ baseline' = catalog'.version
        /\ UNCHANGED <<kind, main, holder>>
    BY <1>3, WriteDoes, WorksOnServer
  <2>2. catalog.version = baseline /\ main \in {"feed", "wait"}
    BY <2>1, HolderWrites
  <2>3. \A s \in Servers : catalog.rows[s].by # "other"
    BY <2>2 DEF Baseline
  <2>4. \A s \in Servers : catalog'.rows[s].by # "other"
    BY <2>1, <2>3 DEF Rewritten
  <2> QED BY <2>1, <2>2, <2>3, <2>4 DEF Baseline, OthersKept, Kept
<1>4. ASSUME NEW w \in Workers, WriteFails(w) PROVE Baseline' /\ OthersKept
  <2>1. /\ worker[w].pc = "write" /\ Others(w) /\ Rested(w)
        /\ holder' = (IF holder = w THEN NoOne ELSE holder)
        /\ catalog' = catalog \/ Rewritten(w)
        /\ UNCHANGED <<kind, main, baseline>>
    BY <1>4, WriteFailsDoes
  <2>2. /\ holder = w /\ catalog.version = baseline /\ main \in {"feed", "wait"}
        /\ \A v \in Workers \ {w} : worker[v].pc \notin {"write", "unlock"}
    BY <2>1, HolderWrites
  <2>3. \A v \in Workers : worker'[v].pc \notin {"write", "unlock"}
    BY <2>1, <2>2 DEF Others, Rested
  <2>4. \A s \in Servers : catalog.rows[s].by # "other"
    BY <2>2 DEF Baseline
  <2>5. catalog' = catalog \/ catalog'.version # baseline
    BY <2>1, <2>2 DEF Rewritten, TypeOK, Versions
  <2> QED BY <2>1, <2>2, <2>3, <2>4, <2>5 DEF Baseline, OthersKept, Kept
<1>5. CASE Close \/ Wait \/ PublishFails \/ Cancel \/ UNCHANGED vars
  BY <1>5 DEF Close, Wait, PublishFails, Cancel, vars, Baseline, OthersKept, Kept
<1>6. CASE Final
  <2>1. /\ UNCHANGED <<kind, worker, catalog, baseline>>
        /\ \/ main' = "refused" /\ holder' \in {holder, Main}
           \/ /\ holder' = Main /\ catalog.version = baseline
              /\ (main' = "write" /\ kind = "check") \/ main' = "ok"
    BY <1>6 DEF Final
  <2> QED BY <2>1 DEF Baseline, OthersKept, Kept
<1>7. CASE Publish
  <2>1. main = "write" /\ main' = "ok" /\ catalog'.version = catalog.version + 1
        /\ UNCHANGED <<kind, worker, holder, baseline>>
    BY <1>7, PublishDoes
  <2>2. holder = Main /\ kind = "check" /\ catalog.version = baseline
    BY <2>1 DEF Baseline
  <2>3. \A s \in Servers : catalog.rows[s].by # "other"
    BY <2>2 DEF Baseline
  <2>4. \A v \in Workers : worker[v].pc \notin {"write", "unlock"}
    BY <2>1 DEF Waited
  <2>5. catalog'.version # baseline
    BY <2>1, <2>2 DEF TypeOK, Versions
  <2> QED BY <2>1, <2>2, <2>3, <2>4, <2>5 DEF Baseline, OthersKept, Kept
<1>8. CASE Answer
  <2>1. /\ main' = "ended" /\ holder' = NoOne
        /\ UNCHANGED <<kind, worker, catalog, baseline>>
    BY <1>8, AnswerDoes
  <2> QED BY <2>1 DEF Baseline, OthersKept, Kept
<1>9. CASE Kill
  <2>1. /\ main' = "ended" /\ holder' = NoOne /\ \A w \in Workers : worker'[w].pc = "exited"
        /\ UNCHANGED <<kind, catalog, baseline>>
    BY <1>9, KillDoes
  <2> QED BY <2>1 DEF Baseline, OthersKept, Kept
<1>10. CASE Rival
  <2>1. /\ holder = NoOne /\ catalog'.version = catalog.version + 1
        /\ \A s \in Servers : catalog'.rows[s] = catalog.rows[s] \/ catalog'.rows[s].by = "other"
        /\ UNCHANGED <<kind, main, worker, holder, baseline>>
    BY <1>10, RivalDoes
  <2>2. catalog'.version # baseline
    BY <2>1 DEF TypeOK, Versions
  <2>3. \A v \in Workers : worker[v].pc \notin {"write", "unlock"}
    BY <2>1 DEF TypeOK
  <2> QED BY <2>1, <2>2, <2>3 DEF Baseline, OthersKept, Kept
<1> QED
  BY <1>1, <1>2, <1>3, <1>4, <1>5, <1>6, <1>7, <1>8, <1>9, <1>10
  DEF Next, Steps, Command, Publishing

-----------------------------------------------------------------------------
(* What was told is what was found, and is in the catalog.                 *)

LEMMA PublishedFromOne ==
  ASSUME BatchInv, Published, NEW w \in Workers, Others(w), Typed',
         UNCHANGED <<kind, main, catalog, results>>,
         reader'.heard = reader.heard, ToldFrame(w)'
  PROVE  Published'
<1>1. \A s \in Servers : Heard(s)'
  BY DEF Published, Heard
<1>2. \A v \in Workers \ {w} : ToldFrame(v)'
  BY DEF Published, ToldFrame, Others
<1> QED BY <1>1, <1>2 DEF Published

LEMMA PublishedStep ==
  ASSUME BatchInv, Baseline, Published, [Next]_vars
  PROVE  Published'
<1> USE Constants DEF progress, locks, published
<1>0. TypeOK /\ Apart /\ Tellings /\ Waited /\ Typed
  BY DEF BatchInv, TypeOK, Typed
<1>1. ASSUME NEW w \in Workers, Encode(w) PROVE Published'
  <2>1. /\ Others(w) /\ worker[w].frame \in Frames /\ worker'[w].frame = NoOne
        /\ Line(worker[w].frame) \/ reader' = reader
        /\ UNCHANGED <<kind, main, catalog, results>>
    BY <1>0, <1>1, EncodeDoes
  <2>2. PICK f \in Frames : f = worker[w].frame
    BY <2>1
  <2>3. acceptable(f) /\ f.server \in Servers /\ f # NoOne /\ ToldFrame(w)
    BY <1>0, <2>2, FrameIsAccepted DEF Frames, Published
  <2>4. \/ reader' = reader
        \/ /\ reader'.heard[f.server].stage = f.stage
           /\ reader'.heard[f.server].result = f.result
           /\ \A s \in Servers \ {f.server} : reader'.heard[s] = reader.heard[s]
    BY <1>0, <2>1, <2>2, <2>3, LineDoes
  <2>5. ASSUME NEW s \in Servers PROVE Heard(s)'
    <3>1. Heard(s)
      BY DEF Published
    <3>2. CASE reader'.heard[s] = reader.heard[s]
      BY <2>1, <3>1, <3>2 DEF Heard
    <3>3. CASE /\ s = f.server /\ reader'.heard[s].stage = f.stage
               /\ reader'.heard[s].result = f.result
      BY <2>1, <2>2, <2>3, <3>3, <1>0 DEF Heard, ToldFrame, TypeOK
    <3> QED BY <2>4, <3>2, <3>3
  <2>6. \A v \in Workers : ToldFrame(v)'
    BY <2>1 DEF Published, ToldFrame, Others
  <2> QED BY <2>1, <2>5, <2>6 DEF Published
<1>2. ASSUME NEW w \in Workers,
             \/ Take(w) \/ WorkerEnds(w) \/ Ping(w) \/ Proxy(w) \/ Site(w) \/ Slot(w)
             \/ Download(w) \/ BeginPublish(w) \/ Lock(w) \/ Unlock(w)
      PROVE  Published'
  <2>1. /\ Others(w) /\ Typed' /\ reader'.heard = reader.heard
        /\ UNCHANGED <<kind, main, catalog, results>>
    <3>1. CASE Take(w)
      BY <1>0, <3>1, TakeDoes DEF Measures
    <3>2. CASE WorkerEnds(w)
      BY <1>0, <3>2, EndsDoes DEF Measures
    <3>3. CASE Ping(w)
      BY <1>0, <3>3, PingDoes DEF Measures
    <3>4. CASE Proxy(w)
      BY <1>0, <3>4, ProxyDoes DEF Measures
    <3>5. CASE Site(w)
      BY <1>0, <3>5, SiteDoes DEF Measures
    <3>6. CASE Slot(w)
      BY <1>0, <3>6, SlotDoes DEF Measures
    <3>7. CASE Download(w)
      BY <1>0, <3>7, DownloadDoes DEF Measures
    <3>8. CASE BeginPublish(w)
      BY <1>0, <3>8, BeginPublishDoes DEF Measures
    <3>9. CASE Lock(w)
      BY <1>0, <3>9, LockDoes DEF Measures
    <3>10. CASE Unlock(w)
      BY <1>0, <3>10, UnlockDoes DEF Measures
    <3> QED BY <1>2, <3>1, <3>2, <3>3, <3>4, <3>5, <3>6, <3>7, <3>8, <3>9, <3>10
  <2>3. \/ worker'[w].frame = NoOne
        \/ worker'[w].frame.stage = 1
        \/ NewFrame(w, 2, worker'[w].result)
        \/ NewFrame(w, 3, worker[w].result)
    <3>1. CASE Take(w)
      BY <1>0, <3>1, TakeDoes DEF Rested, Keeps
    <3>2. CASE WorkerEnds(w)
      BY <1>0, <3>2, EndsDoes DEF Rested, Keeps
    <3>3. CASE Ping(w)
      BY <1>0, <3>3, PingDoes DEF Rested, Keeps
    <3>4. CASE Proxy(w)
      BY <1>0, <3>4, ProxyDoes DEF Rested, Keeps
    <3>5. CASE Site(w)
      BY <1>0, <3>5, SiteDoes DEF Rested, Keeps
    <3>6. CASE Slot(w)
      BY <1>0, <3>6, SlotDoes DEF Rested, Keeps
    <3>7. CASE Download(w)
      BY <1>0, <3>7, DownloadDoes DEF Rested, Keeps
    <3>8. CASE BeginPublish(w)
      BY <1>0, <3>8, BeginPublishDoes DEF Rested, Keeps
    <3>9. CASE Lock(w)
      BY <1>0, <3>9, LockDoes DEF Rested, Keeps
    <3>10. CASE Unlock(w)
      BY <1>0, <3>10, UnlockDoes DEF Rested, Keeps
    <3> QED BY <1>2, <3>1, <3>2, <3>3, <3>4, <3>5, <3>6, <3>7, <3>8, <3>9, <3>10
  <2>2. ToldFrame(w)'
    BY <2>3 DEF ToldFrame, NewFrame
  <2> QED BY <2>1, <2>2, PublishedFromOne
<1>3. ASSUME NEW w \in Workers, Completed(w) PROVE Published'
  <2>1. /\ worker[w].pc = "done" /\ worker[w].server \in Servers
        /\ Others(w) /\ Typed'
        /\ results' = [results EXCEPT ![worker[w].server] = worker[w].result]
        /\ UNCHANGED <<kind, main, catalog, reader>>
    BY <1>0, <1>3, CompletedDoes
  <2>2. PICK q \in Servers : q = worker[w].server
    BY <2>1
  <2>3. /\ results'[q] = worker[w].result
        /\ \A s \in Servers \ {q} : results'[s] = results[s]
    BY <1>0, <2>1, <2>2 DEF TypeOK
  <2>4. reader.heard[q].stage # 4
    BY <1>0, <2>1, <2>2, HeardStages DEF Tellings, Tells, Told
  <2>5. \A s \in Servers : Heard(s)'
    BY <2>1, <2>3, <2>4 DEF Published, Heard
  <2>6. ASSUME NEW v \in Workers \ {w} PROVE ToldFrame(v)'
    <3>1. worker'[v] = worker[v] /\ ToldFrame(v) /\ worker[v].frame \in Frames \cup {NoOne}
      BY <1>0, <2>1 DEF Others, Published, Typed, WorkerState
    <3>2. Concerns(w, q)
      BY <2>2 DEF Concerns
    <3>3. worker[v].frame # NoOne => worker[v].frame.server \in Servers \ {q}
      BY <1>0, <3>1, <3>2 DEF Apart, Concerns, Frames
    <3> QED BY <2>1, <2>3, <3>1, <3>3 DEF ToldFrame
  <2>7. ToldFrame(w)'
    <3>1. \/ worker'[w].frame = NoOne
          \/ kind = "check" /\ NewFrame(w, 4, worker[w].result)
      BY <1>0, <1>3, CompletedDoes DEF Rested
    <3> QED BY <2>1, <2>2, <2>3, <3>1 DEF ToldFrame, NewFrame
  <2>8. main \in {"feed", "wait"}
    BY <1>0, <2>1, WaitsFor
  <2> QED BY <2>1, <2>5, <2>6, <2>7, <2>8 DEF Published
<1>4. ASSUME NEW w \in Workers, Write(w) \/ WriteFails(w) PROVE Published'
  <2>1. /\ worker[w].pc = "write" /\ worker[w].server \in Servers
        /\ Others(w) /\ (catalog' = catalog \/ Rewritten(w))
        /\ UNCHANGED <<kind, main, results, reader>>
    BY <1>0, <1>4, WriteDoes, WriteFailsDoes
  <2>2. /\ main \in {"feed", "wait"}
        /\ \A v \in Workers \ {w} : worker[v].pc \notin {"write", "unlock"}
    BY <1>0, <2>1, HolderWrites
  <2>3. reader.heard[worker[w].server].stage # 4 /\ kind = "speed"
    BY <1>0, <2>1, HeardStages DEF Tellings, Tells, Told
  <2>4. ASSUME NEW s \in Servers PROVE Heard(s)'
    <3>1. catalog'.rows[s] = catalog.rows[s] \/ s = worker[w].server
      BY <2>1 DEF Rewritten
    <3>2. reader' = reader /\ kind' = kind /\ results' = results /\ Heard(s)
      BY <2>1 DEF Published
    <3>3. reader.heard[s].stage = 4 => catalog'.rows[s] = catalog.rows[s]
      BY <2>3, <3>1
    <3> QED BY <2>3, <3>2, <3>3 DEF Heard
  <2>5. \A v \in Workers \ {w} : ToldFrame(v)'
    BY <2>1, <2>2, <2>3 DEF Published, ToldFrame, Others
  <2>6. ToldFrame(w)'
    <3>1. \/ worker'[w].frame = NoOne
          \/ /\ worker'[w].pc = "unlock" /\ Rewritten(w)
             /\ NewFrame(w, 4, worker[w].result)
      BY <1>0, <1>4, WriteDoes, WriteFailsDoes DEF Rested
    <3> QED BY <2>1, <2>3, <3>1 DEF ToldFrame, NewFrame, Rewritten
  <2> QED BY <2>1, <2>2, <2>4, <2>5, <2>6 DEF Published
<1>5. CASE Close \/ Wait \/ PublishFails \/ Cancel \/ UNCHANGED vars
  <2>1. /\ UNCHANGED <<kind, worker, catalog, results, reader>>
        /\ main' = main \/ main' # "ok"
    BY <1>5 DEF Close, Wait, PublishFails, Cancel, vars
  <2> QED BY <2>1 DEF Published, Heard, ToldFrame
<1>6. CASE Final
  <2>1. /\ UNCHANGED <<kind, worker, catalog, results, reader>>
        /\ main' = "ok" => kind # "check"
    BY <1>6 DEF Final
  <2> QED BY <2>1 DEF Published, Heard, ToldFrame
<1>7. CASE Publish
  <2>1. /\ main = "write" /\ \A s \in Servers : catalog'.rows[s] = measured(results[s])
        /\ UNCHANGED <<kind, worker, results, reader>>
    BY <1>0, <1>7, PublishDoes
  <2>2. kind = "check" /\ \A w \in Workers : worker[w].frame = NoOne
    BY <1>0, <2>1 DEF Baseline, Waited
  <2> QED BY <2>1, <2>2 DEF Published, Heard, ToldFrame
<1>8. CASE Answer
  <2>1. /\ main' = "ended" /\ reader'.heard = reader.heard
        /\ UNCHANGED <<kind, worker, catalog, results>>
    BY <1>0, <1>8, AnswerDoes
  <2> QED BY <2>1 DEF Published, Heard, ToldFrame
<1>9. CASE Kill
  <2>1. /\ main' = "ended" /\ \A w \in Workers : worker'[w].frame = NoOne
        /\ UNCHANGED <<kind, catalog, results, reader>>
    BY <1>0, <1>9, KillDoes
  <2> QED BY <2>1 DEF Published, Heard, ToldFrame
<1>10. CASE Rival
  <2>1. /\ holder = NoOne
        /\ \A s \in Servers : catalog'.rows[s] = catalog.rows[s] \/ catalog'.rows[s].by = "other"
        /\ UNCHANGED <<kind, main, worker, results, reader>>
    BY <1>0, <1>10, RivalDoes
  <2>2. main # "ok" /\ \A w \in Workers : worker[w].pc # "unlock"
    BY <1>0, <2>1 DEF Baseline, TypeOK
  <2>3. \A s \in Servers : Heard(s)'
    BY <2>1 DEF Published, Heard
  <2>4. \A w \in Workers : ToldFrame(w)'
    BY <2>1, <2>2 DEF Published, ToldFrame
  <2> QED BY <2>1, <2>2, <2>3, <2>4 DEF Published
<1> QED
  BY <1>1, <1>2, <1>3, <1>4, <1>5, <1>6, <1>7, <1>8, <1>9, <1>10
  DEF Next, Steps, Command, Measuring, Publishing

-----------------------------------------------------------------------------
(* Nobody is lost.                                                         *)

Seen(s) == s \in Left \/ reader.heard[s].stage = 4 \/ \E w \in Workers : Concerns(w, s)

(* What a step of a worker leaves of its server.                           *)
LEMMA SeenFromOne ==
  ASSUME BatchInv, Everyone, NEW w \in Workers, Others(w), main' = main,
         main \in {"feed", "wait"}, context' = "live" => context = "live",
         failed' => context' = "done", jobs' = jobs \/ main = "feed",
         context' = "live" =>
           /\ \A s \in Servers : reader.heard[s].stage = 4 => reader'.heard[s].stage = 4
           /\ \A s \in Servers : s \in Left => (s \in Left' \/ Concerns(w, s)')
           /\ \A s \in Servers :
                Concerns(w, s) => (Concerns(w, s)' \/ reader'.heard[s].stage = 4),
         Completes(w)'
  PROVE  Everyone'
<1>1. \A v \in Workers \ {w} : \A s \in Servers : Concerns(v, s) => Concerns(v, s)'
  BY DEF Others, Concerns
<1>2. ASSUME context' = "live", NEW s \in Servers PROVE Seen(s)'
  <2>1. context = "live" /\ Seen(s)
    BY <1>2 DEF Everyone, Seen
  <2>2. CASE s \in Left
    BY <1>2, <2>2 DEF Seen
  <2>3. CASE reader.heard[s].stage = 4
    BY <1>2, <2>3 DEF Seen
  <2>4. ASSUME NEW v \in Workers, Concerns(v, s) PROVE Seen(s)'
    BY <1>1, <1>2, <2>4 DEF Seen
  <2> QED BY <2>1, <2>2, <2>3, <2>4 DEF Seen
<1>3. ASSUME NEW v \in Workers \ {w} PROVE Completes(v)'
  <2>1. worker'[v] = worker[v] /\ Completes(v)
    BY DEF Others, Everyone
  <2>2. worker[v].pc = "unlock" => worker[v].server \in Servers
    BY WorksOnServer DEF BatchInv
  <2> QED BY <2>1, <2>2 DEF Completes
<1>4. \A v \in Workers : Completes(v)'
  BY <1>3
<1>5. (context' = "live" /\ main' = "wait") => jobs' = <<>>
  BY DEF Everyone
<1> QED BY <1>2, <1>4, <1>5 DEF Everyone, Seen

LEMMA EveryoneStep ==
  ASSUME BatchInv, Everyone, [Next]_vars
  PROVE  Everyone'
<1> USE Constants DEF progress, locks, published
<1>0. TypeOK /\ Apart /\ Tellings /\ Waited /\ context \in {"live", "done"}
  BY DEF BatchInv, TypeOK
<1>1. ASSUME NEW w \in Workers, Encode(w) PROVE Everyone'
  <2>1. /\ Others(w) /\ worker[w].frame \in Frames /\ worker'[w].frame = NoOne
        /\ worker'[w].pc = worker[w].pc /\ worker'[w].server = worker[w].server
        /\ \/ Line(worker[w].frame) /\ context' = context
           \/ reader' = reader /\ context' = "done"
        /\ UNCHANGED <<main, failed, jobs>>
    BY <1>0, <1>1, EncodeDoes
  <2>2. PICK f \in Frames : f = worker[w].frame
    BY <2>1
  <2>3. /\ acceptable(f) /\ f.server \in Servers /\ f # NoOne
        /\ reader.heard[f.server].stage < f.stage /\ f.stage \in 1 .. 4
    BY <1>0, <2>2, FrameIsAccepted DEF Frames, Tellings, Tells
  <2>4. main \in {"feed", "wait"}
    BY <1>0, <2>1, WaitsFor
  <2>5. ASSUME context' = "live"
        PROVE  /\ reader'.heard[f.server].stage = f.stage
               /\ \A s \in Servers \ {f.server} : reader'.heard[s] = reader.heard[s]
    BY <1>0, <2>1, <2>2, <2>3, <2>5, LineDoes
  <2>6. /\ (worker[w].pc # "idle" => worker[w].server = f.server)
        /\ (worker[w].pc = "idle" => f.stage = 4)
        /\ (worker[w].pc = "unlock" => f.stage = 4)
    BY <1>0, <2>2, <2>3 DEF Tellings, Tells, Apart, Shape, Everyone, Completes
  <2>7. \A s \in Servers :
          Concerns(w, s) => (Concerns(w, s)' \/ s = f.server)
    BY <2>1, <2>2 DEF Concerns
  <2>8. Concerns(w, f.server)' \/ f.stage = 4
    BY <2>1, <2>6 DEF Concerns
  <2>9. Completes(w)'
    BY <2>1, <2>5, <2>6 DEF Completes
  <2>10. context' = "live" =>
           \A s \in Servers : reader.heard[s].stage = 4 => reader'.heard[s].stage = 4
    BY <1>0, <2>3, <2>5, HeardStages
  <2>11. context' = "live" => context = "live"
    BY <2>1
  <2>12. failed' => context' = "done"
    BY <2>1 DEF Everyone
  <2> QED BY <2>1, <2>4, <2>5, <2>7, <2>8, <2>9, <2>10, <2>11, <2>12, Unmoved, SeenFromOne
<1>2. ASSUME NEW w \in Workers, Take(w) PROVE Everyone'
  <2>1. /\ Left = {Head(jobs)} \cup Left' /\ Head(jobs) \in Servers
    BY <1>0, <1>2, TakeDoes, NextJob DEF TypeOK, Remaining
  <2>2. /\ Others(w) /\ main = "feed" /\ UNCHANGED <<main, context, failed, reader>>
        /\ worker[w].pc = "idle" /\ worker[w].frame = NoOne
        /\ \/ context = "done" /\ worker'[w].pc = "exited"
           \/ worker'[w].pc \in {"proxy", "ping"} /\ worker'[w].server = Head(jobs)
    BY <1>0, <1>2, TakeDoes
  <2>3. \A s \in Servers : ~Concerns(w, s)
    BY <1>0, <2>2 DEF Apart, Shape, Concerns
  <2>4. Completes(w)'
    BY <2>2 DEF Completes
  <2>5. context = "live" => \A s \in Servers : s \in Left => (s \in Left' \/ Concerns(w, s)')
    BY <2>1, <2>2 DEF Concerns
  <2>6. failed' => context' = "done"
    BY <2>2 DEF Everyone
  <2> QED BY <2>2, <2>3, <2>4, <2>5, <2>6, SeenFromOne
<1>3. ASSUME NEW w \in Workers,
             \/ WorkerEnds(w) \/ Ping(w) \/ Proxy(w) \/ Site(w) \/ Slot(w) \/ Download(w)
             \/ Completed(w) \/ BeginPublish(w) \/ Lock(w) \/ Write(w) \/ WriteFails(w)
             \/ Unlock(w)
      PROVE  Everyone'
  <2>1. Others(w) /\ main' = main /\ jobs' = jobs /\ reader' = reader /\ main \in {"feed", "wait"}
    <3>1. /\ worker[w].pc # "exited" \/ worker[w].frame # NoOne
          /\ main' = main /\ Others(w)
      BY <1>0, <1>3, WorkerActs DEF Measuring, Publishing
    <3>2. jobs' = jobs /\ reader' = reader
      BY <1>3 DEF WorkerEnds, Ping, Proxy, Site, Slot, Download, Completed, BeginPublish, Lock,
                  Write, WriteFails, Unlock
    <3> QED BY <1>0, <3>1, <3>2, WaitsFor
  <2>2. (context' = context /\ failed' = failed) \/ context' = "done"
    BY <1>3 DEF WorkerEnds, Ping, Proxy, Site, Slot, Download, Completed, BeginPublish, Lock,
                GivesUp, Write, WriteFails, Unlock
  <2>3. (context' = "live" => context = "live") /\ (failed' => context' = "done")
    BY <1>0, <2>2 DEF Everyone
  <2>4. \/ context' = "done" /\ worker'[w].pc # "unlock"
        \/ /\ worker[w].frame = NoOne /\ worker'[w].server = worker[w].server
           /\ \/ worker'[w].pc # "unlock"
              \/ NewFrame(w, 4, worker[w].result) /\ context' = context
        \/ /\ worker[w].frame = NoOne /\ NewFrame(w, 4, worker[w].result)
           /\ context' = context /\ worker'[w].pc = "idle"
        \/ /\ worker[w].frame = NoOne /\ worker[w].pc = "unlock" /\ Rested(w)
           /\ context' = context
    <3>1. CASE WorkerEnds(w)
      BY <1>0, <3>1, EndsDoes DEF Apart, Shape
    <3>2. CASE Ping(w) \/ Proxy(w) \/ Site(w) \/ Slot(w) \/ Download(w)
      BY <1>0, <3>2, PingDoes, ProxyDoes, SiteDoes, SlotDoes, DownloadDoes DEF Measures
    <3>3. CASE Completed(w)
      BY <1>0, <3>3, CompletedDoes DEF Rested
    <3>4. CASE BeginPublish(w)
      BY <1>0, <3>4, BeginPublishDoes DEF Rested, Keeps, Everyone
    <3>5. CASE Lock(w)
      BY <1>0, <3>5, LockDoes DEF Rested, Keeps
    <3>6. CASE Write(w)
      BY <1>0, <3>6, WriteDoes
    <3>7. CASE WriteFails(w)
      BY <1>0, <3>7, WriteFailsDoes DEF Rested
    <3>8. CASE Unlock(w)
      BY <1>0, <3>8, UnlockDoes
    <3> QED BY <1>3, <3>1, <3>2, <3>3, <3>4, <3>5, <3>6, <3>7, <3>8
  <2>5. worker[w].pc = "unlock" => Completes(w)
    BY DEF Everyone
  <2>6. ASSUME context' = "live", NEW s \in Servers, Concerns(w, s)
        PROVE  Concerns(w, s)' \/ reader'.heard[s].stage = 4
    BY <2>1, <2>3, <2>4, <2>5, <2>6 DEF Concerns, NewFrame, Completes
  <2>7. Completes(w)'
    BY <2>3, <2>4 DEF Completes, NewFrame, Rested
  <2> QED BY <2>1, <2>3, <2>6, <2>7, Unmoved, SeenFromOne
<1>4. CASE Close
  <2>1. /\ main = "feed" /\ main' = "wait" /\ (jobs = <<>> \/ context = "done")
        /\ UNCHANGED <<context, jobs, worker, failed, reader>>
    BY <1>4 DEF Close
  <2> QED BY <1>0, <2>1, Unmoved DEF Everyone, Completes, Concerns
<1>5. CASE Wait
  <2>1. /\ main = "wait" /\ \A w \in Workers : At(w, "exited")
        /\ \/ main' = "refused"
           \/ main' = "final" /\ context # "done"
        /\ UNCHANGED <<context, jobs, worker, failed, reader>>
    BY <1>5 DEF Wait
  <2>2. \A s \in Servers : \A w \in Workers : ~Concerns(w, s)
    BY <1>0, <2>1 DEF At, Apart, Shape, Concerns
  <2>3. jobs = <<>> => Left = {}
    BY DEF Left, Elements
  <2>4. main' = "final" => \A s \in Servers : reader.heard[s].stage = 4
    BY <1>0, <2>1, <2>2, <2>3 DEF Everyone
  <2>5. \A w \in Workers : Completes(w)'
    BY <2>1 DEF Completes, At
  <2> QED BY <2>1, <2>4, <2>5 DEF Everyone
<1>6. CASE Final \/ Publish \/ PublishFails
  <2>1. /\ main \in {"final", "write"} /\ main' \in {"write", "ok", "refused"}
        /\ UNCHANGED <<context, jobs, worker, failed, reader>>
    BY <1>6 DEF Final, Publish, PublishFails
  <2> QED BY <2>1 DEF Everyone, Completes
<1>7. CASE Answer
  <2>1. /\ main' = "ended" /\ reader'.heard = reader.heard
        /\ UNCHANGED <<context, jobs, worker, failed>>
    BY <1>0, <1>7, AnswerDoes
  <2> QED BY <2>1 DEF Everyone, Completes
<1>8. CASE Cancel
  <2>1. context' = "done" /\ UNCHANGED <<main, jobs, worker, failed, reader>>
    BY <1>8 DEF Cancel
  <2> QED BY <2>1 DEF Everyone, Completes
<1>9. CASE Kill
  <2>1. /\ main' = "ended" /\ \A w \in Workers : worker'[w].pc = "exited"
        /\ UNCHANGED <<context, failed>>
    BY <1>0, <1>9, KillDoes
  <2> QED BY <2>1 DEF Everyone, Completes
<1>10. CASE Rival \/ UNCHANGED vars
  <2>1. UNCHANGED <<context, main, jobs, worker, failed, reader>>
    BY <1>10 DEF Rival, vars
  <2> QED BY <2>1, Unmoved DEF Everyone, Completes, Concerns
<1> QED
  BY <1>1, <1>2, <1>3, <1>4, <1>5, <1>6, <1>7, <1>8, <1>9, <1>10
  DEF Next, Steps, Command, Measuring, Publishing

-----------------------------------------------------------------------------
(* The theorem.                                                            *)

PublicationInv == BatchInv /\ Baseline /\ Published /\ Everyone

LEMMA PublicationInit ==
  ASSUME Init
  PROVE  PublicationInv
<1> USE Constants DEF Init
<1>1. BatchInv
  BY BatchInit
<1>2. Baseline
  BY DEF Baseline
<1>3. Published
  BY DEF Published, Heard, ToldFrame
<1>4. 1 \in 1 .. Len(Batch) + 1 /\ jobs = SubSeq(Batch, 1, Len(Batch))
  BY ServersOfBatch, SubSeqFull
<1>5. Left = Servers
  BY <1>4, RemainingElements, ServersOfBatch DEF Left
<1>6. Everyone
  BY <1>5 DEF Everyone, Completes
<1> QED BY <1>1, <1>2, <1>3, <1>6 DEF PublicationInv

LEMMA PublicationStep ==
  PublicationInv /\ [Next]_vars => PublicationInv' /\ [OthersKept]_vars
<1> SUFFICES ASSUME PublicationInv, [Next]_vars
             PROVE  PublicationInv' /\ OthersKept
  OBVIOUS
<1>1. BatchInv'
  BY TypeStep, ApartStep, TellingsStep, WaitedStep DEF BatchInv, PublicationInv
<1> QED BY <1>1, BaselineStep, PublishedStep, EveryoneStep DEF PublicationInv

(* What is published when, and what an "ok" says.                          *)
CompleteIsIn ==
  kind = "speed" =>
    \A s \in Servers : reader.heard[s].stage = 4 =>
      catalog.rows[s] = measured(reader.heard[s].result) \/ catalog.rows[s].by = "other"
OkSaysAll ==
  main = "ok" =>
    \A s \in Servers :
      reader.heard[s].stage = 4 /\ catalog.rows[s] = measured(reader.heard[s].result)

(* "Each completion is durably published before its progress event": what  *)
(* the reader of a speed test heard is in the catalog or was replaced by   *)
(* others, an "ok" says that all of it is, and no measurement is written   *)
(* over what others wrote after it began (runBrowserSpeedBatch and         *)
(* runBrowserCheckBatch), with any number of workers, servers and faults.  *)
THEOREM CompletionsArePublished == Spec => CompletedIsPublished
<1>1. PublicationInv => CompleteIsIn
  BY DEF PublicationInv, Published, Heard, CompleteIsIn
<1>2. PublicationInv => OkSaysAll
  <2> SUFFICES ASSUME PublicationInv, main = "ok", NEW s \in Servers
               PROVE  /\ reader.heard[s].stage = 4
                      /\ catalog.rows[s] = measured(reader.heard[s].result)
    BY DEF OkSaysAll
  <2>1. reader.heard[s].stage = 4
    BY DEF PublicationInv, Everyone
  <2>2. CASE kind = "check"
    BY <2>1, <2>2 DEF PublicationInv, Published, Heard
  <2>3. CASE kind = "speed"
    <3>1. catalog.rows[s].by # "other"
      BY <2>3 DEF PublicationInv, Baseline
    <3> QED BY <2>1, <2>3, <3>1 DEF PublicationInv, Published, Heard
  <2>4. kind \in {"check", "speed"}
    BY DEF PublicationInv, BatchInv, TypeOK
  <2> QED BY <2>1, <2>2, <2>3, <2>4
<1>3. Spec => []PublicationInv /\ [][OthersKept]_vars
  BY PublicationInit, PublicationStep, PTL DEF Spec
<1>4. Spec => []CompleteIsIn /\ []OkSaysAll /\ [][OthersKept]_vars
  BY <1>1, <1>2, <1>3, PTL
<1> QED BY <1>4 DEF CompletedIsPublished, CompleteIsIn, OkSaysAll, OthersKept, Kept

================================================================================
