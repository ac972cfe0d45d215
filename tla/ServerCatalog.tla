----------------------------- MODULE ServerCatalog -----------------------------
(***************************************************************************)
(* The private catalog of servers: commands list, refresh, measure and     *)
(* select servers, each a process of its own.  They look at the catalog    *)
(* under the state lock, measure without it, and publish under it again,   *)
(* unless something was published meanwhile.                               *)
(*                                                                         *)
(* A publication writes six files one by one, each by rename and directory *)
(* sync, under a journal; every holder of the lock first recovers what an  *)
(* earlier one left.  Seals are abstracted: a file holds what was written. *)
(***************************************************************************)
EXTENDS Naturals, Sequences

CONSTANTS
  Commands,     \* processes
  Servers,      \* of the subscription
  Pipelines,    \* kinds of measurement: of rtt and availability, of speed
  NoFile,       \* an absent file, an absent catalog
  MaxCommands,  \* bound on commands run
  Hazards,      \* "io" errors, "cancel"led contexts, "kill"s, power "cut"s,
                \* "reorder": a cut may keep a change and lose an earlier one;
                \* "link": a kill between link and unlink of the salt
  MaxFaults     \* bound on them

VARIABLES
  files,     \* what the directory shows
  durable,   \* the directories a power cut may leave
  holder,    \* of the state lock, or NoFile
  run,       \* of each process
  selected,  \* the server in current-node.json, and which command wrote it
  shown,     \* the catalog that the last one who read it, or published, saw
  commands, faults

vars == <<files, durable, holder, run, selected, shown, commands, faults>>

Stamps == 1 .. MaxCommands
Atomic == INSTANCE AtomicCatalog WITH NoCatalog <- NoFile, catalog <- shown

Generations == 1 .. MaxCommands + 1
Catalog     == Atomic!Catalogs(Generations)
Generation  == [highWater : Generations, revision : 0 .. MaxCommands + 1]
Current     == [highWater : Generations, revision : Generations]
Commit      == [highWater : Generations, revision : Generations,
                catalog : Catalog \cup {NoFile}]
Journal     == [phase : {"prepared", "rollback-requested"},
                old : Catalog \cup {NoFile}, new : Catalog,
                before : Generation \cup {NoFile}, after : Current]

Content ==
  [salt |-> {"linked", "whole"}, generation |-> Generation, catalog |-> Catalog,
   commit |-> Commit, journal |-> Journal, backup |-> Catalog]
Directory == DOMAIN Content
Published == Directory \ {"journal", "backup"}
Files ==
  [salt : {NoFile, "linked", "whole"}, generation : Generation \cup {NoFile},
   catalog : Catalog \cup {NoFile}, commit : Commit \cup {NoFile},
   journal : Journal \cup {NoFile}, backup : Catalog \cup {NoFile}]
Op(x, v) == [file |-> x, value |-> v]
Ops(x)   == [file : {x}, value : Content[x] \cup {NoFile}]
Operation ==
  Ops("salt") \cup Ops("generation") \cup Ops("catalog") \cup Ops("commit")
    \cup Ops("journal") \cup Ops("backup")

ASSUME CatalogShape ==
  /\ {MaxCommands, MaxFaults} \subseteq Nat
  /\ Servers # {} /\ NoFile \notin Commands
  /\ \A x \in Directory : NoFile \notin Content[x]

CommandKinds == {"list", "refresh", "measure", "select"}
Locked    == {"recover", "rerecover", "ready", "publish", "abort"}
Selection == [server : Servers \cup {NoFile}, version : 0 .. MaxCommands]
Run ==
  [pc : {"idle", "lock", "measure"} \cup Locked, kind : CommandKinds,
   stamp : 0 .. MaxCommands, base : Files \cup {NoFile},
   selection : Selection \cup {NoFile}, overtaken : BOOLEAN,
   todo : Seq(Operation)]
Idle == [pc |-> "idle", kind |-> "list", stamp |-> 0, base |-> NoFile,
         selection |-> NoFile, overtaken |-> FALSE, todo |-> <<>>]

TypeOK ==
  /\ files \in durable /\ durable \subseteq Files
  /\ run \in [Commands -> Run]
  /\ \A p \in Commands : /\ (holder = p <=> run[p].pc \in Locked)
                         /\ (run[p].todo # <<>> => holder = p)
  /\ holder \in Commands \cup {NoFile}
  /\ selected \in Selection /\ shown \in Catalog \cup {NoFile}
  /\ commands \in 0 .. MaxCommands /\ faults \in 0 .. MaxFaults

Fault(h) == h \in Hazards /\ faults < MaxFaults /\ faults' = faults + 1

(***************************************************************************)
(* What the files say: captureBrowserPublicationBaselineLocked and         *)
(* validateBrowserPublicationPair.                                         *)
(***************************************************************************)
unsalted(f) == \A x \in Published : f[x] = NoFile
current(f)  == f.generation # NoFile /\ f.generation.revision > 0

pairValid(f) ==
  /\ f.commit # NoFile
  /\ f.commit.highWater = f.generation.highWater
  /\ f.commit.revision = f.generation.revision
  /\ f.commit.catalog = f.catalog
  /\ f.catalog # NoFile => f.catalog.generation =< f.generation.highWater

readable(f) ==
  \/ unsalted(f)
  \/ /\ f.salt = "whole" /\ current(f) /\ pairValid(f)
  \/ /\ f.salt = "whole" /\ \A x \in Published \ {"salt"} : f[x] = NoFile

(***************************************************************************)
(* A program is the sequence of files that a holder of the lock has still  *)
(* to write or, with NoFile, to remove.                                    *)
(***************************************************************************)
cleanup == <<Op("backup", NoFile), Op("journal", NoFile)>>

(* Mutant: the journal is there before what it needs to be undone.         *)
publicationUnbacked(f, new, highWater) ==
  LET revision == IF f.generation = NoFile THEN 0 ELSE f.generation.revision
      state == [highWater |-> highWater, revision |-> revision + 1]
  IN <<Op("journal", [phase |-> "prepared", old |-> f.catalog, new |-> new,
                      before |-> f.generation, after |-> state]),
       Op("backup", f.catalog), Op("generation", state), Op("catalog", new),
       Op("commit", [highWater |-> highWater, revision |-> revision + 1, catalog |-> new])>>
     \o cleanup

(* publishBrowserCatalogLocked.                                            *)
publication(f, new, highWater) ==
  LET revision == IF f.generation = NoFile THEN 0 ELSE f.generation.revision
      state == [highWater |-> highWater, revision |-> revision + 1]
  IN <<Op("backup", f.catalog),
       Op("journal", [phase |-> "prepared", old |-> f.catalog, new |-> new,
                      before |-> f.generation, after |-> state]),
       Op("generation", state), Op("catalog", new),
       Op("commit", [highWater |-> highWater, revision |-> revision + 1, catalog |-> new])>>
     \o cleanup

(* The commits that go with a journal: of the state before it, of the one  *)
(* it announces, and of the old catalog under the new revision.            *)
commitOf(state, c) ==
  IF state = NoFile THEN NoFile
  ELSE [highWater |-> state.highWater, revision |-> state.revision, catalog |-> c]

finalState(f, j) ==
  f.generation = j.after /\ f.commit = commitOf(j.after, j.new) /\ f.catalog = j.new
rollbackState(f, j) ==
  f.generation = j.after /\ f.commit = commitOf(j.after, j.old) /\ f.catalog = j.old

settled(f, j) == (j.phase = "prepared" /\ finalState(f, j)) \/ rollbackState(f, j)

expected(f, j) ==
  /\ f.generation \in {NoFile, j.before, j.after}
  /\ f.commit \in {NoFile, commitOf(j.before, j.old), commitOf(j.after, j.old),
                   commitOf(j.after, j.new)}
  /\ f.catalog \in {j.old, j.new}
  /\ j.old # NoFile => f.backup = j.old

(* normalizeBrowserPublicationLocked: files of an earlier edition have no  *)
(* commit, and a generation without a revision or none at all.             *)
legacy(f) ==
  f.salt # NoFile /\ ~current(f) /\ (f.generation # NoFile \/ f.catalog # NoFile)
migrated(f) ==
  [highWater |-> IF f.generation # NoFile THEN f.generation.highWater ELSE f.catalog.generation,
   revision |-> 1]

normalizes(f) ==
  \/ unsalted(f)
  \/ f.salt # NoFile /\ current(f) /\ pairValid(f)
  \/ /\ legacy(f)
     /\ (f.generation # NoFile /\ f.catalog # NoFile)
           => f.generation.highWater = f.catalog.generation
     /\ f.commit \in {NoFile, commitOf(migrated(f), f.catalog)}
  \/ f.salt # NoFile /\ \A x \in Published \ {"salt"} : f[x] = NoFile

normalization(f) ==
  IF ~legacy(f) THEN <<>>
  ELSE IF f.commit # NoFile THEN <<Op("generation", migrated(f))>>
  ELSE <<Op("commit", commitOf(migrated(f), f.catalog)), Op("generation", migrated(f))>>

(* recoverBrowserPublicationLocked and its -TransactionLocked: refused, or *)
(* the program that recovers.                                              *)
refused(f) ==
  \/ f.salt = "linked"
  \/ f.journal = NoFile /\ ~normalizes(f)
  \/ /\ f.journal # NoFile
     /\ f.salt = NoFile \/ (~settled(f, f.journal) /\ ~expected(f, f.journal))

recovery(f) ==
  LET j == f.journal IN
  IF j = NoFile THEN <<Op("backup", NoFile)>> \o normalization(f)
  ELSE IF settled(f, j) THEN cleanup
  ELSE <<Op("catalog", j.old), Op("generation", j.after),
         Op("commit", commitOf(j.after, j.old))>> \o cleanup

(***************************************************************************)
(* Commands.  Leave: the answer is written and the lock given back.        *)
(***************************************************************************)
Leave(p) == run' = [run EXCEPT ![p] = Idle] /\ holder' = IF holder = p THEN NoFile ELSE holder
Goto(p, pc, todo) == run' = [run EXCEPT ![p].pc = pc, ![p].todo = todo] /\ UNCHANGED holder
Becomes(p, todo) ==
  /\ run' = [run EXCEPT ![p] = [Idle EXCEPT !.pc = "publish", !.todo = todo]]
  /\ UNCHANGED holder
inDirectory == <<files, durable>>

(* A command starts, or a list goes on as a refresh: it waits for the lock *)
(* and recovers.                                                           *)
Begin(p) ==
  /\ run[p].pc \in {"idle", "lock"} /\ holder = NoFile /\ commands < MaxCommands
  /\ commands' = commands + 1
  /\ IF refused(files) THEN Leave(p)
     ELSE /\ holder' = p
          /\ \E kind \in IF run[p].pc = "idle" THEN CommandKinds ELSE {"refresh"} :
               run' = [run EXCEPT ![p] = [Idle EXCEPT
                 !.pc = "recover", !.kind = kind, !.stamp = commands', !.todo = recovery(files)]]
  /\ UNCHANGED <<inDirectory, selected, shown, faults>>

(* Mutant: the lock is not waited for.                                     *)
ResumeUnlocked(p) ==
  /\ run[p].pc = "measure"
  /\ holder' = p
  /\ run' = [run EXCEPT ![p].pc = "rerecover", ![p].todo = recovery(files)]
  /\ UNCHANGED <<inDirectory, selected, shown, commands, faults>>

(* It has loaded and measured what it was asked to.                        *)
Resume(p) ==
  /\ run[p].pc = "measure" /\ holder = NoFile
  /\ IF refused(files) THEN Leave(p)
     ELSE /\ holder' = p
          /\ run' = [run EXCEPT ![p].pc = "rerecover", ![p].todo = recovery(files)]
  /\ UNCHANGED <<inDirectory, selected, shown, commands, faults>>

(* A server transaction is pending, a context is done, a fetch fails: the  *)
(* command answers so and changes nothing.                                 *)
GiveUp(p) ==
  /\ run[p].pc \in {"lock", "measure"}
  /\ Leave(p) /\ UNCHANGED <<inDirectory, selected, shown, commands, faults>>

atEnd(p, pc) == run[p].pc = pc /\ run[p].todo = <<>>

List(p) ==
  /\ atEnd(p, "recover") /\ run[p].kind = "list"
  /\ shown' = files.catalog
  /\ IF files.catalog # NoFile THEN Leave(p)
     ELSE /\ run' = [run EXCEPT ![p].pc = "lock", ![p].kind = "refresh"]
          /\ holder' = NoFile
  /\ UNCHANGED <<inDirectory, selected, commands, faults>>

(* The server is applied under the lock; the application may fail.         *)
Select(p) ==
  /\ atEnd(p, "recover") /\ run[p].kind = "select"
  /\ shown' = files.catalog
  /\ \/ Leave(p) /\ UNCHANGED selected
     \/ /\ files.catalog # NoFile
        /\ \E s \in DOMAIN files.catalog.rows :
             selected' = [server |-> s, version |-> run[p].stamp]
        /\ run' = [q \in Commands |->
             IF q = p THEN Idle
             ELSE [run[q] EXCEPT !.overtaken = (run[q].pc = "measure")]]
        /\ holder' = NoFile
  /\ UNCHANGED <<inDirectory, commands, faults>>

(* Mutant: the selection is read once the lock is given back.              *)
CaptureSplit(p) ==
  \/ /\ atEnd(p, "recover") /\ run[p].kind \in {"refresh", "measure"}
     /\ shown' = files.catalog
     /\ IF run[p].kind = "measure" /\ files.catalog = NoFile THEN Leave(p)
        ELSE /\ run' = [run EXCEPT ![p].pc = "measure", ![p].base = files]
             /\ holder' = NoFile
     /\ UNCHANGED <<inDirectory, selected, commands, faults>>
  \/ /\ run[p].pc = "measure" /\ run[p].selection # selected
     /\ run' = [run EXCEPT ![p].selection = selected]
     /\ UNCHANGED <<inDirectory, holder, selected, shown, commands, faults>>

(* The baseline and the selection are captured under one lock.             *)
Capture(p) ==
  /\ atEnd(p, "recover") /\ run[p].kind \in {"refresh", "measure"}
  /\ shown' = files.catalog
  /\ IF run[p].kind = "measure" /\ files.catalog = NoFile THEN Leave(p)
     ELSE /\ run' = [run EXCEPT ![p].pc = "measure", ![p].base = files, ![p].selection = selected]
          /\ holder' = NoFile
  /\ UNCHANGED <<inDirectory, selected, commands, faults>>

(* LoadOrCreateSecretLocked links the new salt, then unlinks its temporary *)
(* name: a file with two names is not private.                             *)
salting ==
  IF files.salt # NoFile THEN <<>>
  ELSE IF "link" \in Hazards THEN <<Op("salt", "linked"), Op("salt", "whole")>>
  ELSE <<Op("salt", "whole")>>

(* Mutant: what was published meanwhile is not looked for.                 *)
CompareNothing(p) ==
  /\ atEnd(p, "rerecover")
  /\ shown' = files.catalog
  /\ Goto(p, "ready", salting)
  /\ UNCHANGED <<inDirectory, selected, commands, faults>>

Compare(p) ==
  /\ atEnd(p, "rerecover")
  /\ shown' = files.catalog
  /\ IF \A x \in Published : files[x] = run[p].base[x]
       THEN Goto(p, "ready", salting)
       ELSE Leave(p)
  /\ UNCHANGED <<inDirectory, selected, commands, faults>>

highWater == IF files.generation = NoFile THEN 0 ELSE files.generation.highWater
untested  == [k \in Pipelines |-> 0]

(* A selection that completed meanwhile wins; a refresh has tested every   *)
(* server it loaded, or none.                                              *)
PublishRefresh(p) ==
  /\ atEnd(p, "ready") /\ run[p].kind = "refresh"
  /\ \E S \in (SUBSET Servers) \ {{}},
        row \in {untested, [untested EXCEPT !["speed"] = run[p].stamp]} :
       IF selected # run[p].selection /\ selected.server \notin S
         THEN Leave(p)
         ELSE Becomes(p,
                publication(files, [generation |-> highWater + 1, rows |-> [s \in S |-> row]],
                            highWater + 1))
  /\ UNCHANGED <<inDirectory, selected, shown, commands, faults>>

(* Some servers, of those the command found: one, or a batch.              *)
PublishMeasurement(p) ==
  /\ atEnd(p, "ready") /\ run[p].kind = "measure"
  /\ \E ids \in (SUBSET DOMAIN files.catalog.rows) \ {{}}, k \in Pipelines :
       Becomes(p,
         publication(files,
           [files.catalog EXCEPT !.rows =
              [s \in DOMAIN @ |-> IF s \in ids THEN [@[s] EXCEPT ![k] = run[p].stamp] ELSE @[s]]],
           highWater))
  /\ UNCHANGED <<inDirectory, selected, shown, commands, faults>>

Answer(p) ==
  /\ atEnd(p, "publish") \/ atEnd(p, "abort")
  /\ shown' = IF run[p].pc = "publish" THEN files.catalog ELSE shown
  /\ Leave(p)
  /\ UNCHANGED <<inDirectory, selected, commands, faults>>

(***************************************************************************)
(* Writing one file: WritePrivateFileAtomicLocked, RemovePrivateFileLocked.*)
(* A sync of the directory covers earlier changes whose own sync failed;   *)
(* until then a power cut leaves the directory as it was at some time      *)
(* since.                                                                  *)
(***************************************************************************)
Renamed(op) == files' = [files EXCEPT ![op.file] = op.value]
Synced   == durable' = {files'}
Unsynced == durable' = durable \cup {files'}

Write(p) ==
  /\ run[p].todo # <<>>
  /\ LET op == Head(run[p].todo) IN
     IF op.value = NoFile /\ files[op.file] = NoFile THEN UNCHANGED inDirectory
     ELSE Renamed(op) /\ IF op = Op("salt", "linked") THEN Unsynced ELSE Synced
  /\ Goto(p, run[p].pc, Tail(run[p].todo))
  /\ UNCHANGED <<selected, shown, commands, faults>>

(* abortBrowserPublicationLocked: asked for in the journal, then recovered.*)
abortion(f) ==
  LET j == [f.journal EXCEPT !.phase = "rollback-requested"]
      g == [f EXCEPT !.journal = j]
  IN <<Op("journal", j)>> \o (IF refused(g) THEN <<>> ELSE recovery(g))

(* Before the journal, in a recovery, in an abort and in the cleanup an    *)
(* error ends the command; elsewhere it is undone.                         *)
Fail(p) ==
  IF run[p].pc = "publish" /\ Head(run[p].todo).file \in {"generation", "catalog", "commit"}
    THEN Goto(p, "abort", abortion(files'))
    ELSE Leave(p)

WriteFails(p) ==
  /\ run[p].todo # <<>> /\ Fault("io")
  /\ files' = files \/ Renamed(Head(run[p].todo))
  /\ Unsynced /\ Fail(p)
  /\ UNCHANGED <<selected, shown, commands>>

(* Looked at between the files, and once after the last of them.           *)
Cancelled(p) ==
  /\ run[p].pc = "publish" /\ run[p].todo # <<>> /\ Fault("cancel")
  /\ UNCHANGED <<inDirectory, selected, shown, commands>>
  /\ IF run[p].todo = cleanup THEN Goto(p, "abort", abortion(files)) ELSE Fail(p)

(* A process is killed, perhaps between a rename and its sync.             *)
Kill(p) ==
  /\ Fault("kill") /\ run[p].pc # "idle" /\ Leave(p)
  /\ \/ UNCHANGED files
     \/ run[p].todo # <<>> /\ Renamed(Head(run[p].todo))
  /\ Unsynced
  /\ UNCHANGED <<selected, shown, commands>>

At(x) == {d[x] : d \in durable}
Mixed ==
  [salt : At("salt"), generation : At("generation"), catalog : At("catalog"),
   commit : At("commit"), journal : At("journal"), backup : At("backup")]

Cut ==
  /\ Fault("cut")
  /\ \/ files' \in durable
     \/ "reorder" \in Hazards /\ files' \in Mixed
  /\ Synced
  /\ run' = [p \in Commands |-> Idle] /\ holder' = NoFile
  /\ UNCHANGED <<selected, shown, commands>>

(***************************************************************************)
(* At first: nothing, or what an earlier edition left.                     *)
(***************************************************************************)
empty == [x \in Directory |-> NoFile]
old   == [generation |-> 1, rows |-> [s \in Servers |-> untested]]

Init ==
  /\ files \in {empty,
       [empty EXCEPT !.salt = "whole", !.catalog = old],
       [empty EXCEPT !.salt = "whole", !.catalog = old,
                     !.generation = [highWater |-> 1, revision |-> 0]]}
  /\ durable = {files} /\ holder = NoFile
  /\ run = [p \in Commands |-> Idle]
  /\ selected \in [server : {NoFile} \cup Servers, version : {0}] /\ shown = NoFile
  /\ commands = 0 /\ faults = 0

Command(p) ==
  \/ Begin(p) \/ Resume(p) \/ GiveUp(p) \/ List(p) \/ Select(p) \/ Capture(p) \/ Compare(p)
  \/ PublishRefresh(p) \/ PublishMeasurement(p) \/ Write(p) \/ Answer(p)

Next ==
  \/ \E p \in Commands : Command(p) \/ WriteFails(p) \/ Cancelled(p) \/ Kill(p)
  \/ Cut

Spec == Init /\ [][Next]_vars

(***************************************************************************)
(* Properties.                                                             *)
(***************************************************************************)

(* Whatever was interrupted, in a publication, its abort or a recovery, by *)
(* an error, a kill or a power cut, the next holder of the lock is not     *)
(* refused, and what it recovers is a catalog with its commit              *)
(* (recoverBrowserPublicationLocked, browserPublicationPoint).  Exceptions *)
(* are "link", and "reorder" after two syncs that were lost.               *)
lastWrites(f, todo) ==
  [x \in Directory |->
     LET ops == {i \in DOMAIN todo : todo[i].file = x} IN
     IF ops = {} THEN f[x]
     ELSE todo[CHOOSE i \in ops : \A k \in ops : k =< i].value]
Recoverable ==
  holder = NoFile => ~refused(files) /\ readable(lastWrites(files, recovery(files)))

(* Readers see whole refreshes and whole measurements, each made upon the  *)
(* one before, and what was answered is not lost to a kill, an error or a  *)
(* power cut (but to a cut after a recovery whose own sync failed, too).   *)
CatalogIsAtomic == Atomic!Spec

(* "A selection that completed while testing wins": no refresh begun       *)
(* before it publishes a catalog without the server (runBrowserTestAll).   *)
SelectionWins ==
  [][\A p \in Commands :
       /\ run[p].overtaken /\ run[p].kind = "refresh"
       /\ run[p].pc # "publish" /\ run'[p].pc = "publish"
       => \E i \in DOMAIN run'[p].todo :
            run'[p].todo[i].file = "catalog"
              /\ selected.server \in DOMAIN run'[p].todo[i].value.rows]_vars
================================================================================
