-------------------------- MODULE ServerCatalogProofs --------------------------
(***************************************************************************)
(* Theorems about ServerCatalog, for any commands, servers and kinds of    *)
(* measurement, and any number of commands run and of faults.              *)
(***************************************************************************)
EXTENDS ServerCatalog, SequenceTheorems, TLAPS

-----------------------------------------------------------------------------
(* Short sequences joined.                                                 *)

LEMMA JoinOneOne ==
  ASSUME NEW a, NEW x
  PROVE  <<a>> \o <<x>> = <<a, x>>
<1> DEFINE S == {a, x}
           s == <<a>> \o <<x>>
<1>1. <<a>> \in Seq(S) /\ <<x>> \in Seq(S) /\ <<a, x>> \in Seq(S)
  OBVIOUS
<1>2. /\ s \in Seq(S) /\ Len(s) = 2
      /\ s[1] = a /\ s[2] = x
  <2>1. /\ s \in Seq(S) /\ Len(s) = Len(<<a>>) + Len(<<x>>)
        /\ \A i \in 1 .. Len(<<a>>) + Len(<<x>>) :
             s[i] = IF i <= Len(<<a>>) THEN <<a>>[i]
                    ELSE <<x>>[i - Len(<<a>>)]
    BY <1>1, ConcatProperties
  <2>2. /\ s[1] = <<a>>[1]
        /\ s[2] = <<x>>[1]
    BY <2>1
  <2> QED BY <2>1, <2>2
<1> HIDE DEF s
<1>3. \A i \in 1 .. Len(s) : s[i] = <<a, x>>[i]
  BY <1>2
<1> QED BY <1>1, <1>2, <1>3, SeqEqual DEF s

LEMMA JoinOneTwo ==
  ASSUME NEW a, NEW x, NEW y
  PROVE  <<a>> \o <<x, y>> = <<a, x, y>>
<1> DEFINE S == {a, x, y}
           s == <<a>> \o <<x, y>>
<1>1. <<a>> \in Seq(S) /\ <<x, y>> \in Seq(S) /\ <<a, x, y>> \in Seq(S)
  OBVIOUS
<1>2. /\ s \in Seq(S) /\ Len(s) = 3
      /\ s[1] = a /\ s[2] = x /\ s[3] = y
  <2>1. /\ s \in Seq(S) /\ Len(s) = Len(<<a>>) + Len(<<x, y>>)
        /\ \A i \in 1 .. Len(<<a>>) + Len(<<x, y>>) :
             s[i] = IF i <= Len(<<a>>) THEN <<a>>[i]
                    ELSE <<x, y>>[i - Len(<<a>>)]
    BY <1>1, ConcatProperties
  <2>2. /\ s[1] = <<a>>[1]
        /\ s[2] = <<x, y>>[1]
        /\ s[3] = <<x, y>>[2]
    BY <2>1
  <2> QED BY <2>1, <2>2
<1> HIDE DEF s
<1>3. \A i \in 1 .. Len(s) : s[i] = <<a, x, y>>[i]
  BY <1>2
<1> QED BY <1>1, <1>2, <1>3, SeqEqual DEF s

LEMMA JoinOneFive ==
  ASSUME NEW a, NEW x, NEW y, NEW z, NEW u, NEW v
  PROVE  <<a>> \o <<x, y, z, u, v>> = <<a, x, y, z, u, v>>
<1> DEFINE S == {a, x, y, z, u, v}
           s == <<a>> \o <<x, y, z, u, v>>
<1>1. <<a>> \in Seq(S) /\ <<x, y, z, u, v>> \in Seq(S) /\ <<a, x, y, z, u, v>> \in Seq(S)
  OBVIOUS
<1>2. /\ s \in Seq(S) /\ Len(s) = 6
      /\ s[1] = a /\ s[2] = x /\ s[3] = y /\ s[4] = z /\ s[5] = u /\ s[6] = v
  <2>1. /\ s \in Seq(S) /\ Len(s) = Len(<<a>>) + Len(<<x, y, z, u, v>>)
        /\ \A i \in 1 .. Len(<<a>>) + Len(<<x, y, z, u, v>>) :
             s[i] = IF i <= Len(<<a>>) THEN <<a>>[i]
                    ELSE <<x, y, z, u, v>>[i - Len(<<a>>)]
    BY <1>1, ConcatProperties
  <2>2. /\ s[1] = <<a>>[1]
        /\ s[2] = <<x, y, z, u, v>>[1]
        /\ s[3] = <<x, y, z, u, v>>[2]
        /\ s[4] = <<x, y, z, u, v>>[3]
        /\ s[5] = <<x, y, z, u, v>>[4]
        /\ s[6] = <<x, y, z, u, v>>[5]
    BY <2>1
  <2> QED BY <2>1, <2>2
<1> HIDE DEF s
<1>3. \A i \in 1 .. Len(s) : s[i] = <<a, x, y, z, u, v>>[i]
  BY <1>2
<1> QED BY <1>1, <1>2, <1>3, SeqEqual DEF s

LEMMA JoinThreeTwo ==
  ASSUME NEW a, NEW b, NEW c, NEW x, NEW y
  PROVE  <<a, b, c>> \o <<x, y>> = <<a, b, c, x, y>>
<1> DEFINE S == {a, b, c, x, y}
           s == <<a, b, c>> \o <<x, y>>
<1>1. <<a, b, c>> \in Seq(S) /\ <<x, y>> \in Seq(S) /\ <<a, b, c, x, y>> \in Seq(S)
  OBVIOUS
<1>2. /\ s \in Seq(S) /\ Len(s) = 5
      /\ s[1] = a /\ s[2] = b /\ s[3] = c /\ s[4] = x /\ s[5] = y
  <2>1. /\ s \in Seq(S) /\ Len(s) = Len(<<a, b, c>>) + Len(<<x, y>>)
        /\ \A i \in 1 .. Len(<<a, b, c>>) + Len(<<x, y>>) :
             s[i] = IF i <= Len(<<a, b, c>>) THEN <<a, b, c>>[i]
                    ELSE <<x, y>>[i - Len(<<a, b, c>>)]
    BY <1>1, ConcatProperties
  <2>2. /\ s[1] = <<a, b, c>>[1]
        /\ s[2] = <<a, b, c>>[2]
        /\ s[3] = <<a, b, c>>[3]
        /\ s[4] = <<x, y>>[1]
        /\ s[5] = <<x, y>>[2]
    BY <2>1
  <2> QED BY <2>1, <2>2
<1> HIDE DEF s
<1>3. \A i \in 1 .. Len(s) : s[i] = <<a, b, c, x, y>>[i]
  BY <1>2
<1> QED BY <1>1, <1>2, <1>3, SeqEqual DEF s

LEMMA JoinFiveTwo ==
  ASSUME NEW a, NEW b, NEW c, NEW d, NEW e, NEW x, NEW y
  PROVE  <<a, b, c, d, e>> \o <<x, y>> = <<a, b, c, d, e, x, y>>
<1> DEFINE S == {a, b, c, d, e, x, y}
           s == <<a, b, c, d, e>> \o <<x, y>>
<1>1. <<a, b, c, d, e>> \in Seq(S) /\ <<x, y>> \in Seq(S) /\ <<a, b, c, d, e, x, y>> \in Seq(S)
  OBVIOUS
<1>2. /\ s \in Seq(S) /\ Len(s) = 7
      /\ s[1] = a /\ s[2] = b /\ s[3] = c /\ s[4] = d /\ s[5] = e /\ s[6] = x /\ s[7] = y
  <2>1. /\ s \in Seq(S) /\ Len(s) = Len(<<a, b, c, d, e>>) + Len(<<x, y>>)
        /\ \A i \in 1 .. Len(<<a, b, c, d, e>>) + Len(<<x, y>>) :
             s[i] = IF i <= Len(<<a, b, c, d, e>>) THEN <<a, b, c, d, e>>[i]
                    ELSE <<x, y>>[i - Len(<<a, b, c, d, e>>)]
    BY <1>1, ConcatProperties
  <2>2. /\ s[1] = <<a, b, c, d, e>>[1]
        /\ s[2] = <<a, b, c, d, e>>[2]
        /\ s[3] = <<a, b, c, d, e>>[3]
        /\ s[4] = <<a, b, c, d, e>>[4]
        /\ s[5] = <<a, b, c, d, e>>[5]
        /\ s[6] = <<x, y>>[1]
        /\ s[7] = <<x, y>>[2]
    BY <2>1
  <2> QED BY <2>1, <2>2
<1> HIDE DEF s
<1>3. \A i \in 1 .. Len(s) : s[i] = <<a, b, c, d, e, x, y>>[i]
  BY <1>2
<1> QED BY <1>1, <1>2, <1>3, SeqEqual DEF s

-----------------------------------------------------------------------------
(* The types, with the number of commands begun as the bound of what their *)
(* publications number.                                                    *)

CatalogTo(n) ==
  [generation : 1 .. n,
   rows : UNION {[S -> [Pipelines -> 0 .. n - 1]] : S \in (SUBSET Servers) \ {{}}}]
GenerationTo(n) == [highWater : 1 .. n, revision : 0 .. n]
CurrentTo(n)    == [highWater : 1 .. n, revision : 1 .. n]
CommitTo(n)     ==
  [highWater : 1 .. n, revision : 1 .. n, catalog : CatalogTo(n) \cup {NoFile}]
JournalTo(n)    ==
  [phase : {"prepared", "rollback-requested"},
   old : CatalogTo(n) \cup {NoFile}, new : CatalogTo(n),
   before : GenerationTo(n) \cup {NoFile}, after : CurrentTo(n)]
ContentTo(n) ==
  [salt |-> {"linked", "whole"}, generation |-> GenerationTo(n), catalog |-> CatalogTo(n),
   commit |-> CommitTo(n), journal |-> JournalTo(n), backup |-> CatalogTo(n)]
FilesTo(n) ==
  [salt : {NoFile, "linked", "whole"}, generation : GenerationTo(n) \cup {NoFile},
   catalog : CatalogTo(n) \cup {NoFile}, commit : CommitTo(n) \cup {NoFile},
   journal : JournalTo(n) \cup {NoFile}, backup : CatalogTo(n) \cup {NoFile}]
OpsTo(n, x) == [file : {x}, value : ContentTo(n)[x] \cup {NoFile}]
OperationTo(n) ==
  OpsTo(n, "salt") \cup OpsTo(n, "generation") \cup OpsTo(n, "catalog")
    \cup OpsTo(n, "commit") \cup OpsTo(n, "journal") \cup OpsTo(n, "backup")

Top == MaxCommands + 1

LEMMA Names ==
  /\ Directory = {"salt", "generation", "catalog", "commit", "journal", "backup"}
  /\ Published = {"salt", "generation", "catalog", "commit"}
<1>1. Directory = {"salt", "generation", "catalog", "commit", "journal", "backup"}
  BY DEF Directory, Content
<1> QED BY <1>1 DEF Published

LEMMA TopTypes ==
  /\ Files = FilesTo(Top) /\ Operation = OperationTo(Top)
  /\ Catalog = CatalogTo(Top) /\ Generation = GenerationTo(Top)
  /\ Commit = CommitTo(Top) /\ Journal = JournalTo(Top)
<1>1. CatalogTo(Top) = Catalog /\ GenerationTo(Top) = Generation /\ CurrentTo(Top) = Current
  <2>1. 0 .. Top - 1 = Stamps \cup {0} /\ Generations = 1 .. Top
    BY CatalogShape DEF Stamps, Generations, Top
  <2>2. CatalogTo(Top) = Catalog
    BY <2>1 DEF CatalogTo, Catalog, Atomic!Catalogs, Atomic!Rows
  <2>3. GenerationTo(Top) = Generation /\ CurrentTo(Top) = Current
    BY DEF GenerationTo, CurrentTo, Generation, Current, Generations, Top
  <2> QED BY <2>2, <2>3
<1>2. CommitTo(Top) = Commit /\ JournalTo(Top) = Journal
  BY <1>1 DEF CommitTo, JournalTo, Commit, Journal, Generations, Top
<1>3. FilesTo(Top) = Files
  BY <1>1, <1>2 DEF FilesTo, Files
<1>4. ContentTo(Top) = Content
  BY <1>1, <1>2 DEF ContentTo, Content
<1>5. \A x : OpsTo(Top, x) = Ops(x)
  BY <1>4 DEF OpsTo, Ops
<1>6. OperationTo(Top) = Operation
  BY <1>5 DEF OperationTo, Operation
<1> QED BY <1>1, <1>2, <1>3, <1>6

LEMMA CatalogGrows ==
  ASSUME NEW n \in Nat, NEW m \in Nat, n =< m
  PROVE  /\ CatalogTo(n) \subseteq CatalogTo(m)
         /\ \A c \in CatalogTo(n) : c.generation \in 1 .. n
<1>1. 1 .. n \subseteq 1 .. m /\ 0 .. n - 1 \subseteq 0 .. m - 1
  OBVIOUS
<1>2. \A S : [S -> [Pipelines -> 0 .. n - 1]] \subseteq [S -> [Pipelines -> 0 .. m - 1]]
  <2>1. [Pipelines -> 0 .. n - 1] \subseteq [Pipelines -> 0 .. m - 1]
    BY <1>1
  <2> QED BY <2>1
<1>3. UNION {[S -> [Pipelines -> 0 .. n - 1]] : S \in (SUBSET Servers) \ {{}}}
        \subseteq UNION {[S -> [Pipelines -> 0 .. m - 1]] : S \in (SUBSET Servers) \ {{}}}
  BY <1>2
<1> QED BY <1>1, <1>3 DEF CatalogTo

LEMMA RecordsGrow ==
  ASSUME NEW n \in Nat, NEW m \in Nat, n =< m
  PROVE  /\ GenerationTo(n) \subseteq GenerationTo(m) /\ CurrentTo(n) \subseteq CurrentTo(m)
         /\ CommitTo(n) \subseteq CommitTo(m) /\ JournalTo(n) \subseteq JournalTo(m)
<1>1. 1 .. n \subseteq 1 .. m /\ 0 .. n \subseteq 0 .. m
  OBVIOUS
<1>2. CatalogTo(n) \subseteq CatalogTo(m)
  BY CatalogGrows
<1>3. GenerationTo(n) \subseteq GenerationTo(m) /\ CurrentTo(n) \subseteq CurrentTo(m)
  BY <1>1 DEF GenerationTo, CurrentTo
<1>4. CommitTo(n) \subseteq CommitTo(m)
  BY <1>1, <1>2 DEF CommitTo
<1>5. JournalTo(n) \subseteq JournalTo(m)
  BY <1>2, <1>3 DEF JournalTo
<1> QED BY <1>3, <1>4, <1>5

LEMMA TypesGrow ==
  ASSUME NEW n \in Nat, NEW m \in Nat, n =< m
  PROVE  FilesTo(n) \subseteq FilesTo(m) /\ OperationTo(n) \subseteq OperationTo(m)
<1>1. /\ CatalogTo(n) \subseteq CatalogTo(m) /\ GenerationTo(n) \subseteq GenerationTo(m)
      /\ CommitTo(n) \subseteq CommitTo(m) /\ JournalTo(n) \subseteq JournalTo(m)
  BY CatalogGrows, RecordsGrow
<1>2. FilesTo(n) \subseteq FilesTo(m)
  BY <1>1 DEF FilesTo
<1>3. \A x \in Directory : OpsTo(n, x) \subseteq OpsTo(m, x)
  BY <1>1, Names DEF OpsTo, ContentTo
<1>4. OperationTo(n) \subseteq OperationTo(m)
  BY <1>3, Names DEF OperationTo
<1> QED BY <1>2, <1>4

(* Nothing that a file can hold is its absence.                            *)
LEMMA Present ==
  ASSUME NEW n \in 0 .. Top
  PROVE  /\ NoFile \notin CatalogTo(n) /\ NoFile \notin GenerationTo(n)
         /\ NoFile \notin CurrentTo(n) /\ NoFile \notin CommitTo(n)
         /\ NoFile \notin JournalTo(n) /\ NoFile \notin {"linked", "whole"}
<1>1. n \in Nat /\ Top \in Nat /\ n =< Top
  BY CatalogShape DEF Top
<1>2. \A x \in Directory : NoFile \notin Content[x]
  BY CatalogShape
<1>3. /\ NoFile \notin Content["salt"] /\ NoFile \notin Content["generation"]
      /\ NoFile \notin Content["catalog"] /\ NoFile \notin Content["commit"]
      /\ NoFile \notin Content["journal"]
  BY <1>2, Names
<1>4. /\ Content["salt"] = {"linked", "whole"} /\ Content["generation"] = Generation
      /\ Content["catalog"] = Catalog /\ Content["commit"] = Commit
      /\ Content["journal"] = Journal
  BY DEF Content
<1>5. /\ CatalogTo(Top) = Catalog /\ GenerationTo(Top) = Generation
      /\ CommitTo(Top) = Commit /\ JournalTo(Top) = Journal
  BY TopTypes
<1>6. /\ CatalogTo(n) \subseteq CatalogTo(Top) /\ GenerationTo(n) \subseteq GenerationTo(Top)
      /\ CommitTo(n) \subseteq CommitTo(Top) /\ JournalTo(n) \subseteq JournalTo(Top)
  BY <1>1, CatalogGrows, RecordsGrow
<1>7. CurrentTo(n) \subseteq GenerationTo(n)
  <2>1. 1 .. n \subseteq 0 .. n
    BY <1>1
  <2> QED BY <2>1 DEF CurrentTo, GenerationTo
<1> QED BY <1>3, <1>4, <1>5, <1>6, <1>7

-----------------------------------------------------------------------------
(* What the programs write is of the types.                                *)

LEMMA Written ==
  ASSUME NEW n, NEW f \in FilesTo(n), NEW op \in OperationTo(n)
  PROVE  /\ [f EXCEPT ![op.file] = op.value] \in FilesTo(n)
         /\ (f[op.file] = op.value => [f EXCEPT ![op.file] = op.value] = f)
<1>1. op.file \in Directory
  BY Names DEF OperationTo, OpsTo
<1>2. op.value \in ContentTo(n)[op.file] \cup {NoFile}
  BY DEF OperationTo, OpsTo
<1>3. f = [f EXCEPT ![op.file] = f[op.file]]
  BY <1>1, Names DEF FilesTo
<1>4. [f EXCEPT ![op.file] = op.value] \in FilesTo(n)
  BY <1>1, <1>2, Names DEF FilesTo, ContentTo
<1> QED BY <1>3, <1>4

LEMMA OperationTypes ==
  ASSUME NEW n \in 0 .. Top
  PROVE  /\ \A x \in Directory : Op(x, NoFile) \in OperationTo(n)
         /\ Op("salt", "linked") \in OperationTo(n) /\ Op("salt", "whole") \in OperationTo(n)
         /\ \A g \in GenerationTo(n) : Op("generation", g) \in OperationTo(n)
         /\ \A c \in CatalogTo(n) \cup {NoFile} :
              Op("catalog", c) \in OperationTo(n) /\ Op("backup", c) \in OperationTo(n)
         /\ \A m \in CommitTo(n) : Op("commit", m) \in OperationTo(n)
         /\ \A j \in JournalTo(n) : Op("journal", j) \in OperationTo(n)
  BY Names DEF OperationTo, OpsTo, ContentTo, Op

LEMMA JournalWrites ==
  ASSUME NEW n \in 1 .. Top, NEW j \in JournalTo(n)
  PROVE  /\ Op("catalog", j.old) \in OperationTo(n) /\ Op("catalog", j.new) \in OperationTo(n)
         /\ Op("generation", j.after) \in OperationTo(n)
         /\ Op("commit", commitOf(j.after, j.old)) \in OperationTo(n)
         /\ Op("commit", commitOf(j.after, j.new)) \in OperationTo(n)
         /\ Op("journal", j) \in OperationTo(n) /\ Op("backup", j.old) \in OperationTo(n)
         /\ [j EXCEPT !.phase = "rollback-requested"] \in JournalTo(n)
<1>1. n \in 0 .. Top
  BY CatalogShape DEF Top
<1>2. /\ j.old \in CatalogTo(n) \cup {NoFile} /\ j.new \in CatalogTo(n)
      /\ j.after \in CurrentTo(n)
      /\ [j EXCEPT !.phase = "rollback-requested"] \in JournalTo(n)
  BY DEF JournalTo
<1>3. j.after \in GenerationTo(n)
  <2>1. 1 .. n \subseteq 0 .. n
    BY CatalogShape DEF Top
  <2> QED BY <1>2, <2>1 DEF CurrentTo, GenerationTo
<1>4. j.after # NoFile
  BY <1>1, <1>2, Present
<1>5. commitOf(j.after, j.old) \in CommitTo(n) /\ commitOf(j.after, j.new) \in CommitTo(n)
  BY <1>2, <1>4 DEF commitOf, CommitTo, CurrentTo
<1> QED BY <1>1, <1>2, <1>3, <1>5, OperationTypes

LEMMA CleanupTyped ==
  ASSUME NEW n \in 0 .. Top
  PROVE  cleanup \in Seq(OperationTo(n))
<1>1. Op("backup", NoFile) \in OperationTo(n) /\ Op("journal", NoFile) \in OperationTo(n)
  BY OperationTypes, Names
<1> QED BY <1>1 DEF cleanup

LEMMA NormalizationTyped ==
  ASSUME NEW n \in 1 .. Top, NEW f \in FilesTo(n)
  PROVE  /\ normalization(f) \in Seq(OperationTo(n))
         /\ (legacy(f) => /\ Op("commit", commitOf(migrated(f), f.catalog)) \in OperationTo(n)
                          /\ Op("generation", migrated(f)) \in OperationTo(n)
                          /\ migrated(f) \in CurrentTo(n))
<1>1. n \in 0 .. Top /\ n \in Nat
  BY CatalogShape DEF Top
<1>2. /\ f.generation \in GenerationTo(n) \cup {NoFile}
      /\ f.catalog \in CatalogTo(n) \cup {NoFile}
  BY DEF FilesTo
<1>3. ASSUME legacy(f)
      PROVE  /\ Op("commit", commitOf(migrated(f), f.catalog)) \in OperationTo(n)
             /\ Op("generation", migrated(f)) \in OperationTo(n)
             /\ migrated(f) \in CurrentTo(n)
  <2>1. f.generation # NoFile => f.generation.highWater \in 1 .. n
    BY <1>2 DEF GenerationTo
  <2>2. f.generation = NoFile => f.catalog.generation \in 1 .. n
    <3>1. f.generation = NoFile => f.catalog \in CatalogTo(n)
      BY <1>2, <1>3 DEF legacy
    <3> QED BY <1>1, <3>1, CatalogGrows
  <2>3. migrated(f) \in CurrentTo(n) /\ migrated(f) \in GenerationTo(n)
    BY <1>1, <2>1, <2>2 DEF migrated, CurrentTo, GenerationTo
  <2>4. commitOf(migrated(f), f.catalog) \in CommitTo(n)
    <3>1. migrated(f) # NoFile
      BY <1>1, <2>3, Present
    <3> QED BY <1>2, <2>3, <3>1 DEF commitOf, CommitTo, CurrentTo
  <2> QED BY <1>1, <2>3, <2>4, OperationTypes
<1>4. CASE ~legacy(f)
  BY <1>4 DEF normalization
<1>5. CASE legacy(f) /\ f.commit = NoFile
  BY <1>3, <1>5 DEF normalization
<1>6. CASE legacy(f) /\ f.commit # NoFile
  BY <1>3, <1>6 DEF normalization
<1> QED BY <1>3, <1>4, <1>5, <1>6

LEMMA RecoveryTyped ==
  ASSUME NEW n \in 1 .. Top, NEW f \in FilesTo(n)
  PROVE  recovery(f) \in Seq(OperationTo(n))
<1>1. n \in 0 .. Top
  BY CatalogShape DEF Top
<1>2. CASE f.journal = NoFile
  <2>1. <<Op("backup", NoFile)>> \in Seq(OperationTo(n))
    <3>1. Op("backup", NoFile) \in OperationTo(n)
      BY <1>1, OperationTypes, Names
    <3> QED BY <3>1
  <2>2. normalization(f) \in Seq(OperationTo(n))
    BY NormalizationTyped
  <2>3. <<Op("backup", NoFile)>> \o normalization(f) \in Seq(OperationTo(n))
    BY <2>1, <2>2, ConcatProperties
  <2> QED BY <1>2, <2>3 DEF recovery
<1>3. CASE f.journal # NoFile
  <2>1. PICK j \in JournalTo(n) : j = f.journal
    BY <1>3 DEF FilesTo
  <2>2. <<Op("catalog", j.old), Op("generation", j.after),
          Op("commit", commitOf(j.after, j.old))>> \in Seq(OperationTo(n))
    <3>1. /\ Op("catalog", j.old) \in OperationTo(n) /\ Op("generation", j.after) \in OperationTo(n)
          /\ Op("commit", commitOf(j.after, j.old)) \in OperationTo(n)
      BY JournalWrites
    <3> QED BY <3>1
  <2>3. cleanup \in Seq(OperationTo(n))
    BY <1>1, CleanupTyped
  <2>4. <<Op("catalog", j.old), Op("generation", j.after),
          Op("commit", commitOf(j.after, j.old))>> \o cleanup \in Seq(OperationTo(n))
    BY <2>2, <2>3, ConcatProperties
  <2> QED BY <1>3, <2>1, <2>3, <2>4 DEF recovery
<1> QED BY <1>2, <1>3

LEMMA AbortionTyped ==
  ASSUME NEW n \in 1 .. Top, NEW f \in FilesTo(n), f.journal # NoFile
  PROVE  abortion(f) \in Seq(OperationTo(n))
<1>1. PICK j \in JournalTo(n) : j = f.journal
  BY DEF FilesTo
<1> DEFINE k == [j EXCEPT !.phase = "rollback-requested"]
           g == [f EXCEPT !.journal = k]
<1>2. k \in JournalTo(n) /\ Op("journal", k) \in OperationTo(n)
  <2>1. [j EXCEPT !.phase = "rollback-requested"] \in JournalTo(n)
    BY JournalWrites
  <2> QED BY <2>1, JournalWrites
<1>3. g \in FilesTo(n)
  BY <1>2 DEF FilesTo
<1>4. recovery(g) \in Seq(OperationTo(n)) /\ <<>> \in Seq(OperationTo(n))
  BY <1>3, RecoveryTyped
<1>5. <<Op("journal", k)>> \in Seq(OperationTo(n))
  BY <1>2
<1>6. <<Op("journal", k)>> \o (IF refused(g) THEN <<>> ELSE recovery(g)) \in Seq(OperationTo(n))
  BY <1>4, <1>5, ConcatProperties
<1> QED BY <1>1, <1>6 DEF abortion

(* The journal of a publication: its program is all in it.                 *)
journalOf(f, new, hw) ==
  [phase |-> "prepared", old |-> f.catalog, new |-> new, before |-> f.generation,
   after |-> [highWater |-> hw,
              revision |-> (IF f.generation = NoFile THEN 0 ELSE f.generation.revision) + 1]]
Announced(j) ==
  <<Op("backup", j.old), Op("journal", j), Op("generation", j.after), Op("catalog", j.new),
    Op("commit", commitOf(j.after, j.new)), Op("backup", NoFile), Op("journal", NoFile)>>

LEMMA PublicationTyped ==
  ASSUME NEW n \in 0 .. MaxCommands, NEW f,
         f.generation \in GenerationTo(n) \cup {NoFile},
         f.catalog \in CatalogTo(n) \cup {NoFile},
         NEW new \in CatalogTo(n + 1), NEW hw \in 1 .. n + 1
  PROVE  /\ journalOf(f, new, hw) \in JournalTo(n + 1)
         /\ publication(f, new, hw) = Announced(journalOf(f, new, hw))
         /\ publication(f, new, hw) \in Seq(OperationTo(n + 1))
<1> DEFINE j == journalOf(f, new, hw)
<1>1. n \in Nat /\ n + 1 \in Nat /\ n =< n + 1 /\ n + 1 \in 1 .. Top /\ n + 1 \in 0 .. Top
  BY CatalogShape DEF Top
<1>3. /\ f.generation \in GenerationTo(n + 1) \cup {NoFile}
      /\ f.catalog \in CatalogTo(n + 1) \cup {NoFile}
  BY <1>1, CatalogGrows, RecordsGrow
<1>4. j.after \in CurrentTo(n + 1)
  <2>1. f.generation # NoFile => f.generation.revision \in 0 .. n
    BY DEF GenerationTo
  <2> QED BY <1>1, <2>1 DEF CurrentTo, journalOf
<1>5. j \in JournalTo(n + 1)
  BY <1>3, <1>4 DEF JournalTo, journalOf
<1>6. publication(f, new, hw) = Announced(j)
  <2>1. j.after # NoFile
    BY <1>1, <1>4, Present
  <2>2. commitOf(j.after, j.new)
          = [highWater |-> hw,
             revision |-> (IF f.generation = NoFile THEN 0 ELSE f.generation.revision) + 1,
             catalog |-> new]
    BY <2>1 DEF commitOf, journalOf
  <2>3. publication(f, new, hw)
          = <<Op("backup", j.old), Op("journal", j), Op("generation", j.after),
              Op("catalog", j.new), Op("commit", commitOf(j.after, j.new))>> \o cleanup
    BY <2>2 DEF publication, journalOf
  <2> QED BY <2>3, JoinFiveTwo DEF Announced, cleanup
<1>7. Announced(j) \in Seq(OperationTo(n + 1))
  <2>1. /\ Op("backup", j.old) \in OperationTo(n + 1) /\ Op("journal", j) \in OperationTo(n + 1)
        /\ Op("generation", j.after) \in OperationTo(n + 1)
        /\ Op("catalog", j.new) \in OperationTo(n + 1)
        /\ Op("commit", commitOf(j.after, j.new)) \in OperationTo(n + 1)
    BY <1>1, <1>5, JournalWrites
  <2>2. Op("backup", NoFile) \in OperationTo(n + 1) /\ Op("journal", NoFile) \in OperationTo(n + 1)
    BY <1>1, OperationTypes, Names
  <2> QED BY <2>1, <2>2 DEF Announced
<1> QED BY <1>5, <1>6, <1>7

-----------------------------------------------------------------------------
(* Where a holder of the lock is: what it has still to write, and what the *)
(* files say meanwhile.                                                    *)

(* The highest number given covers both catalogs of a journal.             *)
Covers(state, c) == c # NoFile => c.generation =< state.highWater
Sound(j) == Covers(j.after, j.old) /\ Covers(j.after, j.new)
Sealed(f) == f.journal # NoFile => Sound(f.journal)

Clean(f) == f.journal = NoFile /\ f.salt # "linked" /\ readable(f)

Normalizing(f, todo) ==
  /\ f.journal = NoFile /\ f.salt # "linked" /\ normalizes(f)
  /\ \/ todo = <<Op("backup", NoFile)>> /\ ~legacy(f)
     \/ /\ todo = <<Op("backup", NoFile), Op("commit", commitOf(migrated(f), f.catalog)),
                    Op("generation", migrated(f))>>
        /\ legacy(f)
     \/ /\ todo = <<Op("backup", NoFile), Op("generation", migrated(f))>>
        /\ legacy(f) /\ f.commit = commitOf(migrated(f), f.catalog)
     \/ /\ todo = <<Op("commit", commitOf(migrated(f), f.catalog)),
                    Op("generation", migrated(f))>>
        /\ legacy(f)
     \/ /\ todo = <<Op("generation", migrated(f))>>
        /\ legacy(f) /\ f.commit = commitOf(migrated(f), f.catalog)

Restore(j) ==
  <<Op("catalog", j.old), Op("generation", j.after), Op("commit", commitOf(j.after, j.old)),
    Op("backup", NoFile), Op("journal", NoFile)>>

(* With j in the journal.                                                  *)
Undo(f, todo, j) ==
  \/ todo = Restore(j) /\ expected(f, j)
  \/ /\ todo = <<Op("generation", j.after), Op("commit", commitOf(j.after, j.old)),
                 Op("backup", NoFile), Op("journal", NoFile)>>
     /\ expected(f, j) /\ f.catalog = j.old
  \/ /\ todo = <<Op("commit", commitOf(j.after, j.old)), Op("backup", NoFile),
                 Op("journal", NoFile)>>
     /\ expected(f, j) /\ f.catalog = j.old /\ f.generation = j.after
  \/ todo = <<Op("backup", NoFile), Op("journal", NoFile)>> /\ settled(f, j)
  \/ todo = <<Op("journal", NoFile)>> /\ settled(f, j)
Undoing(f, todo) ==
  /\ f.journal # NoFile /\ f.salt = "whole" /\ Sound(f.journal)
  /\ Undo(f, todo, f.journal)

Done(f, todo) == todo = <<>> /\ Clean(f)

Recovering(f, todo) == Normalizing(f, todo) \/ Undoing(f, todo) \/ Done(f, todo)

Preparing(f, todo) ==
  \/ todo = <<>> /\ f.salt = "whole" /\ Clean(f)
  \/ /\ todo = <<Op("salt", "whole")>>
     /\ f.salt = NoFile \/ (f.salt = "linked" /\ "link" \in Hazards)
     /\ f.journal = NoFile /\ \A x \in Published \ {"salt"} : f[x] = NoFile
  \/ /\ todo = <<Op("salt", "linked"), Op("salt", "whole")>>
     /\ "link" \in Hazards /\ f.journal = NoFile /\ unsalted(f)

(* Before the journal is there.                                            *)
Opens(f, j) ==
  /\ Clean(f) /\ f.catalog = j.old /\ f.generation = j.before
  /\ f.commit = commitOf(j.before, j.old)
Publish(f, todo, j) ==
  \/ todo = Announced(j) /\ Opens(f, j)
  \/ /\ todo = <<Op("journal", j), Op("generation", j.after), Op("catalog", j.new),
                 Op("commit", commitOf(j.after, j.new)), Op("backup", NoFile),
                 Op("journal", NoFile)>>
     /\ Opens(f, j) /\ f.backup = j.old
  \/ /\ todo = <<Op("generation", j.after), Op("catalog", j.new),
                 Op("commit", commitOf(j.after, j.new)), Op("backup", NoFile),
                 Op("journal", NoFile)>>
     /\ f.journal = j /\ f.backup = j.old /\ f.generation = j.before /\ f.catalog = j.old
     /\ f.commit = commitOf(j.before, j.old)
  \/ /\ todo = <<Op("catalog", j.new), Op("commit", commitOf(j.after, j.new)),
                 Op("backup", NoFile), Op("journal", NoFile)>>
     /\ f.journal = j /\ f.backup = j.old /\ f.generation = j.after /\ f.catalog = j.old
     /\ f.commit = commitOf(j.before, j.old)
  \/ /\ todo = <<Op("commit", commitOf(j.after, j.new)), Op("backup", NoFile),
                 Op("journal", NoFile)>>
     /\ f.journal = j /\ f.backup = j.old /\ f.generation = j.after /\ f.catalog = j.new
     /\ f.commit = commitOf(j.before, j.old)
  \/ /\ todo = <<Op("backup", NoFile), Op("journal", NoFile)>>
     /\ f.journal = j /\ f.backup = j.old /\ finalState(f, j)
  \/ /\ todo = <<Op("journal", NoFile)>>
     /\ f.journal = j /\ finalState(f, j)
Publishing(f, todo) ==
  /\ f.salt = "whole"
  /\ \/ Done(f, todo)
     \/ \E j \in Journal : j.phase = "prepared" /\ Sound(j) /\ Publish(f, todo, j)

Requested(f) == [f EXCEPT !.journal = [f.journal EXCEPT !.phase = "rollback-requested"]]
Requesting(f, todo) ==
  /\ f.journal # NoFile
  /\ todo # <<>> /\ Head(todo) = Op("journal", Requested(f).journal)
  /\ Undoing(Requested(f), Tail(todo))
Aborting(f, todo) == Requesting(f, todo) \/ Undoing(f, todo) \/ Done(f, todo)

After(f, todo) == [f EXCEPT ![Head(todo).file] = Head(todo).value]


-----------------------------------------------------------------------------
(* The next write leads from each place to the next.                       *)

LEMMA Fields ==
  ASSUME NEW x, NEW v
  PROVE  Op(x, v).file = x /\ Op(x, v).value = v
  BY DEF Op

(* A published state has a number, and a commit with each catalog.         *)
LEMMA Commits ==
  ASSUME NEW state \in Current, NEW c \in Catalog \cup {NoFile}
  PROVE  /\ state # NoFile /\ state.revision > 0 /\ commitOf(state, c) # NoFile
         /\ commitOf(state, c).highWater = state.highWater
         /\ commitOf(state, c).revision = state.revision
         /\ commitOf(state, c).catalog = c
<1>1. Top \in 0 .. Top
  BY CatalogShape DEF Top
<1>2. NoFile \notin Commit /\ NoFile \notin CurrentTo(Top)
  BY <1>1, TopTypes, Present
<1>3. state # NoFile /\ state.revision > 0
  <2>1. state # NoFile
    BY <1>2 DEF Current, CurrentTo, Generations, Top
  <2> QED BY <2>1, CatalogShape DEF Current, Generations
<1>4. commitOf(state, c)
        = [highWater |-> state.highWater, revision |-> state.revision, catalog |-> c]
  BY <1>3 DEF commitOf
<1>5. commitOf(state, c) \in Commit
  BY <1>4 DEF Commit, Current
<1> QED BY <1>2, <1>3, <1>4, <1>5

LEMMA JournalCommits ==
  ASSUME NEW j \in Journal
  PROVE  /\ j # NoFile /\ j.after # NoFile /\ j.after \in Current /\ j.after.revision > 0
         /\ j.old \in Catalog \cup {NoFile} /\ j.new \in Catalog
         /\ \A c \in Catalog \cup {NoFile} :
              /\ commitOf(j.after, c) # NoFile
              /\ commitOf(j.after, c).highWater = j.after.highWater
              /\ commitOf(j.after, c).revision = j.after.revision
              /\ commitOf(j.after, c).catalog = c
<1>1. Top \in 0 .. Top
  BY CatalogShape DEF Top
<1>2. NoFile \notin Journal
  BY <1>1, TopTypes, Present
<1>3. /\ j.old \in Catalog \cup {NoFile} /\ j.new \in Catalog /\ j.after \in Current
  BY DEF Journal
<1> QED BY <1>2, <1>3, Commits

LEMMA Unsalted ==
  ASSUME NEW f
  PROVE  /\ (unsalted(f) <=> /\ f.salt = NoFile /\ f.generation = NoFile
                             /\ f.catalog = NoFile /\ f.commit = NoFile)
         /\ ((\A x \in Published \ {"salt"} : f[x] = NoFile)
              <=> f.generation = NoFile /\ f.catalog = NoFile /\ f.commit = NoFile)
  BY Names DEF unsalted

LEMMA UndoingGoesOn ==
  ASSUME NEW f \in Files, NEW todo, Undoing(f, todo)
  PROVE  /\ todo # <<>>
         /\ Undoing(After(f, todo), Tail(todo)) \/ Done(After(f, todo), Tail(todo))
<1>1. PICK j \in Journal : j = f.journal
  BY DEF Undoing, Files
<1>2. f.salt = "whole" /\ Sound(j) /\ j # NoFile
  BY <1>1 DEF Undoing
<1> DEFINE g == After(f, todo)
           rest == Tail(todo)
<1>4. CASE todo = Restore(j) /\ expected(f, j)
  <2> Head(todo) = Op("catalog", j.old) /\ todo # <<>>
    BY <1>4 DEF Restore
  <2>0. Head(todo).file = "catalog" /\ Head(todo).value = j.old
    BY Fields
  <2>1. g = [f EXCEPT !["catalog"] = j.old] /\ todo # <<>>
    BY <2>0 DEF After
  <2> HIDE DEF g
  <2>2. rest = <<Op("generation", j.after), Op("commit", commitOf(j.after, j.old)),
                 Op("backup", NoFile), Op("journal", NoFile)>>
    BY <1>4 DEF Restore
  <2> HIDE DEF rest
  <2>3. /\ g.salt = f.salt /\ g.generation = f.generation /\ g.catalog = j.old
        /\ g.commit = f.commit /\ g.journal = j /\ g.backup = f.backup
    BY <1>1, <2>1 DEF Files
  <2>4. expected(g, j)
    BY <1>4, <2>3 DEF expected
  <2>5. Undoing(g, rest)
    BY <1>2, <2>2, <2>3, <2>4 DEF Undoing, Undo
  <2> QED BY <2>1, <2>5 DEF g, rest
<1>5. CASE /\ todo = <<Op("generation", j.after), Op("commit", commitOf(j.after, j.old)),
                       Op("backup", NoFile), Op("journal", NoFile)>>
           /\ expected(f, j) /\ f.catalog = j.old
  <2> Head(todo) = Op("generation", j.after) /\ todo # <<>>
    BY <1>5
  <2>0. Head(todo).file = "generation" /\ Head(todo).value = j.after
    BY Fields
  <2>1. g = [f EXCEPT !["generation"] = j.after] /\ todo # <<>>
    BY <2>0 DEF After
  <2> HIDE DEF g
  <2>2. rest = <<Op("commit", commitOf(j.after, j.old)), Op("backup", NoFile),
                 Op("journal", NoFile)>>
    BY <1>5
  <2> HIDE DEF rest
  <2>3. /\ g.salt = f.salt /\ g.generation = j.after /\ g.catalog = j.old
        /\ g.commit = f.commit /\ g.journal = j /\ g.backup = f.backup
    BY <1>1, <1>5, <2>1 DEF Files
  <2>4. expected(g, j)
    BY <1>5, <2>3 DEF expected
  <2>5. Undoing(g, rest)
    BY <1>2, <2>2, <2>3, <2>4 DEF Undoing, Undo
  <2> QED BY <2>1, <2>5 DEF g, rest
<1>6. CASE /\ todo = <<Op("commit", commitOf(j.after, j.old)), Op("backup", NoFile),
                       Op("journal", NoFile)>>
           /\ expected(f, j) /\ f.catalog = j.old /\ f.generation = j.after
  <2> Head(todo) = Op("commit", commitOf(j.after, j.old)) /\ todo # <<>>
    BY <1>6
  <2>0. Head(todo).file = "commit" /\ Head(todo).value = commitOf(j.after, j.old)
    BY Fields
  <2>1. g = [f EXCEPT !["commit"] = commitOf(j.after, j.old)] /\ todo # <<>>
    BY <2>0 DEF After
  <2> HIDE DEF g
  <2>2. rest = <<Op("backup", NoFile), Op("journal", NoFile)>>
    BY <1>6
  <2> HIDE DEF rest
  <2>3. /\ g.salt = f.salt /\ g.generation = j.after /\ g.catalog = j.old
        /\ g.commit = commitOf(j.after, j.old) /\ g.journal = j
    BY <1>1, <1>6, <2>1 DEF Files
  <2>4. settled(g, j)
    BY <2>3 DEF settled, rollbackState
  <2>5. Undoing(g, rest)
    BY <1>2, <2>2, <2>3, <2>4 DEF Undoing, Undo
  <2> QED BY <2>1, <2>5 DEF g, rest
<1>7. CASE todo = <<Op("backup", NoFile), Op("journal", NoFile)>> /\ settled(f, j)
  <2> Head(todo) = Op("backup", NoFile) /\ todo # <<>>
    BY <1>7
  <2>0. Head(todo).file = "backup" /\ Head(todo).value = NoFile
    BY Fields
  <2>1. g = [f EXCEPT !["backup"] = NoFile] /\ todo # <<>>
    BY <2>0 DEF After
  <2> HIDE DEF g
  <2>2. rest = <<Op("journal", NoFile)>>
    BY <1>7
  <2> HIDE DEF rest
  <2>3. /\ g.salt = f.salt /\ g.generation = f.generation /\ g.catalog = f.catalog
        /\ g.commit = f.commit /\ g.journal = j
    BY <1>1, <2>1 DEF Files
  <2>4. settled(g, j)
    BY <1>7, <2>3 DEF settled, rollbackState, finalState
  <2>5. Undoing(g, rest)
    BY <1>2, <2>2, <2>3, <2>4 DEF Undoing, Undo
  <2> QED BY <2>1, <2>5 DEF g, rest
<1>8. CASE todo = <<Op("journal", NoFile)>> /\ settled(f, j)
  <2> Head(todo) = Op("journal", NoFile) /\ todo # <<>> /\ rest = <<>>
    BY <1>8
  <2>0. Head(todo).file = "journal" /\ Head(todo).value = NoFile
    BY Fields
  <2>1. g = [f EXCEPT !["journal"] = NoFile] /\ todo # <<>> /\ rest = <<>>
    BY <2>0 DEF After
  <2> HIDE DEF g
  <2> HIDE DEF rest
  <2>2. /\ g.salt = "whole" /\ g.generation = f.generation /\ g.catalog = f.catalog
        /\ g.commit = f.commit /\ g.journal = NoFile
    BY <1>2, <2>1 DEF Files
  <2>3. PICK c \in {j.old, j.new} :
          g.generation = j.after /\ g.catalog = c /\ g.commit = commitOf(j.after, c)
    BY <1>8, <2>2 DEF settled, rollbackState, finalState
  <2>4. Covers(j.after, c)
    BY <1>2, <2>3 DEF Sound
  <2>5. /\ g.commit # NoFile /\ g.commit.highWater = j.after.highWater
        /\ g.commit.revision = j.after.revision /\ g.commit.catalog = c
    BY <2>3, JournalCommits
  <2>6. current(g) /\ pairValid(g)
    BY <2>3, <2>4, <2>5, JournalCommits DEF current, pairValid, Covers
  <2>7. Done(g, rest)
    BY <2>1, <2>2, <2>6 DEF Done, Clean, readable
  <2> QED BY <2>1, <2>7 DEF g, rest
<1> QED BY <1>1, <1>4, <1>5, <1>6, <1>7, <1>8 DEF Undoing, Undo

LEMMA NormalizingGoesOn ==
  ASSUME NEW f \in Files, NEW todo, Normalizing(f, todo)
  PROVE  /\ todo # <<>>
         /\ Normalizing(After(f, todo), Tail(todo)) \/ Done(After(f, todo), Tail(todo))
<1> DEFINE g == After(f, todo)
           rest == Tail(todo)
<1>1. f.journal = NoFile /\ f.salt # "linked" /\ normalizes(f)
  BY DEF Normalizing
<1>2. f.salt \in {NoFile, "linked", "whole"}
  BY DEF Files
<1>3. CASE todo = <<Op("backup", NoFile)>> /\ ~legacy(f)
  <2> Head(todo) = Op("backup", NoFile) /\ todo # <<>> /\ rest = <<>>
    BY <1>3
  <2>0. Head(todo).file = "backup" /\ Head(todo).value = NoFile
    BY Fields
  <2>1. g = [f EXCEPT !["backup"] = NoFile]
    BY <2>0 DEF After
  <2> HIDE DEF g
  <2>2. /\ g.salt = f.salt /\ g.generation = f.generation /\ g.catalog = f.catalog
        /\ g.commit = f.commit /\ g.journal = NoFile
    BY <1>1, <2>1 DEF Files
  <2>3. readable(f)
    BY <1>1, <1>2, <1>3 DEF normalizes, readable
  <2>4. readable(g)
    BY <2>2, <2>3, Unsalted DEF readable, current, pairValid
  <2>5. Done(g, rest)
    BY <1>1, <2>2, <2>4 DEF Done, Clean
  <2> QED BY <2>5 DEF g
<1>4. ASSUME legacy(f)
      PROVE  /\ migrated(f) \in Current /\ f.catalog \in Catalog \cup {NoFile}
             /\ ((f.generation # NoFile /\ f.catalog # NoFile)
                   => f.generation.highWater = f.catalog.generation)
  <2>1. Top \in 1 .. Top /\ f \in FilesTo(Top)
    BY CatalogShape, TopTypes DEF Top
  <2>2. migrated(f) \in CurrentTo(Top)
    BY <1>4, <2>1, NormalizationTyped
  <2>3. migrated(f) \in Current
    BY <2>2 DEF Current, CurrentTo, Generations, Top
  <2>4. ~unsalted(f) /\ ~current(f) /\ ~ \A x \in Published \ {"salt"} : f[x] = NoFile
    BY <1>4, Unsalted DEF legacy
  <2> QED BY <1>1, <2>3, <2>4 DEF normalizes, Files
<1>5. CASE /\ todo = <<Op("backup", NoFile), Op("commit", commitOf(migrated(f), f.catalog)),
                       Op("generation", migrated(f))>>
           /\ legacy(f)
  <2> Head(todo) = Op("backup", NoFile) /\ todo # <<>>
    BY <1>5
  <2>0. Head(todo).file = "backup" /\ Head(todo).value = NoFile
    BY Fields
  <2>1. g = [f EXCEPT !["backup"] = NoFile]
    BY <2>0 DEF After
  <2> HIDE DEF g
  <2>2. rest = <<Op("commit", commitOf(migrated(f), f.catalog)), Op("generation", migrated(f))>>
    BY <1>5
  <2> HIDE DEF rest
  <2>3. /\ g.salt = f.salt /\ g.generation = f.generation /\ g.catalog = f.catalog
        /\ g.commit = f.commit /\ g.journal = NoFile
    BY <1>1, <2>1 DEF Files
  <2>4. legacy(g) /\ migrated(g) = migrated(f)
    BY <1>5, <2>3 DEF legacy, migrated, current
  <2>5. normalizes(g)
    BY <1>1, <2>3, <2>4, Unsalted DEF normalizes, current, pairValid
  <2>6. Normalizing(g, rest)
    BY <1>1, <2>2, <2>3, <2>4, <2>5 DEF Normalizing
  <2> QED BY <2>6 DEF g, rest
<1>6. CASE /\ todo = <<Op("commit", commitOf(migrated(f), f.catalog)),
                       Op("generation", migrated(f))>>
           /\ legacy(f)
  <2> Head(todo) = Op("commit", commitOf(migrated(f), f.catalog)) /\ todo # <<>>
    BY <1>6
  <2>0. Head(todo).file = "commit" /\ Head(todo).value = commitOf(migrated(f), f.catalog)
    BY Fields
  <2>1. g = [f EXCEPT !["commit"] = commitOf(migrated(f), f.catalog)]
    BY <2>0 DEF After
  <2> HIDE DEF g
  <2>2. rest = <<Op("generation", migrated(f))>>
    BY <1>6
  <2> HIDE DEF rest
  <2>3. /\ g.salt = f.salt /\ g.generation = f.generation /\ g.catalog = f.catalog
        /\ g.commit = commitOf(migrated(f), f.catalog) /\ g.journal = NoFile
    BY <1>1, <2>1 DEF Files
  <2>4. legacy(g) /\ migrated(g) = migrated(f)
    BY <1>6, <2>3 DEF legacy, migrated, current
  <2>5. normalizes(g)
    BY <1>4, <1>6, <2>3, <2>4 DEF normalizes
  <2>6. Normalizing(g, rest)
    BY <1>1, <2>2, <2>3, <2>4, <2>5 DEF Normalizing
  <2> QED BY <2>6 DEF g, rest
<1>7. CASE /\ todo = <<Op("generation", migrated(f))>>
           /\ legacy(f) /\ f.commit = commitOf(migrated(f), f.catalog)
  <2> Head(todo) = Op("generation", migrated(f)) /\ todo # <<>> /\ rest = <<>>
    BY <1>7
  <2>0. Head(todo).file = "generation" /\ Head(todo).value = migrated(f)
    BY Fields
  <2>1. g = [f EXCEPT !["generation"] = migrated(f)]
    BY <2>0 DEF After
  <2> HIDE DEF g
  <2>2. PICK state \in Current : state = migrated(f)
    BY <1>4, <1>7
  <2>3. /\ g.salt = "whole" /\ g.generation = state /\ g.catalog = f.catalog
        /\ g.commit = commitOf(state, f.catalog) /\ g.journal = NoFile
    <3>1. f.salt = "whole"
      BY <1>1, <1>2, <1>7 DEF legacy
    <3> QED BY <1>1, <1>7, <2>1, <2>2, <3>1 DEF Files
  <2>4. f.catalog # NoFile => f.catalog.generation =< state.highWater
    <3>1. ASSUME f.catalog # NoFile
          PROVE  state.highWater = f.catalog.generation /\ state.highWater \in Nat
      <4>1. state.highWater \in Nat
        BY DEF Current, Generations
      <4> QED BY <1>4, <1>7, <2>2, <3>1, <4>1 DEF migrated
    <3> QED BY <3>1
  <2>5. current(g) /\ pairValid(g)
    BY <1>4, <1>7, <2>3, <2>4, Commits DEF current, pairValid
  <2>6. Done(g, rest)
    BY <2>3, <2>5 DEF Done, Clean, readable
  <2> QED BY <2>6 DEF g
<1>8. CASE /\ todo = <<Op("backup", NoFile), Op("generation", migrated(f))>>
           /\ legacy(f) /\ f.commit = commitOf(migrated(f), f.catalog)
  <2> Head(todo) = Op("backup", NoFile) /\ todo # <<>>
    BY <1>8
  <2>0. Head(todo).file = "backup" /\ Head(todo).value = NoFile
    BY Fields
  <2>1. g = [f EXCEPT !["backup"] = NoFile]
    BY <2>0 DEF After
  <2> HIDE DEF g
  <2>2. rest = <<Op("generation", migrated(f))>>
    BY <1>8
  <2> HIDE DEF rest
  <2>3. /\ g.salt = f.salt /\ g.generation = f.generation /\ g.catalog = f.catalog
        /\ g.commit = f.commit /\ g.journal = NoFile
    BY <1>1, <2>1 DEF Files
  <2>4. legacy(g) /\ migrated(g) = migrated(f)
    BY <1>8, <2>3 DEF legacy, migrated, current
  <2>5. normalizes(g)
    BY <1>4, <1>8, <2>3, <2>4 DEF normalizes
  <2>6. Normalizing(g, rest)
    BY <1>1, <1>8, <2>2, <2>3, <2>4, <2>5 DEF Normalizing
  <2> QED BY <2>6 DEF g, rest
<1> QED BY <1>3, <1>5, <1>6, <1>7, <1>8 DEF Normalizing

LEMMA PublishingGoesOn ==
  ASSUME NEW f \in Files, NEW todo, Publishing(f, todo), todo # <<>>
  PROVE  Publishing(After(f, todo), Tail(todo))
<1> DEFINE g == After(f, todo)
           rest == Tail(todo)
<1>1. f.salt = "whole"
  BY DEF Publishing
<1>2. PICK j \in Journal : j.phase = "prepared" /\ Sound(j) /\ Publish(f, todo, j)
  BY DEF Publishing, Done
<1>3. SUFFICES ASSUME ~Done(g, rest)
               PROVE  g.salt = "whole" /\ Publish(g, rest, j)
  <2>1. Done(g, rest) => g.salt = "whole" \/ unsalted(g)
    BY DEF Done, Clean, readable
  <2>2. g.salt = f.salt
    <3>1. Head(todo).file \in {"backup", "journal", "generation", "catalog", "commit"}
      BY <1>2, Fields DEF Publish, Announced
    <3> QED BY <3>1 DEF After, Files
  <2> QED BY <1>1, <1>2, <2>2 DEF Publishing
<1>4. CASE todo = Announced(j) /\ Opens(f, j)
  <2> Head(todo) = Op("backup", j.old)
    BY <1>4 DEF Announced
  <2>0. Head(todo).file = "backup" /\ Head(todo).value = j.old
    BY Fields
  <2>1. g = [f EXCEPT !["backup"] = j.old]
    BY <2>0 DEF After
  <2> HIDE DEF g
  <2>2. rest = <<Op("journal", j), Op("generation", j.after), Op("catalog", j.new),
                 Op("commit", commitOf(j.after, j.new)), Op("backup", NoFile),
                 Op("journal", NoFile)>>
    BY <1>4 DEF Announced
  <2> HIDE DEF rest
  <2>3. /\ g.salt = f.salt /\ g.generation = f.generation /\ g.catalog = f.catalog
        /\ g.commit = f.commit /\ g.journal = f.journal /\ g.backup = j.old
    BY <2>1 DEF Files
  <2>4. Clean(g)
    BY <1>4, <2>3, Unsalted DEF Opens, Clean, readable, current, pairValid
  <2>5. Opens(g, j)
    BY <1>4, <2>3, <2>4 DEF Opens
  <2>6. Publish(g, rest, j)
    BY <2>2, <2>3, <2>5 DEF Publish
  <2> QED BY <1>1, <2>3, <2>6 DEF g, rest
<1>5. CASE /\ todo = <<Op("journal", j), Op("generation", j.after), Op("catalog", j.new),
                       Op("commit", commitOf(j.after, j.new)), Op("backup", NoFile),
                       Op("journal", NoFile)>>
           /\ Opens(f, j) /\ f.backup = j.old
  <2> Head(todo) = Op("journal", j)
    BY <1>5
  <2>0. Head(todo).file = "journal" /\ Head(todo).value = j
    BY Fields
  <2>1. g = [f EXCEPT !["journal"] = j]
    BY <2>0 DEF After
  <2> HIDE DEF g
  <2>2. rest = <<Op("generation", j.after), Op("catalog", j.new),
                 Op("commit", commitOf(j.after, j.new)), Op("backup", NoFile),
                 Op("journal", NoFile)>>
    BY <1>5
  <2> HIDE DEF rest
  <2>3. /\ g.salt = f.salt /\ g.generation = f.generation /\ g.catalog = f.catalog
        /\ g.commit = f.commit /\ g.journal = j /\ g.backup = f.backup
    BY <2>1 DEF Files
  <2>4. Publish(g, rest, j)
    BY <1>5, <2>2, <2>3 DEF Publish, Opens
  <2> QED BY <1>1, <2>3, <2>4 DEF g, rest
<1>6. CASE /\ todo = <<Op("generation", j.after), Op("catalog", j.new),
                       Op("commit", commitOf(j.after, j.new)), Op("backup", NoFile),
                       Op("journal", NoFile)>>
           /\ f.journal = j /\ f.backup = j.old /\ f.generation = j.before
           /\ f.catalog = j.old /\ f.commit = commitOf(j.before, j.old)
  <2> Head(todo) = Op("generation", j.after)
    BY <1>6
  <2>0. Head(todo).file = "generation" /\ Head(todo).value = j.after
    BY Fields
  <2>1. g = [f EXCEPT !["generation"] = j.after]
    BY <2>0 DEF After
  <2> HIDE DEF g
  <2>2. rest = <<Op("catalog", j.new), Op("commit", commitOf(j.after, j.new)),
                 Op("backup", NoFile), Op("journal", NoFile)>>
    BY <1>6
  <2> HIDE DEF rest
  <2>3. /\ g.salt = f.salt /\ g.generation = j.after /\ g.catalog = f.catalog
        /\ g.commit = f.commit /\ g.journal = f.journal /\ g.backup = f.backup
    BY <2>1 DEF Files
  <2>4. Publish(g, rest, j)
    BY <1>6, <2>2, <2>3 DEF Publish
  <2> QED BY <1>1, <2>3, <2>4 DEF g, rest
<1>7. CASE /\ todo = <<Op("catalog", j.new), Op("commit", commitOf(j.after, j.new)),
                       Op("backup", NoFile), Op("journal", NoFile)>>
           /\ f.journal = j /\ f.backup = j.old /\ f.generation = j.after
           /\ f.catalog = j.old /\ f.commit = commitOf(j.before, j.old)
  <2> Head(todo) = Op("catalog", j.new)
    BY <1>7
  <2>0. Head(todo).file = "catalog" /\ Head(todo).value = j.new
    BY Fields
  <2>1. g = [f EXCEPT !["catalog"] = j.new]
    BY <2>0 DEF After
  <2> HIDE DEF g
  <2>2. rest = <<Op("commit", commitOf(j.after, j.new)), Op("backup", NoFile),
                 Op("journal", NoFile)>>
    BY <1>7
  <2> HIDE DEF rest
  <2>3. /\ g.salt = f.salt /\ g.generation = f.generation /\ g.catalog = j.new
        /\ g.commit = f.commit /\ g.journal = f.journal /\ g.backup = f.backup
    BY <2>1 DEF Files
  <2>4. Publish(g, rest, j)
    BY <1>7, <2>2, <2>3 DEF Publish
  <2> QED BY <1>1, <2>3, <2>4 DEF g, rest
<1>8. CASE /\ todo = <<Op("commit", commitOf(j.after, j.new)), Op("backup", NoFile),
                       Op("journal", NoFile)>>
           /\ f.journal = j /\ f.backup = j.old /\ f.generation = j.after
           /\ f.catalog = j.new /\ f.commit = commitOf(j.before, j.old)
  <2> Head(todo) = Op("commit", commitOf(j.after, j.new))
    BY <1>8
  <2>0. Head(todo).file = "commit" /\ Head(todo).value = commitOf(j.after, j.new)
    BY Fields
  <2>1. g = [f EXCEPT !["commit"] = commitOf(j.after, j.new)]
    BY <2>0 DEF After
  <2> HIDE DEF g
  <2>2. rest = <<Op("backup", NoFile), Op("journal", NoFile)>>
    BY <1>8
  <2> HIDE DEF rest
  <2>3. /\ g.salt = f.salt /\ g.generation = f.generation /\ g.catalog = f.catalog
        /\ g.commit = commitOf(j.after, j.new) /\ g.journal = f.journal /\ g.backup = f.backup
    BY <2>1 DEF Files
  <2>4. Publish(g, rest, j)
    BY <1>8, <2>2, <2>3 DEF Publish, finalState
  <2> QED BY <1>1, <2>3, <2>4 DEF g, rest
<1>9. CASE /\ todo = <<Op("backup", NoFile), Op("journal", NoFile)>>
           /\ f.journal = j /\ f.backup = j.old /\ finalState(f, j)
  <2> Head(todo) = Op("backup", NoFile)
    BY <1>9
  <2>0. Head(todo).file = "backup" /\ Head(todo).value = NoFile
    BY Fields
  <2>1. g = [f EXCEPT !["backup"] = NoFile]
    BY <2>0 DEF After
  <2> HIDE DEF g
  <2>2. rest = <<Op("journal", NoFile)>>
    BY <1>9
  <2> HIDE DEF rest
  <2>3. /\ g.salt = f.salt /\ g.generation = f.generation /\ g.catalog = f.catalog
        /\ g.commit = f.commit /\ g.journal = f.journal
    BY <2>1 DEF Files
  <2>4. Publish(g, rest, j)
    BY <1>9, <2>2, <2>3 DEF Publish, finalState
  <2> QED BY <1>1, <2>3, <2>4 DEF g, rest
<1>10. CASE todo = <<Op("journal", NoFile)>> /\ f.journal = j /\ finalState(f, j)
  <2>1. settled(f, j) /\ j # NoFile
    BY <1>2, <1>10, JournalCommits DEF settled
  <2>2. Undoing(f, todo)
    BY <1>1, <1>2, <1>10, <2>1 DEF Undoing, Undo
  <2>3. rest = <<>>
    BY <1>10
  <2>4. Undoing(g, rest) \/ Done(g, rest)
    BY <2>2, UndoingGoesOn
  <2>5. ~Undoing(g, rest)
    BY <2>3 DEF Undoing, Undo, Restore
  <2> QED BY <1>3, <2>4, <2>5
<1> QED BY <1>2, <1>4, <1>5, <1>6, <1>7, <1>8, <1>9, <1>10 DEF Publish

LEMMA PreparingGoesOn ==
  ASSUME NEW f \in Files, NEW todo, Preparing(f, todo), todo # <<>>
  PROVE  /\ Preparing(After(f, todo), Tail(todo))
         /\ \A x \in Published \ {"salt"} : After(f, todo)[x] = f[x]
<1> DEFINE g == After(f, todo)
           rest == Tail(todo)
<1>1. CASE /\ todo = <<Op("salt", "whole")>> /\ f.journal = NoFile
           /\ \A x \in Published \ {"salt"} : f[x] = NoFile
  <2> Head(todo) = Op("salt", "whole") /\ rest = <<>>
    BY <1>1
  <2>0. Head(todo).file = "salt" /\ Head(todo).value = "whole"
    BY Fields
  <2>1. g = [f EXCEPT !["salt"] = "whole"]
    BY <2>0 DEF After
  <2> HIDE DEF g
  <2>2. /\ g.salt = "whole" /\ g.generation = f.generation /\ g.catalog = f.catalog
        /\ g.commit = f.commit /\ g.journal = NoFile
    BY <1>1, <2>1 DEF Files
  <2>3. \A x \in Published \ {"salt"} : g[x] = f[x]
    BY <2>1, Names DEF Files
  <2>4. Clean(g)
    BY <1>1, <2>2, <2>3 DEF Clean, readable
  <2> QED BY <2>2, <2>3, <2>4 DEF Preparing, g
<1>2. CASE /\ todo = <<Op("salt", "linked"), Op("salt", "whole")>>
           /\ "link" \in Hazards /\ f.journal = NoFile /\ unsalted(f)
  <2> Head(todo) = Op("salt", "linked") /\ rest = <<Op("salt", "whole")>>
    BY <1>2
  <2>0. Head(todo).file = "salt" /\ Head(todo).value = "linked"
    BY Fields
  <2>1. g = [f EXCEPT !["salt"] = "linked"]
    BY <2>0 DEF After
  <2> HIDE DEF g, rest
  <2>2. g.salt = "linked" /\ g.journal = NoFile
    BY <1>2, <2>1 DEF Files
  <2>3. \A x \in Published \ {"salt"} : g[x] = f[x] /\ f[x] = NoFile
    BY <1>2, <2>1, Names DEF Files, unsalted
  <2> QED BY <1>2, <2>2, <2>3 DEF Preparing, g
<1> QED BY <1>1, <1>2 DEF Preparing

LEMMA AbortingGoesOn ==
  ASSUME NEW f \in Files, NEW todo, Aborting(f, todo), todo # <<>>
  PROVE  Aborting(After(f, todo), Tail(todo))
<1>1. CASE Requesting(f, todo)
  <2> DEFINE k == [f.journal EXCEPT !.phase = "rollback-requested"]
  <2>1. Requested(f).journal = k /\ Requested(f) = [f EXCEPT !["journal"] = k]
    BY DEF Requested, Files
  <2>2. Head(todo).file = "journal" /\ Head(todo).value = k
    BY <1>1, <2>1, Fields DEF Requesting
  <2>3. After(f, todo) = [f EXCEPT !["journal"] = k]
    BY <2>2 DEF After
  <2> QED BY <1>1, <2>1, <2>3 DEF Requesting, Aborting
<1>2. CASE Undoing(f, todo)
  BY <1>2, UndoingGoesOn DEF Aborting
<1>3. CASE Done(f, todo)
  BY <1>3 DEF Done
<1> QED BY <1>1, <1>2, <1>3 DEF Aborting

LEMMA RecoveringGoesOn ==
  ASSUME NEW f \in Files, NEW todo, Recovering(f, todo), todo # <<>>
  PROVE  Recovering(After(f, todo), Tail(todo))
<1>1. CASE Normalizing(f, todo)
  BY <1>1, NormalizingGoesOn DEF Recovering
<1>2. CASE Undoing(f, todo)
  BY <1>2, UndoingGoesOn DEF Recovering
<1>3. CASE Done(f, todo)
  BY <1>3 DEF Done
<1> QED BY <1>1, <1>2, <1>3 DEF Recovering

-----------------------------------------------------------------------------
(* How recoveries, publications and aborts begin.                          *)

LEMMA RecoveryBegins ==
  ASSUME NEW f \in Files, ~refused(f), Sealed(f)
  PROVE  Recovering(f, recovery(f))
<1>1. f.salt \in {NoFile, "whole"} /\ f.salt # "linked"
  BY DEF refused, Files
<1>2. CASE f.journal = NoFile
  <2>1. normalizes(f)
    BY <1>2 DEF refused
  <2>2. CASE ~legacy(f)
    <3>1. recovery(f) = <<Op("backup", NoFile)>> \o <<>>
      BY <1>2, <2>2 DEF recovery, normalization
    <3>2. <<Op("backup", NoFile)>> \in Seq({Op("backup", NoFile)})
      OBVIOUS
    <3>3. recovery(f) = <<Op("backup", NoFile)>>
      BY <3>1, <3>2, ConcatEmptySeq
    <3> QED BY <1>1, <1>2, <2>1, <2>2, <3>3 DEF Recovering, Normalizing
  <2>3. CASE legacy(f) /\ f.commit = NoFile
    <3>1. recovery(f)
            = <<Op("backup", NoFile), Op("commit", commitOf(migrated(f), f.catalog)),
                Op("generation", migrated(f))>>
      BY <1>2, <2>3, JoinOneTwo DEF recovery, normalization
    <3> QED BY <1>1, <1>2, <2>1, <2>3, <3>1 DEF Recovering, Normalizing
  <2>4. CASE legacy(f) /\ f.commit # NoFile
    <3>1. recovery(f) = <<Op("backup", NoFile), Op("generation", migrated(f))>>
      BY <1>2, <2>4, JoinOneOne DEF recovery, normalization
    <3>2. f.commit = commitOf(migrated(f), f.catalog)
      <4>1. ~unsalted(f) /\ ~current(f) /\ ~ \A x \in Published \ {"salt"} : f[x] = NoFile
        BY <2>4, Unsalted DEF legacy
      <4> QED BY <2>1, <2>4, <4>1 DEF normalizes
    <3> QED BY <1>1, <1>2, <2>1, <2>4, <3>1, <3>2 DEF Recovering, Normalizing
  <2> QED BY <2>2, <2>3, <2>4
<1>3. CASE f.journal # NoFile
  <2>1. PICK j \in Journal : j = f.journal
    BY <1>3 DEF Files
  <2>2. f.salt = "whole" /\ Sound(j) /\ j # NoFile
    BY <1>1, <1>3, <2>1 DEF refused, Sealed
  <2>3. settled(f, j) \/ expected(f, j)
    BY <1>3, <2>1 DEF refused
  <2>4. recovery(f) = IF settled(f, j) THEN cleanup ELSE Restore(j)
    <3>1. /\ recovery(f) = IF settled(f, j) THEN cleanup
                           ELSE <<Op("catalog", j.old), Op("generation", j.after),
                                  Op("commit", commitOf(j.after, j.old))>> \o cleanup
      BY <2>1, <2>2 DEF recovery
    <3> QED BY <3>1, JoinThreeTwo DEF cleanup, Restore
  <2>5. Undo(f, recovery(f), j)
    BY <2>3, <2>4 DEF Undo, cleanup
  <2> QED BY <2>1, <2>2, <2>5 DEF Recovering, Undoing
<1> QED BY <1>2, <1>3

(* A clean directory has the commit of its state.                          *)
LEMMA CleanCommit ==
  ASSUME NEW f \in Files, Clean(f)
  PROVE  /\ f.commit = commitOf(f.generation, f.catalog)
         /\ (f.generation # NoFile => Covers(f.generation, f.catalog))
         /\ (f.catalog # NoFile => f.generation # NoFile)
<1>1. CASE f.generation = NoFile /\ f.catalog = NoFile /\ f.commit = NoFile
  BY <1>1 DEF commitOf
<1>2. CASE current(f) /\ pairValid(f)
  <2>1. f.generation # NoFile /\ f.commit \in Commit
    BY <1>2 DEF current, pairValid, Files
  <2>2. /\ f.commit.highWater = f.generation.highWater
        /\ f.commit.revision = f.generation.revision /\ f.commit.catalog = f.catalog
    BY <1>2 DEF pairValid
  <2>3. f.commit = [highWater |-> f.generation.highWater, revision |-> f.generation.revision,
                    catalog |-> f.catalog]
    BY <2>1, <2>2 DEF Commit
  <2> QED BY <1>2, <2>1, <2>3 DEF commitOf, pairValid, Covers
<1> QED BY <1>1, <1>2, Unsalted DEF Clean, readable

LEMMA PublicationBegins ==
  ASSUME NEW f \in Files, Preparing(f, <<>>), NEW new \in Catalog, NEW hw \in Nat,
         journalOf(f, new, hw) \in Journal, new.generation =< hw,
         f.generation # NoFile => f.generation.highWater =< hw
  PROVE  Publishing(f, Announced(journalOf(f, new, hw)))
<1> DEFINE j == journalOf(f, new, hw)
<1>1. Clean(f) /\ f.salt = "whole"
  BY DEF Preparing
<1>2. /\ j.phase = "prepared" /\ j.old = f.catalog /\ j.new = new /\ j.before = f.generation
      /\ j.after.highWater = hw
  BY DEF journalOf
<1>3. Covers(j.after, j.old)
  <2>1. ASSUME f.catalog # NoFile
        PROVE  f.catalog.generation =< hw
    <3>1. f.generation # NoFile /\ f.catalog.generation =< f.generation.highWater
      BY <1>1, <2>1, CleanCommit DEF Covers
    <3>2. f.catalog.generation \in Nat /\ f.generation.highWater \in Nat
      <4>1. f.catalog \in CatalogTo(Top) /\ f.generation \in GenerationTo(Top)
        BY <2>1, <3>1, TopTypes DEF Files
      <4>2. Top \in Nat
        BY CatalogShape DEF Top
      <4>3. f.catalog.generation \in 1 .. Top
        BY <4>1, <4>2, CatalogGrows
      <4> QED BY <4>1, <4>3, <4>2 DEF GenerationTo
    <3> QED BY <3>1, <3>2
  <2> QED BY <1>2, <2>1 DEF Covers
<1>4. Covers(j.after, j.new)
  BY <1>2 DEF Covers
<1>5. Opens(f, j)
  BY <1>1, <1>2, CleanCommit DEF Opens
<1> HIDE DEF j
<1>6. j \in Journal /\ Sound(j) /\ Publish(f, Announced(j), j)
  BY <1>3, <1>4, <1>5 DEF Sound, Publish, j
<1> QED BY <1>1, <1>2, <1>6 DEF Publishing, j

(* What is published under a journal, and what it can be undone from.      *)
Doubtful(todo) ==
  (todo # <<>> /\ Head(todo).file \in {"generation", "catalog", "commit"}) \/ todo = cleanup
Undoable(f) ==
  /\ f.journal # NoFile /\ f.salt = "whole" /\ Sound(f.journal)
  /\ expected(f, f.journal)

LEMMA DoubtUndoable ==
  ASSUME NEW f \in Files, NEW todo, Publishing(f, todo), Doubtful(todo)
  PROVE  /\ Undoable(f)
         /\ ((todo # <<>> /\ Head(todo).file \in {"generation", "catalog", "commit"})
               => Doubtful(Tail(todo)))
<1>1. f.salt = "whole"
  BY DEF Publishing
<1>2. PICK j \in Journal : j.phase = "prepared" /\ Sound(j) /\ Publish(f, todo, j)
  <2>1. todo # <<>>
    BY DEF Doubtful, cleanup
  <2> QED BY <2>1 DEF Publishing, Done
<1>3. j # NoFile /\ ("generation" # "backup" /\ "generation" # "journal")
  BY JournalCommits
<1>4. ASSUME f.journal = j, f.backup = j.old, f.generation \in {j.before, j.after},
             f.catalog \in {j.old, j.new},
             f.commit \in {commitOf(j.before, j.old), commitOf(j.after, j.new)}
      PROVE  Undoable(f)
  BY <1>1, <1>2, <1>3, <1>4 DEF Undoable, expected
<1>5. CASE todo = Announced(j) /\ Opens(f, j)
  <2>1. Head(todo) = Op("backup", j.old) /\ todo # cleanup /\ todo # <<>>
    BY <1>5 DEF Announced, cleanup
  <2> QED BY <2>1, Fields DEF Doubtful
<1>6. CASE /\ todo = <<Op("journal", j), Op("generation", j.after), Op("catalog", j.new),
                       Op("commit", commitOf(j.after, j.new)), Op("backup", NoFile),
                       Op("journal", NoFile)>>
           /\ Opens(f, j) /\ f.backup = j.old
  <2>1. Head(todo) = Op("journal", j) /\ todo # cleanup /\ todo # <<>>
    BY <1>6 DEF cleanup
  <2> QED BY <2>1, Fields DEF Doubtful
<1>7. CASE /\ todo = <<Op("generation", j.after), Op("catalog", j.new),
                       Op("commit", commitOf(j.after, j.new)), Op("backup", NoFile),
                       Op("journal", NoFile)>>
           /\ f.journal = j /\ f.backup = j.old /\ f.generation = j.before
           /\ f.catalog = j.old /\ f.commit = commitOf(j.before, j.old)
  <2>1. Tail(todo) # <<>> /\ Head(Tail(todo)) = Op("catalog", j.new)
    BY <1>7
  <2> QED BY <1>4, <1>7, <2>1, Fields DEF Doubtful
<1>8. CASE /\ todo = <<Op("catalog", j.new), Op("commit", commitOf(j.after, j.new)),
                       Op("backup", NoFile), Op("journal", NoFile)>>
           /\ f.journal = j /\ f.backup = j.old /\ f.generation = j.after
           /\ f.catalog = j.old /\ f.commit = commitOf(j.before, j.old)
  <2>1. Tail(todo) # <<>> /\ Head(Tail(todo)) = Op("commit", commitOf(j.after, j.new))
    BY <1>8
  <2> QED BY <1>4, <1>8, <2>1, Fields DEF Doubtful
<1>9. CASE /\ todo = <<Op("commit", commitOf(j.after, j.new)), Op("backup", NoFile),
                       Op("journal", NoFile)>>
           /\ f.journal = j /\ f.backup = j.old /\ f.generation = j.after
           /\ f.catalog = j.new /\ f.commit = commitOf(j.before, j.old)
  <2>1. Tail(todo) = cleanup
    BY <1>9 DEF cleanup
  <2> QED BY <1>4, <1>9, <2>1 DEF Doubtful
<1>10. CASE /\ todo = <<Op("backup", NoFile), Op("journal", NoFile)>>
            /\ f.journal = j /\ f.backup = j.old /\ finalState(f, j)
  <2>1. Head(todo) = Op("backup", NoFile)
    BY <1>10
  <2>2. Undoable(f)
    BY <1>4, <1>10 DEF finalState
  <2> QED BY <2>1, <2>2, Fields
<1>11. CASE todo = <<Op("journal", NoFile)>> /\ f.journal = j /\ finalState(f, j)
  <2>1. Head(todo) = Op("journal", NoFile) /\ todo # cleanup
    BY <1>11 DEF cleanup
  <2> QED BY <2>1, Fields DEF Doubtful
<1> QED BY <1>2, <1>5, <1>6, <1>7, <1>8, <1>9, <1>10, <1>11 DEF Publish

LEMMA AbortionBegins ==
  ASSUME NEW f \in Files, Undoable(f)
  PROVE  Aborting(f, abortion(f))
<1>1. PICK j \in Journal : j = f.journal
  BY DEF Undoable, Files
<1> DEFINE k == [j EXCEPT !.phase = "rollback-requested"]
           g == [f EXCEPT !.journal = k]
<1>2. k \in Journal /\ k.old = j.old /\ k.new = j.new /\ k.before = j.before /\ k.after = j.after
  BY DEF Journal
<1>3. /\ g \in Files /\ g.salt = f.salt /\ g.generation = f.generation /\ g.catalog = f.catalog
      /\ g.commit = f.commit /\ g.journal = k /\ g.backup = f.backup
  BY <1>2 DEF Files
<1>4. Requested(f) = g /\ Requested(f).journal = k
  BY <1>1, <1>3 DEF Requested
<1>5. abortion(f) = <<Op("journal", k)>> \o (IF refused(g) THEN <<>> ELSE recovery(g))
  BY <1>1 DEF abortion
<1> HIDE DEF g, k
<1>6. k # NoFile /\ Sound(k)
  <2>1. k # NoFile
    BY <1>2, JournalCommits
  <2> QED BY <1>1, <1>2, <2>1 DEF Sound, Undoable
<1>7. expected(g, k)
  BY <1>1, <1>2, <1>3 DEF expected, Undoable
<1>8. ~refused(g)
  <2>1. g.salt = "whole"
    BY <1>3 DEF Undoable
  <2>2. g.salt # NoFile
    <3>1. Top \in 0 .. Top
      BY CatalogShape DEF Top
    <3> QED BY <2>1, <3>1, Present
  <2> QED BY <1>3, <1>6, <1>7, <2>1, <2>2 DEF refused
<1>9. recovery(g) = IF settled(g, k) THEN cleanup ELSE Restore(k)
  <2>1. recovery(g) = IF settled(g, k) THEN cleanup
                      ELSE <<Op("catalog", k.old), Op("generation", k.after),
                             Op("commit", commitOf(k.after, k.old))>> \o cleanup
    BY <1>3, <1>6 DEF recovery
  <2> QED BY <2>1, JoinThreeTwo DEF cleanup, Restore
<1>10. PICK rest : /\ rest = recovery(g) /\ Undo(g, rest, k)
                   /\ Head(abortion(f)) = Op("journal", k) /\ abortion(f) # <<>>
                   /\ Tail(abortion(f)) = rest
  <2>1. CASE settled(g, k)
    <3>1. abortion(f) = <<Op("journal", k), Op("backup", NoFile), Op("journal", NoFile)>>
      BY <1>5, <1>8, <1>9, <2>1, JoinOneTwo DEF cleanup
    <3>2. Tail(abortion(f)) = cleanup /\ Head(abortion(f)) = Op("journal", k)
      BY <3>1 DEF cleanup
    <3> QED BY <1>9, <2>1, <3>1, <3>2 DEF Undo, cleanup
  <2>2. CASE ~settled(g, k)
    <3>1. abortion(f)
            = <<Op("journal", k), Op("catalog", k.old), Op("generation", k.after),
                Op("commit", commitOf(k.after, k.old)), Op("backup", NoFile),
                Op("journal", NoFile)>>
      BY <1>5, <1>8, <1>9, <2>2, JoinOneFive DEF Restore
    <3>2. Tail(abortion(f)) = Restore(k) /\ Head(abortion(f)) = Op("journal", k)
      BY <3>1 DEF Restore
    <3> QED BY <1>7, <1>9, <2>2, <3>1, <3>2 DEF Undo
  <2> QED BY <2>1, <2>2
<1>11. Undoing(g, rest)
  BY <1>3, <1>6, <1>10 DEF Undoing, Undoable
<1>12. f.journal # NoFile
  BY DEF Undoable
<1> QED BY <1>4, <1>10, <1>11, <1>12 DEF Aborting, Requesting

-----------------------------------------------------------------------------
(* The invariant: the holder of the lock is where its program and the files*)
(* say, and a command publishes upon what it captured when it was the last *)
(* one begun.                                                              *)

Going(f, r) ==
  /\ (r.pc \in {"recover", "rerecover"} => Recovering(f, r.todo))
  /\ (r.pc = "ready" => /\ Preparing(f, r.todo)
                        /\ \A x \in Published \ {"salt"} : f[x] = r.base[x])
  /\ (r.pc = "publish" => Publishing(f, r.todo))
  /\ (r.pc = "abort" => Aborting(f, r.todo))

Captured(r, n) ==
  /\ r.stamp \in 1 .. n /\ r.base \in FilesTo(r.stamp) /\ r.kind \in {"refresh", "measure"}
  /\ (r.kind = "measure" => r.base.catalog # NoFile)

Counts(f, r, n) ==
  /\ r.todo \in Seq(OperationTo(n + 1))
  /\ (r.pc = "recover" => /\ r.stamp = n /\ n # 0 /\ f \in FilesTo(n)
                          /\ r.todo \in Seq(OperationTo(n)))
  /\ (r.pc \in {"measure", "rerecover", "ready"} => Captured(r, n))

Kept(ds, f, n) == f \in ds /\ ds \subseteq FilesTo(n + 1) /\ \A d \in ds : Sealed(d)

IInv ==
  /\ TypeOK /\ Kept(durable, files, commands)
  /\ \A p \in Commands : Going(files, run[p]) /\ Counts(files, run[p], commands)

LEMMA CountsGrow ==
  ASSUME NEW n \in Nat, NEW m \in Nat, n =< m
  PROVE  /\ \A f, g, r : (Counts(f, r, n) /\ r.pc # "recover") => Counts(g, r, m)
         /\ \A ds, f : Kept(ds, f, n) => Kept(ds, f, m)
<1>1. n + 1 \in Nat /\ m + 1 \in Nat /\ n + 1 =< m + 1
  OBVIOUS
<1>2. FilesTo(n + 1) \subseteq FilesTo(m + 1) /\ OperationTo(n + 1) \subseteq OperationTo(m + 1)
  BY <1>1, TypesGrow
<1>3. ASSUME NEW f, NEW g, NEW r, Counts(f, r, n), r.pc # "recover"
      PROVE  Counts(g, r, m)
  <2>1. r.todo \in Seq(OperationTo(m + 1))
    <3>1. r.todo \in Seq(OperationTo(n + 1))
      BY <1>3 DEF Counts
    <3> QED BY <1>2, <3>1, SeqMonotonic
  <2>2. Captured(r, n) => Captured(r, m)
    BY DEF Captured
  <2> QED BY <1>3, <2>1, <2>2 DEF Counts
<1>4. \A ds, f : Kept(ds, f, n) => Kept(ds, f, m)
  BY <1>2 DEF Kept
<1> QED BY <1>3, <1>4

(* What the types are worth.                                               *)
LEMMA FromTypes ==
  ASSUME IInv
  PROVE  /\ commands \in Nat /\ commands =< MaxCommands /\ commands + 1 \in 1 .. Top
         /\ commands \in 0 .. Top /\ MaxCommands \in Nat
         /\ files \in Files /\ files \in FilesTo(commands + 1) /\ Sealed(files)
         /\ \A d \in durable : d \in Files
<1>1. /\ commands \in Nat /\ commands =< MaxCommands /\ commands + 1 \in 1 .. Top
      /\ commands \in 0 .. Top /\ MaxCommands \in Nat
  BY CatalogShape DEF IInv, TypeOK, Top
<1> QED BY <1>1 DEF IInv, TypeOK, Kept

LEMMA OperationsTyped ==
  ASSUME NEW n \in 0 .. MaxCommands
  PROVE  /\ Seq(OperationTo(n)) \subseteq Seq(Operation)
         /\ Seq(OperationTo(n)) \subseteq Seq(OperationTo(n + 1))
         /\ Seq(OperationTo(n + 1)) \subseteq Seq(Operation)
         /\ FilesTo(n) \subseteq Files /\ FilesTo(n + 1) \subseteq Files
<1>1. /\ n \in Nat /\ n + 1 \in Nat /\ Top \in Nat /\ n =< Top /\ n + 1 =< Top /\ n =< n + 1
  BY CatalogShape DEF Top
<1>2. /\ OperationTo(n) \subseteq Operation /\ OperationTo(n + 1) \subseteq Operation
      /\ OperationTo(n) \subseteq OperationTo(n + 1)
      /\ FilesTo(n) \subseteq Files /\ FilesTo(n + 1) \subseteq Files
  BY <1>1, TypesGrow, TopTypes
<1> QED BY <1>2, SeqMonotonic

(* A step of p: the others have not the lock, or see nothing of it.        *)
LEMMA OneSteps ==
  ASSUME IInv, NEW p \in Commands, run' \in [Commands -> Run],
         \A q \in Commands \ {p} :
           /\ run'[q].pc = run[q].pc /\ run'[q].todo = run[q].todo
           /\ run'[q].stamp = run[q].stamp /\ run'[q].base = run[q].base
           /\ run'[q].kind = run[q].kind
           /\ (holder' = q <=> holder = q)
           /\ (holder = q => files' = files /\ commands' = commands),
         commands' \in 0 .. MaxCommands, commands =< commands',
         holder' \in Commands \cup {NoFile},
         holder' = p <=> run'[p].pc \in Locked, run'[p].todo # <<>> => holder' = p,
         selected' \in Selection, shown' \in Catalog \cup {NoFile}, faults' \in 0 .. MaxFaults,
         Kept(durable', files', commands'),
         Going(files', run'[p]), Counts(files', run'[p], commands')
  PROVE  IInv'
<1>1. commands \in Nat /\ commands' \in Nat /\ MaxCommands \in Nat
  BY FromTypes, CatalogShape
<1>2. ASSUME NEW q \in Commands, q # p
      PROVE  /\ Going(files', run'[q]) /\ Counts(files', run'[q], commands')
             /\ (holder' = q <=> run'[q].pc \in Locked)
             /\ (run'[q].todo # <<>> => holder' = q)
  <2>1. /\ run'[q].pc = run[q].pc /\ run'[q].todo = run[q].todo
        /\ run'[q].stamp = run[q].stamp /\ run'[q].base = run[q].base
        /\ run'[q].kind = run[q].kind
        /\ (holder' = q <=> holder = q)
        /\ (holder = q => files' = files /\ commands' = commands)
    BY <1>2
  <2>2. /\ (holder = q <=> run[q].pc \in Locked) /\ (run[q].todo # <<>> => holder = q)
        /\ Going(files, run[q]) /\ Counts(files, run[q], commands)
    BY DEF IInv, TypeOK
  <2>3. Counts(files', run[q], commands')
    <3>1. CASE holder = q
      BY <2>1, <2>2, <3>1
    <3>2. CASE holder # q
      <4>1. run[q].pc # "recover"
        BY <2>2, <3>2 DEF Locked
      <4> QED BY <1>1, <2>2, <4>1, CountsGrow
    <3> QED BY <3>1, <3>2
  <2>4. Counts(files', run'[q], commands')
    BY <2>1, <2>3 DEF Counts, Captured
  <2>5. Going(files', run'[q])
    <3>1. CASE holder = q
      BY <2>1, <2>2, <3>1 DEF Going
    <3>2. CASE holder # q
      BY <2>1, <2>2, <3>2 DEF Going, Locked
    <3> QED BY <3>1, <3>2
  <2> QED BY <2>1, <2>2, <2>4, <2>5
<1>3. files' \in durable' /\ durable' \subseteq Files
  <2>1. FilesTo(commands' + 1) \subseteq Files
    BY OperationsTyped
  <2> QED BY <2>1 DEF Kept
<1>4. TypeOK'
  BY <1>2, <1>3 DEF TypeOK
<1> QED BY <1>2, <1>4 DEF IInv

LEMMA Idles ==
  /\ Idle \in Run /\ Idle.pc = "idle" /\ Idle.todo = <<>>
  /\ \A f, n : Going(f, Idle) /\ Counts(f, Idle, n)
<1>1. Idle \in Run
  <2>1. 0 \in 0 .. MaxCommands
    BY CatalogShape
  <2> QED BY <2>1 DEF Idle, Run, Locked, CommandKinds
<1>2. Idle.pc = "idle" /\ Idle.todo = <<>>
  BY DEF Idle
<1>3. \A n : <<>> \in Seq(OperationTo(n))
  OBVIOUS
<1>4. \A f, n : Going(f, Idle) /\ Counts(f, Idle, n)
  BY <1>2, <1>3 DEF Going, Counts
<1> QED BY <1>1, <1>2, <1>4

LEMMA Unmoved ==
  ASSUME IInv, UNCHANGED <<files, durable, commands>>
  PROVE  /\ commands' \in 0 .. MaxCommands /\ commands =< commands'
         /\ Kept(durable', files', commands')
  BY FromTypes DEF IInv, TypeOK

LEMMA Others ==
  ASSUME IInv
  PROVE  /\ (UNCHANGED selected => selected' \in Selection)
         /\ (UNCHANGED shown => shown' \in Catalog \cup {NoFile})
         /\ (shown' = files.catalog => shown' \in Catalog \cup {NoFile})
         /\ (UNCHANGED faults => faults' \in 0 .. MaxFaults)
         /\ \A h : Fault(h) => faults' \in 0 .. MaxFaults
<1>1. files \in Files
  BY FromTypes
<1>2. files.catalog \in Catalog \cup {NoFile}
  BY <1>1 DEF Files
<1> QED BY <1>2, CatalogShape DEF IInv, TypeOK, Fault

LEMMA Leaving ==
  ASSUME IInv, NEW p \in Commands, Leave(p),
         holder \in {p, NoFile} \/ (files' = files /\ commands' = commands),
         commands' \in 0 .. MaxCommands, commands =< commands',
         selected' \in Selection, shown' \in Catalog \cup {NoFile}, faults' \in 0 .. MaxFaults,
         Kept(durable', files', commands')
  PROVE  IInv'
<1>1. run' = [run EXCEPT ![p] = Idle] /\ holder' = IF holder = p THEN NoFile ELSE holder
  BY DEF Leave
<1>2. run \in [Commands -> Run] /\ NoFile \notin Commands /\ holder \in Commands \cup {NoFile}
  BY CatalogShape DEF IInv, TypeOK
<1>3. run' \in [Commands -> Run] /\ run'[p] = Idle
  BY <1>1, <1>2, Idles
<1>4. \A q \in Commands \ {p} :
        /\ run'[q] = run[q] /\ (holder' = q <=> holder = q)
        /\ (holder = q => files' = files /\ commands' = commands)
  BY <1>1, <1>2
<1>5. holder' # p /\ holder' \in Commands \cup {NoFile}
  BY <1>1, <1>2
<1>6. run'[p].pc \notin Locked /\ run'[p].todo = <<>>
  BY <1>3, Idles DEF Locked
<1>7. Going(files', run'[p]) /\ Counts(files', run'[p], commands')
  BY <1>3, Idles
<1> QED BY <1>3, <1>4, <1>5, <1>6, <1>7, OneSteps

(* A step of p that puts another record in its place.                      *)
LEMMA Replacing ==
  ASSUME IInv, NEW p \in Commands, NEW r \in Run, run' = [run EXCEPT ![p] = r],
         holder \in {p, NoFile},
         holder' \in {p, NoFile}, holder' = p <=> r.pc \in Locked, r.todo # <<>> => holder' = p,
         commands' \in 0 .. MaxCommands, commands =< commands',
         selected' \in Selection, shown' \in Catalog \cup {NoFile}, faults' \in 0 .. MaxFaults,
         Kept(durable', files', commands'),
         Going(files', r), Counts(files', r, commands')
  PROVE  IInv'
<1>1. run \in [Commands -> Run] /\ NoFile \notin Commands
  BY CatalogShape DEF IInv, TypeOK
<1>2. run' \in [Commands -> Run] /\ run'[p] = r
  BY <1>1
<1>3. \A q \in Commands \ {p} :
        /\ run'[q] = run[q] /\ (holder' = q <=> holder = q)
        /\ (holder = q => files' = files /\ commands' = commands)
  BY <1>1
<1> QED BY <1>2, <1>3, OneSteps

LEMMA Holds ==
  ASSUME IInv, NEW p \in Commands, run[p].pc \in Locked \/ run[p].todo # <<>>
  PROVE  /\ holder = p /\ run[p].pc \in Locked
         /\ Going(files, run[p]) /\ Counts(files, run[p], commands)
         /\ run[p] \in Run /\ run[p].todo \in Seq(Operation)
<1>1. holder = p /\ run[p].pc \in Locked
  BY DEF IInv, TypeOK
<1>2. run[p] \in Run
  BY DEF IInv, TypeOK
<1> QED BY <1>1, <1>2 DEF IInv, Run

-----------------------------------------------------------------------------
(* The steps.                                                              *)

LEMMA BeginStep ==
  ASSUME IInv, NEW p \in Commands, Begin(p)
  PROVE  IInv'
<1>1. /\ holder = NoFile /\ commands' = commands + 1
      /\ UNCHANGED <<files, durable, selected, shown, faults>>
      /\ commands' \in 0 .. MaxCommands /\ commands =< commands' /\ commands' # 0
      /\ commands' =< MaxCommands /\ commands' \in 1 .. Top /\ commands \in Nat
  <2>1. /\ holder = NoFile /\ commands < MaxCommands /\ commands' = commands + 1
        /\ UNCHANGED <<files, durable, selected, shown, faults>>
    BY DEF Begin, inDirectory
  <2>2. commands \in Nat /\ MaxCommands \in Nat
    BY FromTypes
  <2> QED BY <2>1, <2>2 DEF Top
<1>2. /\ selected' \in Selection /\ shown' \in Catalog \cup {NoFile} /\ faults' \in 0 .. MaxFaults
  BY <1>1, Others
<1>3. Kept(durable', files', commands')
  <2>1. Kept(durable, files, commands)
    BY DEF IInv
  <2> QED BY <1>1, <2>1, CountsGrow
<1>4. CASE refused(files)
  <2>1. Leave(p)
    BY <1>4 DEF Begin
  <2> QED BY <1>1, <1>2, <1>3, <2>1, Leaving
<1>5. CASE ~refused(files)
  <2>1. PICK kind \in CommandKinds :
          /\ holder' = p
          /\ run' = [run EXCEPT ![p] = [Idle EXCEPT
               !.pc = "recover", !.kind = kind, !.stamp = commands', !.todo = recovery(files)]]
    BY <1>5 DEF Begin, CommandKinds
  <2> DEFINE r == [Idle EXCEPT
               !.pc = "recover", !.kind = kind, !.stamp = commands', !.todo = recovery(files)]
  <2>2. recovery(files) \in Seq(OperationTo(commands')) /\ files \in FilesTo(commands')
    BY <1>1, FromTypes, RecoveryTyped
  <2>3. /\ recovery(files) \in Seq(Operation)
        /\ recovery(files) \in Seq(OperationTo(commands' + 1))
    BY <1>1, <2>2, OperationsTyped
  <2>4. /\ r.pc = "recover" /\ r.stamp = commands' /\ r.todo = recovery(files)
        /\ r \in Run
    <3>1. Idle \in Run
      BY Idles
    <3> QED BY <1>1, <2>3, <3>1 DEF Idle, Run, Locked
  <2> HIDE DEF r
  <2>5. Recovering(files, recovery(files))
    BY <1>5, FromTypes, RecoveryBegins
  <2>6. Going(files', r)
    BY <1>1, <2>4, <2>5 DEF Going
  <2>7. Counts(files', r, commands')
    BY <1>1, <2>2, <2>3, <2>4 DEF Counts
  <2>8. run' = [run EXCEPT ![p] = r] /\ r.pc \in Locked
    BY <2>1, <2>4 DEF r, Locked
  <2> QED BY <1>1, <1>2, <1>3, <2>1, <2>4, <2>6, <2>7, <2>8, Replacing
<1> QED BY <1>4, <1>5

LEMMA ResumeStep ==
  ASSUME IInv, NEW p \in Commands, Resume(p)
  PROVE  IInv'
<1>1. /\ holder = NoFile /\ run[p].pc = "measure"
      /\ UNCHANGED <<files, durable, selected, shown, commands, faults>>
  BY DEF Resume, inDirectory
<1>2. /\ selected' \in Selection /\ shown' \in Catalog \cup {NoFile} /\ faults' \in 0 .. MaxFaults
      /\ commands' \in 0 .. MaxCommands /\ commands =< commands'
      /\ Kept(durable', files', commands')
  BY <1>1, Others, Unmoved
<1>3. CASE refused(files)
  <2>1. Leave(p)
    BY <1>3 DEF Resume
  <2> QED BY <1>1, <1>2, <2>1, Leaving
<1>4. CASE ~refused(files)
  <2>1. /\ holder' = p
        /\ run' = [run EXCEPT ![p].pc = "rerecover", ![p].todo = recovery(files)]
    BY <1>4 DEF Resume
  <2> DEFINE r == [run[p] EXCEPT !.pc = "rerecover", !.todo = recovery(files)]
  <2>2. recovery(files) \in Seq(OperationTo(commands + 1))
    BY FromTypes, RecoveryTyped
  <2>3. recovery(files) \in Seq(Operation)
    BY <2>2, FromTypes, OperationsTyped
  <2>4. run \in [Commands -> Run] /\ run[p] \in Run
    BY DEF IInv, TypeOK
  <2>5. /\ r \in Run /\ r.pc = "rerecover" /\ r.todo = recovery(files)
        /\ r.stamp = run[p].stamp /\ r.base = run[p].base /\ r.kind = run[p].kind
    BY <2>3, <2>4 DEF Run, Locked
  <2>6. run' = [run EXCEPT ![p] = r]
    BY <2>1, <2>4
  <2> HIDE DEF r
  <2>7. Recovering(files, recovery(files))
    BY <1>4, FromTypes, RecoveryBegins
  <2>8. Going(files', r)
    BY <1>1, <2>5, <2>7 DEF Going
  <2>9. Counts(files', r, commands')
    <3>1. Captured(run[p], commands)
      BY <1>1 DEF IInv, Counts
    <3> QED BY <1>1, <2>2, <2>5, <3>1 DEF Counts, Captured
  <2>10. r.pc \in Locked
    BY <2>5 DEF Locked
  <2> QED BY <1>1, <1>2, <2>1, <2>5, <2>6, <2>8, <2>9, <2>10, Replacing
<1> QED BY <1>3, <1>4

LEMMA GiveUpStep ==
  ASSUME IInv, NEW p \in Commands, GiveUp(p)
  PROVE  IInv'
<1>1. Leave(p) /\ UNCHANGED <<files, durable, selected, shown, commands, faults>>
  BY DEF GiveUp, inDirectory
<1> QED BY <1>1, Others, Unmoved, Leaving

LEMMA ListStep ==
  ASSUME IInv, NEW p \in Commands, List(p)
  PROVE  IInv'
<1>1. /\ run[p].pc = "recover" /\ run[p].todo = <<>> /\ shown' = files.catalog
      /\ UNCHANGED <<files, durable, selected, commands, faults>>
  BY DEF List, atEnd, inDirectory
<1>2. holder = p /\ run[p] \in Run /\ Counts(files, run[p], commands)
  BY <1>1, Holds DEF Locked
<1>3. /\ selected' \in Selection /\ shown' \in Catalog \cup {NoFile} /\ faults' \in 0 .. MaxFaults
      /\ commands' \in 0 .. MaxCommands /\ commands =< commands'
      /\ Kept(durable', files', commands')
  BY <1>1, Others, Unmoved
<1>4. CASE Leave(p)
  BY <1>2, <1>3, <1>4, Leaving
<1>5. CASE /\ run' = [run EXCEPT ![p].pc = "lock", ![p].kind = "refresh"]
           /\ holder' = NoFile
  <2> DEFINE r == [run[p] EXCEPT !.pc = "lock", !.kind = "refresh"]
  <2>1. r \in Run /\ r.pc = "lock" /\ r.todo = <<>>
    BY <1>1, <1>2 DEF Run, Locked, CommandKinds
  <2>2. run' = [run EXCEPT ![p] = r]
    BY <1>5 DEF IInv, TypeOK
  <2> HIDE DEF r
  <2>3. Going(files', r) /\ Counts(files', r, commands')
    BY <1>1, <1>2, <2>1 DEF Going, Counts
  <2>4. r.pc \notin Locked /\ NoFile \notin Commands
    BY <2>1, CatalogShape DEF Locked
  <2> QED BY <1>2, <1>3, <1>5, <2>1, <2>2, <2>3, <2>4, Replacing
<1> QED BY <1>4, <1>5 DEF List


LEMMA SelectStep ==
  ASSUME IInv, NEW p \in Commands, Select(p)
  PROVE  IInv'
<1>1. /\ run[p].pc = "recover" /\ run[p].todo = <<>> /\ shown' = files.catalog
      /\ UNCHANGED <<files, durable, commands, faults>>
  BY DEF Select, atEnd, inDirectory
<1>2. /\ holder = p /\ run[p] \in Run /\ run \in [Commands -> Run] /\ files \in Files
      /\ NoFile \notin Commands
  BY <1>1, Holds, FromTypes, CatalogShape DEF Locked, IInv, TypeOK
<1>3. /\ shown' \in Catalog \cup {NoFile} /\ faults' \in 0 .. MaxFaults
      /\ commands' \in 0 .. MaxCommands /\ commands =< commands'
      /\ Kept(durable', files', commands')
  BY <1>1, Others, Unmoved
<1>4. CASE Leave(p) /\ UNCHANGED selected
  <2>1. selected' \in Selection
    BY <1>4, Others
  <2> QED BY <1>2, <1>3, <1>4, <2>1, Leaving
<1>5. ASSUME NEW s \in DOMAIN files.catalog.rows,
             files.catalog # NoFile, selected' = [server |-> s, version |-> run[p].stamp],
             run' = [q \in Commands |->
               IF q = p THEN Idle
               ELSE [run[q] EXCEPT !.overtaken = (run[q].pc = "measure")]],
             holder' = NoFile
      PROVE  IInv'
  <2>1. s \in Servers
    <3>1. files.catalog \in Catalog
      BY <1>2, <1>5 DEF Files
    <3> QED BY <1>5, <3>1 DEF Catalog, Atomic!Catalogs
  <2>2. selected' \in Selection
    BY <1>2, <1>5, <2>1 DEF Selection, Run
  <2>3. \A q \in Commands \ {p} :
          /\ run'[q] \in Run
          /\ run'[q].pc = run[q].pc /\ run'[q].todo = run[q].todo
          /\ run'[q].stamp = run[q].stamp /\ run'[q].base = run[q].base
          /\ run'[q].kind = run[q].kind
    <3>1. ASSUME NEW q \in Commands \ {p}
          PROVE  /\ run'[q] \in Run
                 /\ run'[q].pc = run[q].pc /\ run'[q].todo = run[q].todo
                 /\ run'[q].stamp = run[q].stamp /\ run'[q].base = run[q].base
                 /\ run'[q].kind = run[q].kind
      <4>1. run'[q] = [run[q] EXCEPT !.overtaken = (run[q].pc = "measure")]
        BY <1>5
      <4>2. run[q] \in Run /\ (run[q].pc = "measure") \in BOOLEAN
        BY <1>2
      <4> QED BY <4>1, <4>2 DEF Run
    <3> QED BY <3>1
  <2>4. run'[p] = Idle
    BY <1>5
  <2>5. run' \in [Commands -> Run]
    BY <1>5, <2>3, <2>4, Idles
  <2>6. \A q \in Commands \ {p} : (holder' = q <=> holder = q) /\ holder # q
    BY <1>2, <1>5
  <2>7. Going(files', run'[p]) /\ Counts(files', run'[p], commands')
    BY <2>4, Idles
  <2>8. run'[p].pc \notin Locked /\ run'[p].todo = <<>> /\ holder' # p
    BY <1>2, <1>5, <2>4, Idles DEF Locked
  <2> QED BY <1>3, <1>5, <2>2, <2>3, <2>5, <2>6, <2>7, <2>8, OneSteps
<1> QED BY <1>4, <1>5 DEF Select

LEMMA CaptureStep ==
  ASSUME IInv, NEW p \in Commands, Capture(p)
  PROVE  IInv'
<1>1. /\ run[p].pc = "recover" /\ run[p].todo = <<>> /\ shown' = files.catalog
      /\ run[p].kind \in {"refresh", "measure"}
      /\ UNCHANGED <<files, durable, selected, commands, faults>>
  BY DEF Capture, atEnd, inDirectory
<1>2. holder = p /\ run[p] \in Run /\ Counts(files, run[p], commands)
  BY <1>1, Holds DEF Locked
<1>3. /\ selected' \in Selection /\ shown' \in Catalog \cup {NoFile} /\ faults' \in 0 .. MaxFaults
      /\ commands' \in 0 .. MaxCommands /\ commands =< commands'
      /\ Kept(durable', files', commands')
  BY <1>1, Others, Unmoved
<1>4. CASE run[p].kind = "measure" /\ files.catalog = NoFile
  <2>1. Leave(p)
    BY <1>4 DEF Capture
  <2> QED BY <1>2, <1>3, <2>1, Leaving
<1>5. CASE ~(run[p].kind = "measure" /\ files.catalog = NoFile)
  <2>1. /\ run' = [run EXCEPT ![p].pc = "measure", ![p].base = files, ![p].selection = selected]
        /\ holder' = NoFile
    BY <1>5 DEF Capture
  <2> DEFINE r == [run[p] EXCEPT !.pc = "measure", !.base = files, !.selection = selected]
  <2>2. files \in Files /\ selected \in Selection /\ commands \in Nat
    BY FromTypes DEF IInv, TypeOK
  <2>3. /\ r \in Run /\ r.pc = "measure" /\ r.todo = <<>> /\ r.base = files
        /\ r.stamp = run[p].stamp /\ r.kind = run[p].kind
    BY <1>1, <1>2, <2>2 DEF Run, Locked
  <2>4. run' = [run EXCEPT ![p] = r]
    BY <2>1 DEF IInv, TypeOK
  <2> HIDE DEF r
  <2>5. run[p].stamp = commands /\ commands # 0 /\ files \in FilesTo(commands)
    BY <1>1, <1>2 DEF Counts
  <2>6. Captured(r, commands)
    BY <1>1, <1>5, <2>2, <2>3, <2>5 DEF Captured
  <2>7. Going(files', r) /\ Counts(files', r, commands')
    BY <1>1, <1>2, <2>3, <2>6 DEF Going, Counts
  <2>8. r.pc \notin Locked /\ NoFile \notin Commands
    BY <2>3, CatalogShape DEF Locked
  <2> QED BY <1>2, <1>3, <2>1, <2>3, <2>4, <2>7, <2>8, Replacing
<1> QED BY <1>4, <1>5

(* p goes on with another program.                                         *)
LEMMA GoingTo ==
  ASSUME IInv, NEW p \in Commands, NEW pc \in Locked, NEW todo \in Seq(Operation),
         holder = p, Goto(p, pc, todo),
         selected' \in Selection, shown' \in Catalog \cup {NoFile}, faults' \in 0 .. MaxFaults,
         commands' = commands, Kept(durable', files', commands'),
         todo \in Seq(OperationTo(commands + 1)),
         pc \in {"recover", "rerecover"} => Recovering(files', todo),
         pc = "ready" => /\ Preparing(files', todo)
                         /\ \A x \in Published \ {"salt"} : files'[x] = run[p].base[x],
         pc = "publish" => Publishing(files', todo), pc = "abort" => Aborting(files', todo),
         pc = "recover" => /\ run[p].pc = "recover" /\ files' \in FilesTo(commands)
                           /\ todo \in Seq(OperationTo(commands)),
         pc \in {"rerecover", "ready"} => run[p].pc \in {"rerecover", "ready"}
  PROVE  IInv'
<1> DEFINE r == [run[p] EXCEPT !.pc = pc, !.todo = todo]
<1>1. run \in [Commands -> Run] /\ run[p] \in Run /\ Counts(files, run[p], commands)
  BY DEF IInv, TypeOK
<1>2. /\ r \in Run /\ r.pc = pc /\ r.todo = todo
      /\ r.stamp = run[p].stamp /\ r.base = run[p].base /\ r.kind = run[p].kind
  BY <1>1 DEF Run
<1>3. run' = [run EXCEPT ![p] = r] /\ holder' = holder
  BY <1>1 DEF Goto
<1> HIDE DEF r
<1>4. Going(files', r)
  BY <1>2 DEF Going
<1>5. Counts(files', r, commands')
  <2>1. pc = "recover" => run[p].stamp = commands /\ commands # 0
    BY <1>1 DEF Counts
  <2>2. pc \in {"measure", "rerecover", "ready"} => Captured(run[p], commands)
    BY <1>1 DEF Counts, Locked
  <2> QED BY <1>2, <2>1, <2>2 DEF Counts, Captured
<1>6. commands' \in 0 .. MaxCommands /\ commands =< commands'
  BY FromTypes
<1> QED BY <1>2, <1>3, <1>4, <1>5, <1>6, Replacing

LEMMA CompareStep ==
  ASSUME IInv, NEW p \in Commands, Compare(p)
  PROVE  IInv'
<1>1. /\ run[p].pc = "rerecover" /\ run[p].todo = <<>> /\ shown' = files.catalog
      /\ UNCHANGED <<files, durable, selected, commands, faults>>
  BY DEF Compare, atEnd, inDirectory
<1>2. holder = p /\ run[p] \in Run /\ Going(files, run[p])
  BY <1>1, Holds DEF Locked
<1>3. /\ selected' \in Selection /\ shown' \in Catalog \cup {NoFile} /\ faults' \in 0 .. MaxFaults
      /\ commands' \in 0 .. MaxCommands /\ commands =< commands'
      /\ Kept(durable', files', commands')
  BY <1>1, Others, Unmoved
<1>4. CASE Leave(p)
  BY <1>2, <1>3, <1>4, Leaving
<1>5. CASE /\ \A x \in Published : files[x] = run[p].base[x]
           /\ Goto(p, "ready", salting)
  <2>1. salting \in Seq(OperationTo(commands + 1)) /\ salting \in Seq(Operation)
    <3>1. commands + 1 \in 0 .. Top
      BY FromTypes DEF Top
    <3>2. Op("salt", "linked") \in OperationTo(commands + 1)
          /\ Op("salt", "whole") \in OperationTo(commands + 1)
      BY <3>1, OperationTypes
    <3>3. salting \in Seq(OperationTo(commands + 1))
      <4> DEFINE O == OperationTo(commands + 1)
      <4>1. /\ <<>> \in Seq(O) /\ <<Op("salt", "whole")>> \in Seq(O)
            /\ <<Op("salt", "linked"), Op("salt", "whole")>> \in Seq(O)
        <5> HIDE DEF O
        <5>1. Op("salt", "linked") \in O /\ Op("salt", "whole") \in O
          BY <3>2 DEF O
        <5> QED BY <5>1
      <4>2. salting \in {<<>>, <<Op("salt", "whole")>>,
                        <<Op("salt", "linked"), Op("salt", "whole")>>}
        BY DEF salting
      <4> QED BY <4>1, <4>2
    <3> QED BY <3>3, FromTypes, OperationsTyped
  <2>2. Clean(files)
    <3>1. Recovering(files, <<>>)
      BY <1>1, <1>2 DEF Going
    <3>2. ~Normalizing(files, <<>>) /\ ~Undoing(files, <<>>)
      BY DEF Normalizing, Undoing, Undo, Restore
    <3> QED BY <3>1, <3>2 DEF Recovering, Done
  <2>3. Preparing(files, salting)
    <3>1. CASE files.salt = NoFile
      <4>1. files.salt # "whole"
        <5>1. Top \in 0 .. Top
          BY CatalogShape DEF Top
        <5> QED BY <3>1, <5>1, Present
      <4>2. unsalted(files) /\ files.journal = NoFile
        BY <2>2, <3>1, <4>1 DEF Clean, readable
      <4>3. \A x \in Published \ {"salt"} : files[x] = NoFile
        BY <4>2 DEF unsalted
      <4> QED BY <3>1, <4>2, <4>3 DEF Preparing, salting
    <3>2. CASE files.salt # NoFile
      <4>1. files.salt = "whole"
        BY <2>2, <3>2, FromTypes DEF Clean, Files
      <4> QED BY <2>2, <3>2, <4>1 DEF Preparing, salting
    <3> QED BY <3>1, <3>2
  <2>4. /\ Preparing(files', salting) /\ \A x \in Published \ {"salt"} : files'[x] = run[p].base[x]
        /\ "ready" \in Locked /\ commands' = commands
    BY <1>1, <1>5, <2>3 DEF Locked
  <2> HIDE DEF salting
  <2>5. PICK todo \in Seq(Operation) : todo = salting
    BY <2>1
  <2> QED BY <1>1, <1>2, <1>3, <1>5, <2>1, <2>4, <2>5, GoingTo
<1> QED BY <1>4, <1>5 DEF Compare

LEMMA AnswerStep ==
  ASSUME IInv, NEW p \in Commands, Answer(p)
  PROVE  IInv'
<1>1. /\ run[p].pc \in {"publish", "abort"} /\ Leave(p)
      /\ shown' = IF run[p].pc = "publish" THEN files.catalog ELSE shown
      /\ UNCHANGED <<files, durable, selected, commands, faults>>
  BY DEF Answer, atEnd, inDirectory
<1>2. holder = p
  BY <1>1, Holds DEF Locked
<1>3. shown' \in Catalog \cup {NoFile}
  BY <1>1, Others
<1> QED BY <1>1, <1>2, <1>3, Others, Unmoved, Leaving


(* What is published upon the captured baseline is of the next number.     *)
LEMMA PublishesNext ==
  ASSUME IInv, NEW p \in Commands, run[p].pc = "ready", run[p].todo = <<>>
  PROVE  /\ holder = p /\ run[p].stamp \in 1 .. commands /\ Preparing(files, <<>>)
         /\ files.generation \in GenerationTo(run[p].stamp) \cup {NoFile}
         /\ files.catalog \in CatalogTo(run[p].stamp) \cup {NoFile}
         /\ (run[p].kind = "measure" => files.catalog # NoFile)
         /\ highWater \in 0 .. run[p].stamp
         /\ (files.generation # NoFile => files.generation.highWater = highWater)
<1>1. holder = p /\ Going(files, run[p]) /\ Counts(files, run[p], commands)
  BY Holds DEF Locked
<1>2. Captured(run[p], commands) /\ Preparing(files, <<>>)
  BY <1>1 DEF Counts, Going
<1>3. files["generation"] = run[p].base["generation"] /\ files["catalog"] = run[p].base["catalog"]
  BY <1>1, Names DEF Going
<1>4. /\ run[p].base.generation \in GenerationTo(run[p].stamp) \cup {NoFile}
      /\ run[p].base.catalog \in CatalogTo(run[p].stamp) \cup {NoFile}
  BY <1>2 DEF Captured, FilesTo
<1>5. /\ files.generation \in GenerationTo(run[p].stamp) \cup {NoFile}
      /\ files.catalog \in CatalogTo(run[p].stamp) \cup {NoFile}
      /\ (run[p].kind = "measure" => files.catalog # NoFile)
  BY <1>2, <1>3, <1>4 DEF Captured
<1>6. run[p].stamp \in 1 .. commands /\ commands \in Nat
  BY <1>2, FromTypes DEF Captured
<1>7. highWater \in 0 .. run[p].stamp
  BY <1>5, <1>6 DEF highWater, GenerationTo
<1> QED BY <1>1, <1>2, <1>5, <1>6, <1>7 DEF highWater

LEMMA Publication ==
  ASSUME IInv, NEW p \in Commands, run[p].pc = "ready", run[p].todo = <<>>,
         NEW new \in CatalogTo(run[p].stamp + 1), NEW hw \in 1 .. run[p].stamp + 1,
         new.generation =< hw, highWater =< hw,
         Becomes(p, publication(files, new, hw)),
         UNCHANGED <<files, durable, selected, shown, commands, faults>>
  PROVE  IInv'
<1>1. PICK n \in 1 .. commands : n = run[p].stamp
  BY PublishesNext
<1>2. /\ n \in 0 .. MaxCommands /\ n \in Nat /\ n + 1 \in Nat /\ commands + 1 \in Nat
      /\ n + 1 =< commands + 1 /\ n + 1 \in 0 .. Top /\ Top \in Nat /\ n + 1 =< Top
  BY FromTypes DEF Top
<1>3. PICK j : j = journalOf(files, new, hw)
  OBVIOUS
<1>4. /\ j \in JournalTo(n + 1) /\ publication(files, new, hw) = Announced(j)
      /\ Announced(j) \in Seq(OperationTo(n + 1))
  BY <1>1, <1>2, <1>3, PublishesNext, PublicationTyped
<1>5. Announced(j) \in Seq(OperationTo(commands + 1)) /\ Announced(j) \in Seq(Operation)
  <2>1. OperationTo(n + 1) \subseteq OperationTo(commands + 1)
    BY <1>2, TypesGrow
  <2>2. Announced(j) \in Seq(OperationTo(commands + 1))
    BY <1>4, <2>1, SeqMonotonic
  <2> QED BY <2>2, FromTypes, OperationsTyped
<1>6. Publishing(files, Announced(j))
  <2>1. j \in Journal /\ new \in Catalog
    BY <1>1, <1>2, <1>4, CatalogGrows, RecordsGrow, TopTypes
  <2>2. hw \in Nat /\ files \in Files
    BY <1>1, <1>2, FromTypes
  <2>3. files.generation # NoFile => files.generation.highWater =< hw
    BY PublishesNext
  <2> QED BY <1>3, <2>1, <2>2, <2>3, PublishesNext, PublicationBegins
<1> DEFINE r == [Idle EXCEPT !.pc = "publish", !.todo = Announced(j)]
<1>7. r \in Run /\ r.pc = "publish" /\ r.todo = Announced(j)
  BY <1>5, Idles DEF Run, Idle, Locked
<1>8. run' = [run EXCEPT ![p] = r] /\ holder' = holder
  BY <1>4 DEF Becomes
<1> HIDE DEF r
<1>9. Going(files', r) /\ Counts(files', r, commands')
  BY <1>5, <1>6, <1>7 DEF Going, Counts
<1>10. holder = p /\ r.pc \in Locked
  BY <1>7, PublishesNext DEF Locked
<1> QED BY <1>7, <1>8, <1>9, <1>10, Others, Unmoved, Replacing

LEMMA Untested ==
  ASSUME NEW n \in Nat
  PROVE  untested \in [Pipelines -> 0 .. n]
  BY DEF untested

(* What is published, of a refresh and of a measurement.                   *)
LEMMA RefreshTyped ==
  ASSUME IInv, NEW p \in Commands, run[p].pc = "ready", run[p].todo = <<>>,
         NEW S \in (SUBSET Servers) \ {{}},
         NEW row \in {untested, [untested EXCEPT !["speed"] = run[p].stamp]},
         NEW new, new = [generation |-> highWater + 1, rows |-> [s \in S |-> row]]
  PROVE  /\ new \in CatalogTo(run[p].stamp + 1) /\ new.generation = highWater + 1
         /\ highWater + 1 \in 1 .. run[p].stamp + 1 /\ highWater =< highWater + 1
<1>1. PICK n \in 1 .. commands : n = run[p].stamp
  BY PublishesNext
<1>2. n \in Nat /\ highWater \in 0 .. n /\ n + 1 - 1 = n
  BY <1>1, FromTypes, PublishesNext
<1>3. row \in [Pipelines -> 0 .. n]
  <2>1. untested \in [Pipelines -> 0 .. n] /\ n \in 0 .. n
    BY <1>2, Untested
  <2>2. [untested EXCEPT !["speed"] = n] \in [Pipelines -> 0 .. n]
    BY <2>1
  <2> QED BY <1>1, <2>1, <2>2
<1>4. highWater + 1 \in 1 .. n + 1 /\ highWater =< highWater + 1
  BY <1>2
<1>5. [s \in S |-> row] \in UNION {[T -> [Pipelines -> 0 .. n]] : T \in (SUBSET Servers) \ {{}}}
  BY <1>3
<1> QED BY <1>1, <1>2, <1>4, <1>5 DEF CatalogTo

MeasuredOn(c, ids, k, stamp) ==
  [c EXCEPT !.rows = [s \in DOMAIN @ |-> IF s \in ids THEN [@[s] EXCEPT ![k] = stamp] ELSE @[s]]]

LEMMA MeasurementTyped ==
  ASSUME IInv, NEW p \in Commands, run[p].pc = "ready", run[p].todo = <<>>,
         run[p].kind = "measure", NEW ids, NEW k, NEW c, c = files.catalog,
         NEW new, new = MeasuredOn(c, ids, k, run[p].stamp)
  PROVE  /\ new \in CatalogTo(run[p].stamp + 1) /\ new.generation =< highWater
         /\ highWater \in 1 .. run[p].stamp + 1 /\ highWater =< highWater
<1>1. PICK n \in 1 .. commands : n = run[p].stamp
  BY PublishesNext
<1>2. n \in 0 .. MaxCommands /\ n \in Nat /\ highWater \in 0 .. n
  BY <1>1, FromTypes, PublishesNext
<1>3. c \in CatalogTo(n) /\ files.catalog # NoFile
  BY <1>1, PublishesNext
<1> DEFINE rows == [s \in DOMAIN c.rows |-> IF s \in ids THEN [c.rows[s] EXCEPT ![k] = n]
                                 ELSE c.rows[s]]
<1>4. PICK S \in (SUBSET Servers) \ {{}} : c.rows \in [S -> [Pipelines -> 0 .. n - 1]]
  BY <1>3 DEF CatalogTo
<1>5. rows \in [S -> [Pipelines -> 0 .. n]]
  <2>1. n \in 0 .. n /\ 0 .. n - 1 \subseteq 0 .. n
    BY <1>2
  <2>2. \A s \in S : c.rows[s] \in [Pipelines -> 0 .. n - 1]
    BY <1>4
  <2>3. \A s \in S : /\ c.rows[s] \in [Pipelines -> 0 .. n]
                     /\ [c.rows[s] EXCEPT ![k] = n] \in [Pipelines -> 0 .. n]
    BY <2>1, <2>2
  <2> QED BY <1>4, <2>3
<1>6. rows \in UNION {[T -> [Pipelines -> 0 .. n]] : T \in (SUBSET Servers) \ {{}}}
  BY <1>4, <1>5
<1>7. new = [c EXCEPT !.rows = rows] /\ c.generation \in 1 .. n
  BY <1>1, <1>3 DEF CatalogTo, MeasuredOn
<1> HIDE DEF rows
<1>8. new = [generation |-> c.generation, rows |-> rows] /\ new.generation = c.generation
  BY <1>3, <1>7 DEF CatalogTo
<1>9. new \in CatalogTo(n + 1)
  <2>1. PICK m \in Nat : m = n + 1
    BY <1>2
  <2>2. c.generation \in 1 .. m /\ 0 .. m - 1 = 0 .. n
    BY <1>2, <1>7, <2>1
  <2>3. rows \in UNION {[T -> [Pipelines -> 0 .. m - 1]] : T \in (SUBSET Servers) \ {{}}}
    BY <1>6, <2>2
  <2>4. new \in CatalogTo(m)
    BY <1>8, <2>2, <2>3 DEF CatalogTo
  <2> QED BY <2>1, <2>4
<1>10. c.generation =< highWater /\ highWater \in 1 .. n + 1
  <2>1. Clean(files) /\ files \in Files
    BY <1>3, PublishesNext, FromTypes DEF Preparing
  <2>2. files.generation # NoFile /\ Covers(files.generation, files.catalog)
    BY <1>3, <2>1, CleanCommit
  <2>3. c.generation =< highWater
    BY <1>3, <2>2, PublishesNext DEF Covers
  <2> QED BY <1>2, <1>7, <2>3
<1>11. new.generation =< highWater /\ highWater =< highWater
  BY <1>2, <1>8, <1>10
<1> QED BY <1>1, <1>9, <1>10, <1>11

LEMMA PublishRefreshStep ==
  ASSUME IInv, NEW p \in Commands, PublishRefresh(p)
  PROVE  IInv'
<1>1. /\ run[p].pc = "ready" /\ run[p].todo = <<>>
      /\ UNCHANGED <<files, durable, selected, shown, commands, faults>>
  BY DEF PublishRefresh, atEnd, inDirectory
<1>2. CASE Leave(p)
  BY <1>1, <1>2, PublishesNext, Others, Unmoved, Leaving
<1>3. ASSUME NEW S \in (SUBSET Servers) \ {{}},
             NEW row \in {untested, [untested EXCEPT !["speed"] = run[p].stamp]},
             Becomes(p, publication(files,
                          [generation |-> highWater + 1, rows |-> [s \in S |-> row]],
                          highWater + 1))
      PROVE  IInv'
  <2>1. PICK new : new = [generation |-> highWater + 1, rows |-> [s \in S |-> row]]
    OBVIOUS
  <2>2. /\ new \in CatalogTo(run[p].stamp + 1) /\ new.generation =< highWater + 1
        /\ highWater + 1 \in 1 .. run[p].stamp + 1 /\ highWater =< highWater + 1
    <3>1. /\ new \in CatalogTo(run[p].stamp + 1) /\ new.generation = highWater + 1
          /\ highWater + 1 \in 1 .. run[p].stamp + 1 /\ highWater =< highWater + 1
      BY <1>1, <2>1, RefreshTyped
    <3>2. highWater \in Nat
      BY <1>1, PublishesNext, FromTypes
    <3> QED BY <3>1, <3>2
  <2>3. Becomes(p, publication(files, new, highWater + 1))
    BY <1>3, <2>1
  <2> QED BY <1>1, <2>1, <2>2, <2>3, Publication
<1> QED BY <1>2, <1>3 DEF PublishRefresh

LEMMA PublishMeasurementStep ==
  ASSUME IInv, NEW p \in Commands, PublishMeasurement(p)
  PROVE  IInv'
<1>1. /\ run[p].pc = "ready" /\ run[p].todo = <<>> /\ run[p].kind = "measure"
      /\ UNCHANGED <<files, durable, selected, shown, commands, faults>>
  BY DEF PublishMeasurement, atEnd, inDirectory
<1>2. PICK ids, k : Becomes(p, publication(files,
                      MeasuredOn(files.catalog, ids, k, run[p].stamp), highWater))
  BY DEF PublishMeasurement, MeasuredOn
<1>3. PICK c : c = files.catalog
  OBVIOUS
<1>4. PICK new : new = MeasuredOn(c, ids, k, run[p].stamp)
  OBVIOUS
<1>5. /\ new \in CatalogTo(run[p].stamp + 1) /\ new.generation =< highWater
      /\ highWater \in 1 .. run[p].stamp + 1 /\ highWater =< highWater
  BY <1>1, <1>3, <1>4, MeasurementTyped
<1>6. Becomes(p, publication(files, new, highWater))
  BY <1>2, <1>3, <1>4
<1> QED BY <1>1, <1>5, <1>6, Publication



LEMMA Placed ==
  ASSUME NEW f \in Files, NEW todo,
         \/ Recovering(f, todo) \/ Preparing(f, todo) \/ Publishing(f, todo)
         \/ Aborting(f, todo)
  PROVE  Sealed(f)
<1>1. Undoing(f, todo) \/ Done(f, todo) \/ Normalizing(f, todo) => Sealed(f)
  BY DEF Undoing, Done, Clean, Normalizing, Sealed
<1>2. Preparing(f, todo) => Sealed(f)
  BY DEF Preparing, Clean, Sealed
<1>3. Publishing(f, todo) => Sealed(f)
  <2>1. ASSUME NEW j, Sound(j), Publish(f, todo, j)
        PROVE  Sealed(f)
    <3>1. f.journal = NoFile \/ f.journal = j
      BY <2>1 DEF Publish, Opens, Clean
    <3> QED BY <2>1, <3>1 DEF Sealed
  <2> QED BY <1>1, <2>1 DEF Publishing
<1>4. Requesting(f, todo) => Sealed(f)
  <2>1. ASSUME Requesting(f, todo)
        PROVE  Sound(f.journal)
    <3>1. Sound(Requested(f).journal)
      BY <2>1 DEF Requesting, Undoing
    <3>2. PICK j \in Journal : j = f.journal
      BY <2>1 DEF Requesting, Files
    <3>3. Requested(f).journal = [j EXCEPT !.phase = "rollback-requested"]
      BY <3>2 DEF Requested, Files
    <3>4. /\ Requested(f).journal.old = j.old /\ Requested(f).journal.new = j.new
          /\ Requested(f).journal.after = j.after
      BY <3>3 DEF Journal
    <3> QED BY <3>1, <3>2, <3>4 DEF Sound
  <2> QED BY <2>1 DEF Sealed
<1> QED BY <1>1, <1>2, <1>3, <1>4 DEF Recovering, Aborting

(* The next file written leads to the next place.                          *)
LEMMA Advances ==
  ASSUME IInv, NEW p \in Commands, run[p].todo # <<>>
  PROVE  LET g == After(files, run[p].todo)
             rest == Tail(run[p].todo)
         IN
         /\ holder = p /\ run[p].pc \in {"recover", "rerecover", "ready", "publish", "abort"}
         /\ Head(run[p].todo) \in OperationTo(commands + 1)
         /\ g \in FilesTo(commands + 1) /\ g \in Files /\ Sealed(g)
         /\ rest \in Seq(Operation) /\ rest \in Seq(OperationTo(commands + 1))
         /\ (run[p].pc \in {"recover", "rerecover"} => Recovering(g, rest))
         /\ (run[p].pc = "ready" =>
               Preparing(g, rest) /\ \A x \in Published \ {"salt"} : g[x] = run[p].base[x])
         /\ (run[p].pc = "publish" => Publishing(g, rest))
         /\ (run[p].pc = "abort" => Aborting(g, rest))
         /\ (run[p].pc = "recover" =>
               g \in FilesTo(commands) /\ rest \in Seq(OperationTo(commands)))
<1> DEFINE todo == run[p].todo
           g == After(files, todo)
           rest == Tail(todo)
<1>1. /\ holder = p /\ run[p].pc \in {"recover", "rerecover", "ready", "publish", "abort"}
      /\ Going(files, run[p]) /\ Counts(files, run[p], commands)
  BY Holds DEF Locked
<1>2. /\ Head(todo) \in OperationTo(commands + 1) /\ rest \in Seq(OperationTo(commands + 1))
      /\ rest \in Seq(Operation)
  <2>1. todo \in Seq(OperationTo(commands + 1))
    BY <1>1 DEF Counts
  <2>2. Head(todo) \in OperationTo(commands + 1) /\ rest \in Seq(OperationTo(commands + 1))
    BY <2>1, HeadTailProperties
  <2>3. Seq(OperationTo(commands + 1)) \subseteq Seq(Operation)
    BY FromTypes, OperationsTyped
  <2> QED BY <2>2, <2>3
<1>3. g \in FilesTo(commands + 1) /\ g \in Files
  <2>1. g \in FilesTo(commands + 1)
    BY <1>2, FromTypes, Written DEF After
  <2> QED BY <2>1, FromTypes, OperationsTyped
<1>4. /\ (run[p].pc \in {"recover", "rerecover"} => Recovering(g, rest))
      /\ (run[p].pc = "ready" =>
            Preparing(g, rest) /\ \A x \in Published \ {"salt"} : g[x] = run[p].base[x])
      /\ (run[p].pc = "publish" => Publishing(g, rest))
      /\ (run[p].pc = "abort" => Aborting(g, rest))
  <2>1. files \in Files
    BY FromTypes
  <2>2. run[p].pc \in {"recover", "rerecover"} => Recovering(g, rest)
    BY <1>1, <2>1, RecoveringGoesOn DEF Going
  <2>3. run[p].pc = "ready" =>
          Preparing(g, rest) /\ \A x \in Published \ {"salt"} : g[x] = files[x]
    BY <1>1, <2>1, PreparingGoesOn DEF Going
  <2>4. run[p].pc = "publish" => Publishing(g, rest)
    BY <1>1, <2>1, PublishingGoesOn DEF Going
  <2>5. run[p].pc = "abort" => Aborting(g, rest)
    BY <1>1, <2>1, AbortingGoesOn DEF Going
  <2>6. run[p].pc = "ready" => \A x \in Published \ {"salt"} : files[x] = run[p].base[x]
    BY <1>1 DEF Going
  <2> HIDE DEF g, rest
  <2> QED BY <2>2, <2>3, <2>4, <2>5, <2>6
<1>5. Sealed(g)
  <2> HIDE DEF g, rest
  <2> QED BY <1>1, <1>3, <1>4, Placed
<1>6. run[p].pc = "recover" => g \in FilesTo(commands) /\ rest \in Seq(OperationTo(commands))
  <2>1. ASSUME run[p].pc = "recover"
        PROVE  g \in FilesTo(commands) /\ rest \in Seq(OperationTo(commands))
    <3>1. files \in FilesTo(commands) /\ todo \in Seq(OperationTo(commands))
      BY <1>1, <2>1 DEF Counts
    <3>2. Head(todo) \in OperationTo(commands) /\ rest \in Seq(OperationTo(commands))
      BY <3>1, HeadTailProperties
    <3> QED BY <3>1, <3>2, Written DEF After
  <2> QED BY <2>1
<1> QED BY <1>1, <1>2, <1>3, <1>4, <1>5, <1>6

LEMMA KeptSettles ==
  ASSUME IInv, NEW g \in FilesTo(commands + 1), Sealed(g), commands' = commands,
         files' = g, durable' \in {{g}, durable \cup {g}}
  PROVE  Kept(durable', files', commands')
  BY DEF IInv, Kept

LEMMA WriteStep ==
  ASSUME IInv, NEW p \in Commands, Write(p)
  PROVE  IInv'
<1>1. /\ run[p].todo # <<>> /\ Goto(p, run[p].pc, Tail(run[p].todo))
      /\ UNCHANGED <<selected, shown, commands, faults>>
  BY DEF Write
<1>2. PICK g \in FilesTo(commands + 1) : g = After(files, run[p].todo) /\ Sealed(g)
  BY <1>1, Advances
<1>3. PICK op \in OperationTo(commands + 1) : op = Head(run[p].todo)
  BY <1>1, Advances
<1>4. files' = g /\ Kept(durable', files', commands')
  <2>1. g = [files EXCEPT ![op.file] = op.value]
    BY <1>2, <1>3 DEF After
  <2>2. CASE op.value = NoFile /\ files[op.file] = NoFile
    <3>1. UNCHANGED <<files, durable>>
      BY <1>3, <2>2 DEF Write, inDirectory
    <3>2. g = files
      BY <1>3, <2>1, <2>2, FromTypes, Written
    <3> QED BY <1>1, <3>1, <3>2, Unmoved
  <2>3. CASE ~(op.value = NoFile /\ files[op.file] = NoFile)
    <3>1. Renamed(op) /\ (Unsynced \/ Synced)
      BY <1>3, <2>3 DEF Write
    <3>2. files' = g /\ durable' \in {{g}, durable \cup {g}}
      BY <2>1, <3>1 DEF Renamed, Unsynced, Synced
    <3> QED BY <1>1, <1>2, <3>2, KeptSettles
  <2> QED BY <2>2, <2>3
<1>5. PICK rest \in Seq(Operation) : rest = Tail(run[p].todo)
  BY <1>1, Advances
<1>6. PICK pc \in Locked : pc = run[p].pc
  BY <1>1, Advances DEF Locked
<1>7. /\ holder = p /\ rest \in Seq(OperationTo(commands + 1))
      /\ (pc \in {"recover", "rerecover"} => Recovering(g, rest))
      /\ (pc = "ready" =>
            Preparing(g, rest) /\ \A x \in Published \ {"salt"} : g[x] = run[p].base[x])
      /\ (pc = "publish" => Publishing(g, rest))
      /\ (pc = "abort" => Aborting(g, rest))
      /\ (pc = "recover" => g \in FilesTo(commands) /\ rest \in Seq(OperationTo(commands)))
  BY <1>1, <1>2, <1>5, <1>6, Advances
<1>8. Goto(p, pc, rest)
  BY <1>1, <1>5, <1>6
<1> QED BY <1>1, <1>4, <1>6, <1>7, <1>8, Others, GoingTo

(* An abort begins where it can still be undone.                           *)
LEMMA AbortStarts ==
  ASSUME IInv, NEW p \in Commands, holder = p, Undoable(files'),
         Goto(p, "abort", abortion(files')), files' \in FilesTo(commands + 1),
         UNCHANGED <<selected, shown, commands>>, faults' \in 0 .. MaxFaults,
         Kept(durable', files', commands')
  PROVE  IInv'
<1>1. files' \in Files
  BY FromTypes, OperationsTyped
<1>2. abortion(files') \in Seq(OperationTo(commands + 1))
  <2>1. commands + 1 \in 1 .. Top /\ files'.journal # NoFile
    BY FromTypes DEF Undoable
  <2> QED BY <2>1, AbortionTyped
<1>3. abortion(files') \in Seq(Operation)
  BY <1>2, FromTypes, OperationsTyped
<1>4. PICK todo \in Seq(Operation) : todo = abortion(files')
  BY <1>3
<1>5. Aborting(files', todo)
  BY <1>1, <1>4, AbortionBegins
<1>6. "abort" \in Locked /\ Goto(p, "abort", todo) /\ todo \in Seq(OperationTo(commands + 1))
  BY <1>2, <1>4 DEF Locked
<1> QED BY <1>5, <1>6, Others, GoingTo

LEMMA FailStep ==
  ASSUME IInv, NEW p \in Commands, run[p].todo # <<>>, Fail(p),
         files' \in {files, After(files, run[p].todo)},
         durable' = durable \cup {files'},
         UNCHANGED <<selected, shown, commands>>, faults' \in 0 .. MaxFaults
  PROVE  IInv'
<1>1. PICK g \in FilesTo(commands + 1) :
        g = After(files, run[p].todo) /\ Sealed(g) /\ g \in Files /\ holder = p
  BY Advances
<1>2. /\ Kept(durable', files', commands') /\ files' \in FilesTo(commands + 1)
      /\ commands' \in 0 .. MaxCommands /\ commands =< commands'
  BY <1>1, FromTypes DEF IInv, Kept, TypeOK
<1>3. CASE Leave(p)
  BY <1>1, <1>2, <1>3, Others, Leaving
<1>4. CASE /\ run[p].pc = "publish"
           /\ Head(run[p].todo).file \in {"generation", "catalog", "commit"}
           /\ Goto(p, "abort", abortion(files'))
  <2>1. Publishing(files, run[p].todo) /\ files \in Files
    BY <1>4, FromTypes DEF IInv, Going
  <2>2. Doubtful(run[p].todo)
    BY <1>4 DEF Doubtful
  <2>3. Undoable(files) /\ Doubtful(Tail(run[p].todo))
    BY <1>4, <2>1, <2>2, DoubtUndoable
  <2>4. Publishing(g, Tail(run[p].todo))
    BY <1>1, <1>4, Advances
  <2>5. Undoable(g)
    BY <1>1, <2>3, <2>4, DoubtUndoable
  <2>6. Undoable(files')
    BY <1>1, <2>3, <2>5
  <2> QED BY <1>1, <1>2, <1>4, <2>6, AbortStarts
<1> QED BY <1>3, <1>4 DEF Fail

LEMMA WriteFailsStep ==
  ASSUME IInv, NEW p \in Commands, WriteFails(p)
  PROVE  IInv'
<1>1. /\ run[p].todo # <<>> /\ Fault("io") /\ Fail(p)
      /\ files' = files \/ Renamed(Head(run[p].todo))
      /\ durable' = durable \cup {files'}
      /\ UNCHANGED <<selected, shown, commands>>
  BY DEF WriteFails, Unsynced
<1>2. files' \in {files, After(files, run[p].todo)}
  BY <1>1 DEF Renamed, After
<1> QED BY <1>1, <1>2, Others, FailStep


LEMMA CancelledStep ==
  ASSUME IInv, NEW p \in Commands, Cancelled(p)
  PROVE  IInv'
<1>1. /\ run[p].pc = "publish" /\ run[p].todo # <<>> /\ Fault("cancel")
      /\ UNCHANGED <<files, durable, selected, shown, commands>>
  BY DEF Cancelled, inDirectory
<1>2. faults' \in 0 .. MaxFaults /\ Kept(durable', files', commands')
  BY <1>1, Others, Unmoved
<1>3. CASE run[p].todo = cleanup
  <2>1. Goto(p, "abort", abortion(files))
    BY <1>3 DEF Cancelled
  <2>2. Publishing(files, run[p].todo) /\ files \in Files /\ holder = p
    BY <1>1, FromTypes, Holds DEF IInv, Going, Locked
  <2>3. Undoable(files) /\ files \in FilesTo(commands + 1)
    BY <1>3, <2>2, FromTypes, DoubtUndoable DEF Doubtful
  <2> QED BY <1>1, <1>2, <2>1, <2>2, <2>3, AbortStarts
<1>4. CASE run[p].todo # cleanup
  <2>1. Fail(p)
    BY <1>4 DEF Cancelled
  <2>2. durable' = durable \cup {files'} /\ files' \in {files, After(files, run[p].todo)}
    BY <1>1 DEF IInv, Kept
  <2> QED BY <1>1, <1>2, <2>1, <2>2, FailStep
<1> QED BY <1>3, <1>4

LEMMA KillStep ==
  ASSUME IInv, NEW p \in Commands, Kill(p)
  PROVE  IInv'
<1>1. /\ Fault("kill") /\ Leave(p) /\ durable' = durable \cup {files'}
      /\ UNCHANGED <<selected, shown, commands>>
      /\ UNCHANGED files \/ (run[p].todo # <<>> /\ Renamed(Head(run[p].todo)))
  BY DEF Kill, Unsynced
<1>2. faults' \in 0 .. MaxFaults /\ commands' \in 0 .. MaxCommands /\ commands =< commands'
  BY <1>1, Others, FromTypes
<1>3. CASE UNCHANGED files
  <2>1. UNCHANGED <<files, durable, commands>>
    BY <1>1, <1>3 DEF IInv, Kept
  <2> QED BY <1>1, <1>2, <2>1, Others, Unmoved, Leaving
<1>4. CASE run[p].todo # <<>> /\ Renamed(Head(run[p].todo))
  <2>1. PICK g \in FilesTo(commands + 1) :
          g = After(files, run[p].todo) /\ Sealed(g) /\ holder = p
    BY <1>4, Advances
  <2>2. files' = g
    BY <1>4, <2>1 DEF Renamed, After
  <2>3. Kept(durable', files', commands')
    BY <1>1, <2>1, <2>2, KeptSettles
  <2> QED BY <1>1, <1>2, <2>1, <2>3, Others, Leaving
<1> QED BY <1>1, <1>3, <1>4

LEMMA CutStep ==
  ASSUME IInv, Cut
  PROVE  IInv'
<1>1. /\ Fault("cut") /\ durable' = {files'} /\ run' = [p \in Commands |-> Idle]
      /\ holder' = NoFile /\ UNCHANGED <<selected, shown, commands>>
      /\ files' \in durable \/ files' \in Mixed
  BY DEF Cut, Synced
<1>2. \A d \in durable : d \in FilesTo(commands + 1) /\ Sealed(d)
  BY DEF IInv, Kept
<1>3. files' \in FilesTo(commands + 1) /\ Sealed(files')
  <2>1. ASSUME files' \in Mixed
        PROVE  files' \in FilesTo(commands + 1) /\ Sealed(files')
    <3>1. PICK a, b, c, d, e, g \in durable :
            files' = [salt |-> a.salt, generation |-> b.generation, catalog |-> c.catalog,
                      commit |-> d.commit, journal |-> e.journal, backup |-> g.backup]
      BY <2>1 DEF Mixed, At
    <3>2. files' \in FilesTo(commands + 1)
      BY <1>2, <3>1 DEF FilesTo
    <3>3. Sealed(e) /\ files'.journal = e.journal
      BY <1>2, <3>1
    <3> QED BY <3>2, <3>3 DEF Sealed
  <2> QED BY <1>1, <1>2, <2>1
<1>4. Kept(durable', files', commands') /\ faults' \in 0 .. MaxFaults
  BY <1>1, <1>3, Others DEF Kept
<1>5. /\ files' \in durable' /\ durable' \subseteq Files
  BY <1>1, <1>3, FromTypes, OperationsTyped
<1>6. /\ run' \in [Commands -> Run]
      /\ \A p \in Commands : /\ run'[p].pc = "idle" /\ run'[p].todo = <<>>
                             /\ Going(files', run'[p]) /\ Counts(files', run'[p], commands')
  BY <1>1, Idles
<1>7. TypeOK'
  <2>1. NoFile \notin Commands
    BY CatalogShape
  <2> QED BY <1>1, <1>4, <1>5, <1>6, <2>1 DEF TypeOK, Locked, IInv
<1> QED BY <1>4, <1>6, <1>7 DEF IInv

LEMMA InitHolds == Init => IInv
<1> SUFFICES ASSUME Init
             PROVE  IInv
  OBVIOUS
<1>1. /\ durable = {files} /\ holder = NoFile /\ run = [p \in Commands |-> Idle]
      /\ selected \in [server : {NoFile} \cup Servers, version : {0}] /\ shown = NoFile
      /\ commands = 0 /\ faults = 0
  BY DEF Init
<1>2. empty = [salt |-> NoFile, generation |-> NoFile, catalog |-> NoFile, commit |-> NoFile,
               journal |-> NoFile, backup |-> NoFile]
  <2>1. empty = [x \in {"salt", "generation", "catalog", "commit", "journal", "backup"}
                   |-> NoFile]
    BY Names DEF empty
  <2> QED BY <2>1
<1>3. old \in CatalogTo(1)
  <2> DEFINE rows == [s \in Servers |-> untested]
  <2>1. rows \in [Servers -> [Pipelines -> 0 .. 0]] /\ old = [generation |-> 1, rows |-> rows]
    BY Untested DEF old
  <2>2. Servers \in (SUBSET Servers) \ {{}}
    BY CatalogShape
  <2> HIDE DEF rows
  <2>3. [Servers -> [Pipelines -> 0 .. 0]]
          \in {[S -> [Pipelines -> 0 .. 0]] : S \in (SUBSET Servers) \ {{}}}
    BY <2>2
  <2>4. rows \in UNION {[S -> [Pipelines -> 0 .. 0]] : S \in (SUBSET Servers) \ {{}}}
    BY <2>1, <2>3
  <2>5. 1 - 1 = 0 /\ 1 \in 1 .. 1
    OBVIOUS
  <2> QED BY <2>1, <2>4, <2>5 DEF CatalogTo
<1>4. [highWater |-> 1, revision |-> 0] \in GenerationTo(1)
  BY DEF GenerationTo
<1>5. files \in FilesTo(1) /\ files.journal = NoFile
  <2>1. CASE files = empty
    BY <1>2, <2>1 DEF FilesTo
  <2>2. CASE files = [empty EXCEPT !.salt = "whole", !.catalog = old]
    BY <1>2, <1>3, <2>2 DEF FilesTo
  <2>3. CASE files = [empty EXCEPT !.salt = "whole", !.catalog = old,
                                   !.generation = [highWater |-> 1, revision |-> 0]]
    BY <1>2, <1>3, <1>4, <2>3 DEF FilesTo
  <2> QED BY <2>1, <2>2, <2>3 DEF Init
<1>6. Kept(durable, files, commands)
  BY <1>1, <1>5 DEF Kept, Sealed
<1>7. 0 \in 0 .. MaxCommands /\ 0 \in 0 .. MaxFaults /\ NoFile \notin Commands
  BY CatalogShape
<1>8. files \in Files
  BY <1>5, <1>7, OperationsTyped
<1>9. TypeOK
  BY <1>1, <1>7, <1>8, Idles DEF TypeOK, Locked, Selection
<1> QED BY <1>1, <1>6, <1>9, Idles DEF IInv

LEMMA NextKeeps == IInv /\ [Next]_vars => IInv'
<1> SUFFICES ASSUME IInv, [Next]_vars
             PROVE  IInv'
  OBVIOUS
<1>1. ASSUME NEW p \in Commands, Command(p)
      PROVE  IInv'
  <2>1. CASE Begin(p) \/ Resume(p) \/ GiveUp(p) \/ List(p)
    BY <2>1, BeginStep, ResumeStep, GiveUpStep, ListStep
  <2>2. CASE Select(p) \/ Capture(p) \/ Compare(p)
    BY <2>2, SelectStep, CaptureStep, CompareStep
  <2>3. CASE PublishRefresh(p) \/ PublishMeasurement(p) \/ Write(p) \/ Answer(p)
    BY <2>3, PublishRefreshStep, PublishMeasurementStep, WriteStep, AnswerStep
  <2> QED BY <1>1, <2>1, <2>2, <2>3 DEF Command
<1>2. ASSUME NEW p \in Commands, WriteFails(p) \/ Cancelled(p) \/ Kill(p)
      PROVE  IInv'
  BY <1>2, WriteFailsStep, CancelledStep, KillStep
<1>3. CASE UNCHANGED vars
  <2>1. /\ UNCHANGED <<files, durable, holder, run, selected, shown, commands, faults>>
    BY <1>3 DEF vars
  <2>2. TypeOK'
    BY <2>1 DEF IInv, TypeOK
  <2> QED BY <2>1, <2>2 DEF IInv
<1> QED BY <1>1, <1>2, <1>3, CutStep DEF Next

(* What the files, the programs and the captures of the commands are, at   *)
(* any time and after any faults: whoever holds the lock is at a place of  *)
(* its program from which the files make sense.                            *)
THEOREM CatalogInvariant == Spec => []IInv
<1>1. Init => IInv
  BY InitHolds
<1>2. IInv /\ [Next]_vars => IInv'
  BY NextKeeps
<1> QED BY <1>1, <1>2, PTL DEF Spec

(* The files hold what they are meant to, numbered no higher than there    *)
(* were commands, and only the holder of the state lock has any to write.  *)
THEOREM TypeCorrect == Spec => []TypeOK
<1>1. IInv => TypeOK
  BY DEF IInv
<1> QED BY <1>1, CatalogInvariant, PTL


-----------------------------------------------------------------------------
(* What a power cut may lose.  A write that ends well syncs the directory  *)
(* with whatever changed before it; so one fault leaves at most two        *)
(* directories, which differ in one file, and a cut finds one of them.     *)
LEMMA WritesUnlinked ==
  ASSUME IInv, "link" \notin Hazards, NEW p \in Commands, run[p].todo # <<>>
  PROVE  Head(run[p].todo) # Op("salt", "linked")
<1>1. PICK todo : todo = run[p].todo
  OBVIOUS
<1>2. files \in Files /\ Going(files, run[p]) /\ run[p].pc \in Locked
  BY FromTypes, Holds
<1>3. SUFFICES Head(todo).file = "salt" => Head(todo).value = "whole"
  BY <1>1, Fields
<1>4. CASE Normalizing(files, todo)
  BY <1>4, Fields DEF Normalizing
<1>5. CASE Undoing(files, todo)
  BY <1>5, Fields DEF Undoing, Undo, Restore
<1>6. CASE Preparing(files, todo)
  BY <1>1, <1>6, Fields DEF Preparing
<1>7. CASE Publishing(files, todo)
  <2>1. PICK j \in Journal : Publish(files, todo, j)
    BY <1>1, <1>7 DEF Publishing, Done
  <2> QED BY <2>1, Fields DEF Publish, Announced
<1>8. CASE Requesting(files, todo)
  BY <1>8, Fields DEF Requesting
<1>9. \/ Recovering(files, todo) \/ Preparing(files, todo) \/ Publishing(files, todo)
      \/ Aborting(files, todo)
  BY <1>1, <1>2 DEF Going, Locked
<1> QED BY <1>1, <1>4, <1>5, <1>6, <1>7, <1>8, <1>9 DEF Recovering, Aborting, Done

OneApart(d, f) == \E x \in Directory : \A y \in Directory \ {x} : d[y] = f[y]
Lost ==
  /\ faults = 0 => durable = {files}
  /\ faults = 1 => \E d \in durable : durable \subseteq {d, files} /\ OneApart(d, files)

LEMMA FaultsCount ==
  ASSUME IInv
  PROVE  /\ faults \in Nat /\ MaxFaults \in Nat /\ faults =< MaxFaults
         /\ \A h : Fault(h) => faults' = faults + 1 /\ faults < MaxFaults
<1>1. faults \in 0 .. MaxFaults /\ MaxFaults \in Nat
  BY CatalogShape DEF IInv, TypeOK
<1> QED BY <1>1 DEF Fault

(* A directory, and the next after a write.                                *)
LEMMA WriteApart ==
  ASSUME NEW f \in Files, NEW op, NEW g, g \in {f, [f EXCEPT ![op.file] = op.value]},
         op.file \in Directory
  PROVE  OneApart(f, g)
<1>1. DOMAIN f = Directory
  BY Names DEF Files
<1>2. \A y \in Directory \ {op.file} : f[y] = g[y]
  BY <1>1
<1> QED BY <1>2 DEF OneApart

LEMMA SelfApart ==
  ASSUME NEW f
  PROVE  OneApart(f, f)
BY Names DEF OneApart

(* The steps that leave the directory as it is.                            *)
LEMMA DirectoryKept ==
  ASSUME NEW p \in Commands, Command(p), ~Write(p)
  PROVE  UNCHANGED <<files, durable, faults>>
BY DEF Command, Begin, Resume, GiveUp, List, Select, Capture, Compare, PublishRefresh,
       PublishMeasurement, Answer, inDirectory

LEMMA WriteSyncs ==
  ASSUME IInv, "link" \notin Hazards, NEW p \in Commands, Write(p)
  PROVE  /\ UNCHANGED <<files, durable>> \/ durable' = {files'}
         /\ UNCHANGED <<shown, faults>>
<1>1. PICK op : op = Head(run[p].todo)
  OBVIOUS
<1>2. op # Op("salt", "linked")
  BY <1>1, WritesUnlinked DEF Write
<1> QED BY <1>1, <1>2 DEF Write, inDirectory, Synced

(* The files after a fault of p: those before it or after its next write.  *)
LEMMA FaultLeaves ==
  ASSUME IInv, NEW p \in Commands, WriteFails(p) \/ Cancelled(p) \/ Kill(p)
  PROVE  /\ faults' = faults + 1 /\ faults < MaxFaults /\ UNCHANGED shown
         /\ durable' = durable \cup {files'}
         /\ \/ files' = files
            \/ run[p].todo # <<>> /\ files' = After(files, run[p].todo)
<1>1. faults' = faults + 1 /\ faults < MaxFaults
  BY FaultsCount DEF WriteFails, Cancelled, Kill
<1>2. files \in durable
  BY DEF IInv, Kept
<1>3. CASE Cancelled(p)
  BY <1>1, <1>2, <1>3 DEF Cancelled, inDirectory
<1>4. CASE WriteFails(p) \/ Kill(p)
  BY <1>1, <1>4 DEF WriteFails, Kill, Unsynced, Renamed, After
<1> QED BY <1>3, <1>4

LEMMA FaultLost ==
  ASSUME IInv, Lost, NEW p \in Commands, WriteFails(p) \/ Cancelled(p) \/ Kill(p)
  PROVE  Lost'
<1>1. faults \in Nat /\ faults' = faults + 1 /\ durable' = durable \cup {files'}
  BY FaultsCount, FaultLeaves
<1>2. SUFFICES ASSUME faults = 0
               PROVE  durable' \subseteq {files, files'} /\ files \in durable'
                      /\ OneApart(files, files')
  BY <1>1 DEF Lost
<1>3. durable = {files}
  BY <1>2 DEF Lost
<1>4. CASE files' = files
  BY <1>1, <1>3, <1>4, SelfApart
<1>5. CASE run[p].todo # <<>> /\ files' = After(files, run[p].todo)
  <2>1. PICK op \in Operation : op = Head(run[p].todo)
    BY <1>5, Holds, HeadTailProperties
  <2>2. op.file \in Directory /\ files \in Files
    BY <2>1, FromTypes, Names DEF Operation, Ops
  <2>3. OneApart(files, files')
    BY <1>5, <2>1, <2>2, WriteApart DEF After
  <2> QED BY <1>1, <1>3, <2>3
<1> QED BY <1>4, <1>5, FaultLeaves

LEMMA NextKeepsLost ==
  ASSUME "link" \notin Hazards
  PROVE  IInv /\ Lost /\ [Next]_vars => Lost'
<1> SUFFICES ASSUME IInv, Lost, [Next]_vars
             PROVE  Lost'
  OBVIOUS
<1>1. CASE UNCHANGED <<files, durable, faults>>
  BY <1>1 DEF Lost, OneApart
<1>2. CASE UNCHANGED vars
  BY <1>1, <1>2 DEF vars
<1>3. ASSUME durable' = {files'}
      PROVE  Lost'
  BY <1>3, SelfApart DEF Lost
<1>4. CASE Cut
  BY <1>3, <1>4 DEF Cut, Synced
<1>5. ASSUME NEW p \in Commands, Command(p)
      PROVE  Lost'
  BY <1>1, <1>3, <1>5, DirectoryKept, WriteSyncs
<1>6. ASSUME NEW p \in Commands, WriteFails(p) \/ Cancelled(p) \/ Kill(p)
      PROVE  Lost'
  BY <1>6, FaultLost
<1> QED BY <1>2, <1>4, <1>5, <1>6 DEF Next

(* A cut at the second fault finds a directory that was there at some time.*)
LEMMA CutFinds ==
  ASSUME IInv, IInv', Lost, Cut, MaxFaults =< 2
  PROVE  files' \in durable
<1>1. faults \in {0, 1} /\ files' \in durable \cup Mixed
  BY FaultsCount DEF Cut
<1>2. PICK d \in durable : durable \subseteq {d, files} /\ OneApart(d, files)
  BY <1>1, SelfApart DEF Lost
<1>3. d \in Files /\ files \in Files /\ files' \in Files /\ files \in durable
  BY FromTypes DEF IInv, TypeOK, Kept
<1>4. PICK x \in Directory : \A y \in Directory \ {x} : d[y] = files[y]
  BY <1>2 DEF OneApart
<1>5. SUFFICES ASSUME files' \in Mixed
               PROVE  files' \in {d, files}
  BY <1>1, <1>3
<1>6. \A y \in Directory : files'[y] \in {d[y], files[y]}
  <2>1. \A y : At(y) \subseteq {d[y], files[y]}
    BY <1>2 DEF At
  <2> QED BY <1>5, <2>1, Names DEF Mixed
<1>7. PICK g \in {d, files} : \A y \in Directory : files'[y] = g[y]
  <2>1. \A y \in Directory \ {x} : files'[y] = d[y] /\ files'[y] = files[y]
    BY <1>4, <1>6
  <2>2. files'[x] = d[x] \/ files'[x] = files[x]
    BY <1>6
  <2> QED BY <2>1, <2>2
<1>8. files' = g
  BY <1>3, <1>7, Names DEF Files
<1> QED BY <1>7, <1>8

LEMMA InitLost == Init => Lost
BY DEF Init, Lost

-----------------------------------------------------------------------------
(* Recoverable.  Every directory that a power cut may leave is one that the*)
(* next holder of the lock does not refuse, each file that is written being*)
(* at a place of a program.                                                *)

LEMMA PlacedAccepted ==
  ASSUME NEW f \in Files, NEW todo,
         \/ Recovering(f, todo) \/ Publishing(f, todo) \/ Aborting(f, todo)
         \/ Preparing(f, todo) /\ f.salt # "linked"
  PROVE  ~refused(f)
<1>1. "whole" # NoFile
  <2>1. Top \in 0 .. Top
    BY CatalogShape DEF Top
  <2> QED BY <2>1, Present
<1>2. ASSUME Clean(f)
      PROVE  ~refused(f)
  <2>1. readable(f) /\ f.salt # "linked" /\ f.journal = NoFile
    BY <1>2 DEF Clean
  <2>2. normalizes(f)
    BY <1>1, <2>1 DEF readable, normalizes
  <2> QED BY <2>1, <2>2 DEF refused
<1>3. CASE Done(f, todo)
  BY <1>2, <1>3 DEF Done
<1>4. CASE Normalizing(f, todo)
  BY <1>4 DEF Normalizing, refused
<1>5. CASE Undoing(f, todo)
  BY <1>1, <1>5 DEF Undoing, Undo, refused
<1>6. CASE Publishing(f, todo) /\ ~Done(f, todo)
  <2>1. PICK j \in Journal : j.phase = "prepared" /\ Sound(j) /\ Publish(f, todo, j)
    BY <1>6 DEF Publishing
  <2>2. f.salt = "whole" /\ j # NoFile
    BY <1>6, JournalCommits DEF Publishing
  <2>3. CASE Opens(f, j)
    BY <1>2, <2>3 DEF Opens
  <2>4. CASE /\ f.journal = j /\ f.backup = j.old /\ f.generation \in {j.before, j.after}
             /\ f.catalog \in {j.old, j.new}
             /\ f.commit \in {commitOf(j.before, j.old), commitOf(j.after, j.new)}
    BY <1>1, <2>2, <2>4 DEF refused, expected
  <2>5. CASE f.journal = j /\ finalState(f, j)
    BY <1>1, <2>1, <2>2, <2>5 DEF refused, settled
  <2> QED BY <2>1, <2>3, <2>4, <2>5 DEF Publish
<1>7. CASE Requesting(f, todo)
  <2>1. PICK j \in Journal : j = f.journal /\ j # NoFile
    BY <1>7 DEF Requesting, Files
  <2> DEFINE k == [j EXCEPT !.phase = "rollback-requested"]
             g == Requested(f)
  <2>2. /\ k.old = j.old /\ k.new = j.new /\ k.before = j.before /\ k.after = j.after
        /\ k.phase = "rollback-requested"
    BY DEF Journal
  <2>3. /\ g.salt = f.salt /\ g.generation = f.generation /\ g.catalog = f.catalog
        /\ g.commit = f.commit /\ g.journal = k /\ g.backup = f.backup
    BY <2>1 DEF Requested, Files
  <2> HIDE DEF g, k
  <2>4. g.salt = "whole" /\ (settled(g, k) \/ expected(g, k))
    BY <1>7, <2>3 DEF Requesting, Undoing, Undo, g
  <2>5. settled(f, j) \/ expected(f, j)
    <3>1. CASE settled(g, k)
      <4>1. rollbackState(g, k)
        BY <2>2, <3>1 DEF settled
      <4> QED BY <2>2, <2>3, <4>1 DEF rollbackState, settled
    <3>2. CASE expected(g, k)
      BY <2>2, <2>3, <3>2 DEF expected
    <3> QED BY <2>4, <3>1, <3>2
  <2> QED BY <1>1, <2>1, <2>3, <2>4, <2>5 DEF refused
<1>8. CASE Preparing(f, todo) /\ f.salt # "linked"
  <2>1. CASE Clean(f)
    BY <1>2, <2>1
  <2>2. CASE f.salt = NoFile /\ f.journal = NoFile /\ \A x \in Published \ {"salt"} : f[x] = NoFile
    <3>1. unsalted(f)
      BY <2>2, Unsalted
    <3> QED BY <1>8, <2>2, <3>1 DEF refused, normalizes
  <2>3. CASE unsalted(f) /\ f.journal = NoFile
    BY <1>8, <2>3 DEF refused, normalizes
  <2> QED BY <1>8, <2>1, <2>2, <2>3 DEF Preparing
<1> QED BY <1>3, <1>4, <1>5, <1>6, <1>7, <1>8 DEF Recovering, Aborting

LEMMA LastWritesOnce ==
  ASSUME NEW f, NEW todo \in Seq(Operation), NEW i \in DOMAIN todo,
         \A k \in DOMAIN todo : todo[k].file = todo[i].file => k = i
  PROVE  lastWrites(f, todo)[todo[i].file] = todo[i].value
<1>1. Len(todo) \in Nat /\ DOMAIN todo = 1 .. Len(todo) /\ todo[i] \in Operation
  BY LenProperties, ElementOfSeq
<1>2. todo[i].file \in Directory
  BY <1>1, Names DEF Operation, Ops
<1> DEFINE ops == {k \in DOMAIN todo : todo[k].file = todo[i].file}
<1>3. ops = {i}
  OBVIOUS
<1>4. (CHOOSE m \in ops : \A k \in ops : k =< m) = i
  BY <1>1, <1>3
<1> QED BY <1>2, <1>3, <1>4 DEF lastWrites

LEMMA LastWritesNot ==
  ASSUME NEW f, NEW todo, NEW x \in Directory, \A k \in DOMAIN todo : todo[k].file # x
  PROVE  lastWrites(f, todo)[x] = f[x]
<1>1. {k \in DOMAIN todo : todo[k].file = x} = {}
  OBVIOUS
<1> QED BY <1>1 DEF lastWrites


Accepted == \A d \in durable : ~refused(d)

(* The next file of a program leaves what is not refused.                  *)
LEMMA NextAccepted ==
  ASSUME IInv, "link" \notin Hazards, NEW p \in Commands, run[p].todo # <<>>
  PROVE  ~refused(After(files, run[p].todo))
<1>1. PICK g \in Files : g = After(files, run[p].todo)
  BY Advances
<1>2. PICK rest \in Seq(Operation) : rest = Tail(run[p].todo)
  BY Advances
<1>3. Recovering(g, rest) \/ Preparing(g, rest) \/ Publishing(g, rest) \/ Aborting(g, rest)
  BY <1>1, <1>2, Advances
<1>4. "whole" # "linked" /\ NoFile # "linked"
  <2>1. Top \in 0 .. Top
    BY CatalogShape DEF Top
  <2> QED BY <2>1, Present
<1>5. Preparing(g, rest) => g.salt # "linked"
  BY <1>4 DEF Preparing, unsalted, Published, Directory, Content
<1>6. ~refused(g)
  BY <1>3, <1>5, PlacedAccepted
<1> QED BY <1>1, <1>6

LEMMA InitAccepted == Init => Accepted
<1> SUFFICES ASSUME Init
             PROVE  ~refused(files)
  BY DEF Init, Accepted
<1>1. NoFile \notin {"linked", "whole"}
  <2>1. Top \in 0 .. Top
    BY CatalogShape DEF Top
  <2> QED BY <2>1, Present
<1>2. empty = [salt |-> NoFile, generation |-> NoFile, catalog |-> NoFile, commit |-> NoFile,
               journal |-> NoFile, backup |-> NoFile]
  <2>1. empty = [x \in {"salt", "generation", "catalog", "commit", "journal", "backup"}
                   |-> NoFile]
    BY Names DEF empty
  <2> QED BY <2>1
<1>3. files.salt \in {NoFile, "whole"} /\ files.journal = NoFile /\ files.commit = NoFile
  <2>1. CASE files = empty
    BY <1>2, <2>1
  <2>2. CASE files = [empty EXCEPT !.salt = "whole", !.catalog = old]
    BY <1>2, <2>2
  <2>3. CASE files = [empty EXCEPT !.salt = "whole", !.catalog = old,
                                   !.generation = [highWater |-> 1, revision |-> 0]]
    BY <1>2, <2>3
  <2> QED BY <2>1, <2>2, <2>3 DEF Init
<1>4. CASE files = empty
  <2>1. unsalted(files)
    BY <1>2, <1>4, Unsalted
  <2> QED BY <1>1, <1>3, <2>1 DEF refused, normalizes
<1>5. CASE files = [empty EXCEPT !.salt = "whole", !.catalog = old]
  <2>1. /\ files.salt = "whole" /\ files.generation = NoFile /\ files.catalog = old
    BY <1>2, <1>5
  <2>2. CASE old = NoFile
    BY <1>1, <1>3, <2>1, <2>2, Unsalted DEF refused, normalizes
  <2>3. CASE old # NoFile
    <3>1. legacy(files)
      BY <1>1, <2>1, <2>3 DEF legacy, current
    <3> QED BY <1>1, <1>3, <2>1, <3>1 DEF refused, normalizes
  <2> QED BY <2>2, <2>3
<1>6. CASE files = [empty EXCEPT !.salt = "whole", !.catalog = old,
                                 !.generation = [highWater |-> 1, revision |-> 0]]
  <2> DEFINE state == [highWater |-> 1, revision |-> 0]
  <2>1. /\ files.salt = "whole" /\ files.generation = state /\ files.catalog = old
    BY <1>2, <1>6
  <2>2. state.highWater = 1 /\ state.revision = 0 /\ old.generation = 1 /\ state # NoFile
    <3>1. 1 \in 0 .. Top /\ state \in GenerationTo(1)
      BY CatalogShape DEF Top, GenerationTo
    <3>2. state # NoFile
      BY <3>1, Present
    <3> QED BY <3>2 DEF old
  <2> HIDE DEF state
  <2>3. legacy(files)
    BY <1>1, <2>1, <2>2 DEF legacy, current
  <2> QED BY <1>1, <1>3, <2>1, <2>2, <2>3 DEF refused, normalizes
<1> QED BY <1>4, <1>5, <1>6 DEF Init

LEMMA NextKeepsAccepted ==
  ASSUME "link" \notin Hazards, "reorder" \notin Hazards \/ MaxFaults =< 2
  PROVE  IInv /\ IInv' /\ Accepted /\ Lost /\ [Next]_vars => Accepted'
<1> SUFFICES ASSUME IInv, IInv', Accepted, Lost, [Next]_vars
             PROVE  Accepted'
  OBVIOUS
<1>1. files \in durable
  BY DEF IInv, Kept
<1>2. ASSUME NEW p \in Commands, run[p].todo # <<>>,
             durable' \subseteq durable \cup {After(files, run[p].todo)}
      PROVE  Accepted'
  <2>1. ~refused(After(files, run[p].todo))
    BY <1>2, NextAccepted
  <2> QED BY <1>2, <2>1 DEF Accepted
<1>3. CASE UNCHANGED durable
  BY <1>3 DEF Accepted
<1>4. ASSUME NEW p \in Commands, Write(p)
      PROVE  Accepted'
  <2>1. PICK op : op = Head(run[p].todo)
    OBVIOUS
  <2>2. run[p].todo # <<>> /\ (UNCHANGED durable \/ durable' \subseteq durable \cup {files'})
    BY <1>4, <2>1 DEF Write, inDirectory, Synced, Unsynced
  <2>3. CASE UNCHANGED durable
    BY <1>3, <2>3
  <2>4. CASE ~UNCHANGED durable
    <3>1. Renamed(op)
      BY <1>4, <2>1, <2>4 DEF Write, inDirectory
    <3>2. files' = After(files, run[p].todo)
      BY <2>1, <3>1 DEF Renamed, After
    <3> QED BY <1>2, <2>2, <2>4, <3>2
  <2> QED BY <2>3, <2>4
<1>5. ASSUME NEW p \in Commands, WriteFails(p) \/ Kill(p)
      PROVE  Accepted'
  <2>1. /\ durable' = durable \cup {files'}
        /\ files' = files \/ (run[p].todo # <<>> /\ Renamed(Head(run[p].todo)))
    BY <1>5 DEF WriteFails, Kill, Unsynced
  <2>2. CASE files' = files
    BY <1>1, <2>1, <2>2 DEF Accepted
  <2>3. CASE run[p].todo # <<>> /\ Renamed(Head(run[p].todo))
    <3>1. files' = After(files, run[p].todo)
      BY <2>3 DEF Renamed, After
    <3> QED BY <1>2, <2>1, <2>3, <3>1
  <2> QED BY <2>1, <2>2, <2>3
<1>6. CASE Cut
  <2>1. files' \in durable /\ durable' = {files'}
    BY <1>6, CutFinds DEF Cut, Synced
  <2> QED BY <2>1 DEF Accepted
<1>7. ASSUME NEW p \in Commands, Command(p) \/ Cancelled(p)
      PROVE  Accepted'
  <2>1. CASE Write(p)
    BY <1>4, <2>1
  <2>2. CASE ~Write(p)
    <3>1. UNCHANGED durable
      BY <1>7, <2>2 DEF Command, Begin, Resume, GiveUp, List, Select, Capture, Compare,
                       PublishRefresh, PublishMeasurement, Answer, Cancelled, inDirectory
    <3> QED BY <1>3, <3>1
  <2> QED BY <2>1, <2>2
<1> QED BY <1>3, <1>5, <1>6, <1>7 DEF Next, vars


(* A recovery from what is not refused ends with files that are readable.  *)
LEMMA RecoversReadable ==
  ASSUME NEW f \in Files, ~refused(f), Sealed(f)
  PROVE  readable(lastWrites(f, recovery(f)))
<1> DEFINE r == recovery(f)
           g == lastWrites(f, r)
<1>1. r \in Seq(Operation) /\ (Top \in 1 .. Top) /\ "whole" # NoFile
  <2>1. Top \in 1 .. Top /\ Top \in 0 .. Top
    BY CatalogShape DEF Top
  <2> QED BY <2>1, Present, TopTypes, RecoveryTyped
<1>2. f.salt # "linked" /\ f.salt \in {NoFile, "linked", "whole"} /\ Recovering(f, r)
  BY RecoveryBegins DEF refused, Files
<1>3. ASSUME NEW x \in Directory, \A k \in DOMAIN r : r[k].file # x
      PROVE  g[x] = f[x]
  BY <1>3, LastWritesNot
<1>4. ASSUME NEW i \in DOMAIN r, \A k \in DOMAIN r : r[k].file = r[i].file => k = i
      PROVE  g[r[i].file] = r[i].value
  BY <1>1, <1>4, LastWritesOnce
<1>5. CASE f.journal = NoFile /\ ~legacy(f)
  <2>1. r = <<Op("backup", NoFile)>>
    BY <1>5 DEF recovery, normalization
  <2>2. \A k \in DOMAIN r : r[k].file = "backup"
    BY <2>1, Fields
  <2> HIDE DEF r, g
  <2>3. /\ g.salt = f.salt /\ g.generation = f.generation /\ g.catalog = f.catalog
        /\ g.commit = f.commit
    BY <1>3, <2>2, Names
  <2>4. normalizes(f)
    BY <1>5 DEF refused
  <2>5. readable(f)
    BY <1>2, <1>5, <2>4 DEF normalizes, readable
  <2>6. readable(g)
    <3>1. unsalted(g) <=> unsalted(f)
      BY <2>3, Unsalted
    <3>2. (current(g) /\ pairValid(g)) <=> (current(f) /\ pairValid(f))
      BY <2>3 DEF current, pairValid
    <3>3. (\A x \in Published \ {"salt"} : g[x] = NoFile)
            <=> (\A x \in Published \ {"salt"} : f[x] = NoFile)
      BY <2>3, Unsalted
    <3> QED BY <2>3, <2>5, <3>1, <3>2, <3>3 DEF readable
  <2> QED BY <2>6 DEF g, r
<1>6. CASE f.journal = NoFile /\ legacy(f)
  <2>1. PICK state \in Current : state = migrated(f)
    BY <1>1, <1>6, TopTypes, NormalizationTyped DEF CurrentTo, Current, Generations, Top
  <2>2. PICK c \in Catalog \cup {NoFile} : c = f.catalog
    BY DEF Files
  <2>3. /\ state # NoFile /\ state.revision > 0
        /\ commitOf(state, c) # NoFile
        /\ commitOf(state, c).highWater = state.highWater
        /\ commitOf(state, c).revision = state.revision
        /\ commitOf(state, c).catalog = c
    BY <2>1, Commits
  <2>4. /\ f.commit \in {NoFile, commitOf(state, c)} /\ f.salt = "whole"
        /\ (f.generation # NoFile /\ c # NoFile) => f.generation.highWater = c.generation
    <3>1. normalizes(f)
      BY <1>6 DEF refused
    <3>2. legacy(f) /\ ~unsalted(f) /\ ~current(f) /\ f.salt # NoFile
      BY <1>6, Unsalted DEF legacy
    <3>3. ~(\A x \in Published \ {"salt"} : f[x] = NoFile)
      BY <1>6, Unsalted DEF legacy
    <3> QED BY <1>2, <2>1, <2>2, <3>1, <3>2, <3>3 DEF normalizes
  <2>5. c # NoFile => c.generation =< state.highWater
    <3>1. state.highWater = IF f.generation # NoFile THEN f.generation.highWater
                            ELSE f.catalog.generation
      BY <2>1 DEF migrated
    <3>2. c # NoFile => c.generation \in Nat
      <4>1. Top \in Nat
        BY CatalogShape DEF Top
      <4> QED BY <4>1, CatalogGrows, TopTypes
    <3> QED BY <2>2, <2>4, <3>1, <3>2
  <2>6. g.generation = state /\ g.catalog = c /\ g.salt = "whole" /\ g.commit = commitOf(state, c)
    <3>1. CASE f.commit = NoFile
      <4>1. r = <<Op("backup", NoFile)>>
                  \o <<Op("commit", commitOf(state, c)), Op("generation", state)>>
        BY <1>6, <2>1, <2>2, <3>1 DEF recovery, normalization
      <4>2. r = <<Op("backup", NoFile), Op("commit", commitOf(state, c)), Op("generation", state)>>
        BY <4>1, JoinOneTwo
      <4>3. /\ DOMAIN r = 1 .. 3 /\ r[1].file = "backup"
            /\ r[2].file = "commit" /\ r[2].value = commitOf(state, c)
            /\ r[3].file = "generation" /\ r[3].value = state
        BY <4>2, Fields
      <4> HIDE DEF r, g
      <4>4. \A k \in DOMAIN r : k \in {1, 2, 3}
        BY <4>3
      <4>5. g["salt"] = f["salt"] /\ g["catalog"] = f["catalog"]
        BY <1>3, <4>3, <4>4, Names
      <4>6. g["commit"] = commitOf(state, c)
        BY <1>4, <4>3, <4>4
      <4>7. g["generation"] = state
        BY <1>4, <4>3, <4>4
      <4> QED BY <2>2, <2>4, <4>5, <4>6, <4>7
    <3>2. CASE f.commit # NoFile
      <4>1. r = <<Op("backup", NoFile)>> \o <<Op("generation", state)>>
        BY <1>6, <2>1, <3>2 DEF recovery, normalization
      <4>2. r = <<Op("backup", NoFile), Op("generation", state)>>
        BY <4>1, JoinOneOne
      <4>3. /\ DOMAIN r = 1 .. 2 /\ r[1].file = "backup"
            /\ r[2].file = "generation" /\ r[2].value = state
        BY <4>2, Fields
      <4> HIDE DEF r, g
      <4>4. \A k \in DOMAIN r : k \in {1, 2}
        BY <4>3
      <4>5. g["salt"] = f["salt"] /\ g["catalog"] = f["catalog"] /\ g["commit"] = f["commit"]
        BY <1>3, <4>3, <4>4, Names
      <4>6. g["generation"] = state
        BY <1>4, <4>3, <4>4
      <4> QED BY <2>2, <2>4, <3>2, <4>5, <4>6
    <3> QED BY <3>1, <3>2
  <2> HIDE DEF r, g
  <2>7. current(g)
    BY <2>3, <2>6 DEF current
  <2>8. pairValid(g)
    BY <2>3, <2>5, <2>6 DEF pairValid
  <2>9. readable(g)
    BY <2>6, <2>7, <2>8 DEF readable
  <2> QED BY <2>9 DEF g, r
<1>7. CASE f.journal # NoFile
  <2>1. PICK j \in Journal : j = f.journal
    BY <1>7 DEF Files
  <2>2. /\ j.after # NoFile /\ j.after.revision > 0
        /\ j.old \in Catalog \cup {NoFile} /\ j.new \in Catalog
        /\ \A c \in Catalog \cup {NoFile} :
             /\ commitOf(j.after, c) # NoFile
             /\ commitOf(j.after, c).highWater = j.after.highWater
             /\ commitOf(j.after, c).revision = j.after.revision
             /\ commitOf(j.after, c).catalog = c
    BY JournalCommits
  <2>3. Sound(j) /\ f.salt = "whole"
    BY <1>2, <1>7, <2>1 DEF Sealed, refused
  <2>4. PICK c \in {j.old, j.new} :
          /\ g.salt = "whole" /\ g.generation = j.after /\ g.catalog = c
          /\ g.commit = commitOf(j.after, c)
    <3>1. CASE settled(f, j)
      <4>1. r = <<Op("backup", NoFile), Op("journal", NoFile)>>
        BY <1>7, <2>1, <3>1 DEF recovery, cleanup
      <4>2. DOMAIN r = 1 .. 2 /\ r[1].file = "backup" /\ r[2].file = "journal"
        BY <4>1, Fields
      <4> HIDE DEF r, g
      <4>3. \A k \in DOMAIN r : k \in {1, 2}
        BY <4>2
      <4>4. /\ g["salt"] = f["salt"] /\ g["catalog"] = f["catalog"] /\ g["commit"] = f["commit"]
            /\ g["generation"] = f["generation"]
        BY <1>3, <4>2, <4>3, Names
      <4> QED BY <2>3, <3>1, <4>4 DEF settled, finalState, rollbackState
    <3>2. CASE ~settled(f, j)
      <4>1. r = <<Op("catalog", j.old), Op("generation", j.after),
                  Op("commit", commitOf(j.after, j.old))>> \o cleanup
        BY <1>7, <2>1, <3>2 DEF recovery
      <4>2. r = Restore(j)
        BY <4>1, JoinThreeTwo DEF cleanup, Restore
      <4>3. /\ DOMAIN r = 1 .. 5
            /\ r[1].file = "catalog" /\ r[1].value = j.old
            /\ r[2].file = "generation" /\ r[2].value = j.after
            /\ r[3].file = "commit" /\ r[3].value = commitOf(j.after, j.old)
            /\ r[4].file = "backup" /\ r[5].file = "journal"
        BY <4>2, Fields DEF Restore
      <4> HIDE DEF r, g
      <4>4. \A k \in DOMAIN r : k \in {1, 2, 3, 4, 5}
        BY <4>3
      <4>5. g["salt"] = f["salt"]
        BY <1>3, <4>3, <4>4, Names
      <4>6. g["catalog"] = j.old
        BY <1>4, <4>3, <4>4
      <4>7. g["generation"] = j.after
        BY <1>4, <4>3, <4>4
      <4>8. g["commit"] = commitOf(j.after, j.old)
        BY <1>4, <4>3, <4>4
      <4> QED BY <2>3, <4>5, <4>6, <4>7, <4>8
    <3> QED BY <3>1, <3>2
  <2> HIDE DEF r, g
  <2>5. current(g)
    BY <2>2, <2>4 DEF current
  <2>6. pairValid(g)
    BY <2>2, <2>3, <2>4 DEF pairValid, Sound, Covers
  <2>7. readable(g)
    BY <2>4, <2>5, <2>6 DEF readable
  <2> QED BY <2>7 DEF g, r
<1> QED BY <1>5, <1>6, <1>7

(* However often commands, their recoveries and their aborts are           *)
(* interrupted, by errors, kills and power cuts between any two of their   *)
(* steps, the next holder of the lock is not refused and recovers a catalog*)
(* with its commit, provided that no kill leaves the salt with two names,  *)
(* and that there were no more than two faults or a cut keeps the changes  *)
(* of the directory up to some one.                                        *)
THEOREM RecoverableHolds ==
  ASSUME "link" \notin Hazards, "reorder" \notin Hazards \/ MaxFaults =< 2
  PROVE  Spec => []Recoverable
<1>1. Init => IInv /\ Accepted /\ Lost
  BY InitHolds, InitAccepted, InitLost
<1>2. IInv /\ Accepted /\ Lost /\ [Next]_vars => (IInv /\ Accepted /\ Lost)'
  BY NextKeeps, NextKeepsAccepted, NextKeepsLost
<1>3. IInv /\ Accepted => Recoverable
  BY FromTypes, RecoversReadable DEF IInv, Kept, Accepted, Recoverable
<1> QED BY <1>1, <1>2, <1>3, PTL DEF Spec

-----------------------------------------------------------------------------
(* SelectionWins.  A selection is numbered by the last command begun, so   *)
(* that one which overtakes is later than the one that was captured.       *)

Overtakes(p) ==
  /\ run[p].pc = "recover" => selected.version < commands
  /\ run[p].pc \in {"measure", "rerecover", "ready"} => run[p].selection \in Selection
  /\ run[p].pc = "measure" => run[p].selection.version =< selected.version
  /\ run[p].overtaken => /\ run[p].pc \in {"measure", "rerecover", "ready"}
                         /\ run[p].selection.version < selected.version
SelectionInv == selected.version =< commands /\ \A p \in Commands : Overtakes(p)

LEMMA Versions ==
  ASSUME IInv
  PROVE  /\ selected \in Selection /\ selected.version \in Nat /\ commands \in Nat
         /\ \A s \in Selection : s.version \in Nat
         /\ run \in [Commands -> Run]
<1>1. selected \in Selection /\ run \in [Commands -> Run] /\ commands \in Nat
  BY FromTypes DEF IInv, TypeOK
<1>2. \A s \in Selection : s.version \in Nat
  BY CatalogShape DEF Selection
<1> QED BY <1>1, <1>2

(* A step of one command that selects nothing.                             *)
LEMMA OvertakesOne ==
  ASSUME IInv, SelectionInv, NEW p \in Commands, UNCHANGED selected,
         \A q \in Commands \ {p} : run'[q] = run[q],
         commands' = commands \/ (commands' = commands + 1 /\ holder = NoFile),
         Overtakes(p)'
  PROVE  SelectionInv'
<1>1. selected.version \in Nat /\ commands \in Nat /\ selected.version =< commands
  BY Versions DEF SelectionInv
<1>2. selected'.version =< commands'
  BY <1>1
<1>3. ASSUME NEW q \in Commands \ {p}
      PROVE  Overtakes(q)'
  <2>1. Overtakes(q) /\ run'[q] = run[q]
    BY DEF SelectionInv
  <2>2. run[q].pc = "recover" => holder # NoFile
    BY CatalogShape DEF IInv, TypeOK, Locked
  <2> QED BY <2>1, <2>2 DEF Overtakes
<1> QED BY <1>2, <1>3 DEF SelectionInv

LEMMA OvertakesCarried ==
  ASSUME IInv, SelectionInv, NEW p \in Commands, UNCHANGED <<selected, commands>>,
         run'[p].overtaken = run[p].overtaken, run'[p].selection = run[p].selection,
         \/ run'[p].pc = run[p].pc
         \/ run[p].pc = "measure" /\ run'[p].pc = "rerecover"
         \/ run[p].pc = "rerecover" /\ run'[p].pc = "ready"
         \/ run[p].pc \in {"recover", "publish"} /\ run'[p].pc \in {"lock", "abort"}
  PROVE  Overtakes(p)'
<1>1. Overtakes(p)
  BY DEF SelectionInv
<1> QED BY <1>1 DEF Overtakes

LEMMA OvertakesIdle ==
  ASSUME NEW p \in Commands, run \in [Commands -> Run],
         Leave(p) \/ \E todo : Becomes(p, todo)
  PROVE  Overtakes(p)' /\ \A q \in Commands \ {p} : run'[q] = run[q]
<1>1. \/ run' = [run EXCEPT ![p] = Idle]
      \/ \E todo : run' = [run EXCEPT ![p] = [Idle EXCEPT !.pc = "publish", !.todo = todo]]
  BY DEF Leave, Becomes
<1>2. run'[p].pc \in {"idle", "publish"} /\ run'[p].overtaken = FALSE
  <2>1. CASE run' = [run EXCEPT ![p] = Idle]
    BY <2>1 DEF Idle
  <2>2. ASSUME NEW todo,
               run' = [run EXCEPT ![p] = [Idle EXCEPT !.pc = "publish", !.todo = todo]]
        PROVE  run'[p].pc \in {"idle", "publish"} /\ run'[p].overtaken = FALSE
    BY <2>2 DEF Idle
  <2> QED BY <1>1, <2>1, <2>2
<1>3. \A q \in Commands \ {p} : run'[q] = run[q]
  BY <1>1
<1> QED BY <1>2, <1>3 DEF Overtakes

LEMMA OvertakesGoto ==
  ASSUME NEW p \in Commands, run \in [Commands -> Run], NEW pc, NEW todo, Goto(p, pc, todo)
  PROVE  /\ run'[p].overtaken = run[p].overtaken /\ run'[p].selection = run[p].selection
         /\ run'[p].pc = pc /\ run'[p].kind = run[p].kind /\ run'[p].todo = todo
         /\ \A q \in Commands \ {p} : run'[q] = run[q]
<1>1. run[p] \in Run /\ run' = [run EXCEPT ![p].pc = pc, ![p].todo = todo]
  BY DEF Goto
<1> QED BY <1>1 DEF Run

LEMMA SelectOvertakes ==
  ASSUME IInv, SelectionInv, NEW p \in Commands, Select(p)
  PROVE  SelectionInv'
<1>1. run[p].pc = "recover" /\ UNCHANGED commands
  BY DEF Select, atEnd
<1>2. CASE Leave(p) /\ UNCHANGED selected
  BY <1>1, <1>2, Versions, OvertakesIdle, OvertakesOne
<1>3. ASSUME NEW s, selected' = [server |-> s, version |-> run[p].stamp],
             run' = [q \in Commands |->
               IF q = p THEN Idle
               ELSE [run[q] EXCEPT !.overtaken = (run[q].pc = "measure")]]
      PROVE  SelectionInv'
  <2>1. run[p].stamp = commands /\ selected.version < commands /\ holder = p
    BY <1>1, Holds DEF Counts, SelectionInv, Overtakes, Locked
  <2>2. selected'.version = commands
    BY <1>3, <2>1
  <2>3. ASSUME NEW q \in Commands \ {p}
        PROVE  Overtakes(q)'
    <3>1. run[q] \in Run /\ run'[q] = [run[q] EXCEPT !.overtaken = (run[q].pc = "measure")]
      BY <1>3, Versions
    <3>2. /\ run'[q].pc = run[q].pc /\ run'[q].selection = run[q].selection
          /\ run'[q].overtaken = (run[q].pc = "measure")
      BY <3>1 DEF Run
    <3>3. run[q].pc # "recover"
      BY <2>1 DEF IInv, TypeOK, Locked
    <3>4. Overtakes(q)
      BY DEF SelectionInv
    <3>5. run[q].pc = "measure" => /\ run[q].selection.version \in Nat
                                   /\ run[q].selection.version =< selected.version
      BY <3>4, Versions DEF Overtakes
    <3>6. run[q].pc = "measure" => run[q].selection.version < commands
      BY <2>1, <3>5, Versions
    <3>7. run[q].pc = "measure" => run[q].selection.version =< commands
      BY <3>5, <3>6, Versions
    <3> QED BY <2>2, <3>2, <3>3, <3>4, <3>6, <3>7 DEF Overtakes
  <2>4. Overtakes(p)'
    <3>1. run'[p].pc = "idle" /\ run'[p].overtaken = FALSE
      BY <1>3 DEF Idle
    <3> QED BY <3>1 DEF Overtakes
  <2> QED BY <1>1, <2>2, <2>3, <2>4, Versions DEF SelectionInv
<1> QED BY <1>2, <1>3 DEF Select

LEMMA OthersOvertake ==
  ASSUME IInv, SelectionInv, NEW p \in Commands,
         Begin(p) \/ Resume(p) \/ List(p) \/ Capture(p) \/ Compare(p)
  PROVE  SelectionInv'
<1>1. run \in [Commands -> Run] /\ run[p] \in Run /\ UNCHANGED selected
  BY Versions DEF Begin, Resume, List, Capture, Compare
<1>2. CASE Leave(p)
  <2>1. commands' = commands \/ (commands' = commands + 1 /\ holder = NoFile)
    BY DEF Begin, Resume, List, Capture, Compare
  <2> QED BY <1>1, <1>2, <2>1, OvertakesIdle, OvertakesOne
<1>3. CASE Begin(p) /\ ~Leave(p)
  <2>1. /\ holder = NoFile /\ commands' = commands + 1
        /\ \E kind : run' = [run EXCEPT ![p] = [Idle EXCEPT
             !.pc = "recover", !.kind = kind, !.stamp = commands', !.todo = recovery(files)]]
    BY <1>3 DEF Begin
  <2>2. run'[p].pc = "recover" /\ run'[p].overtaken = FALSE
    BY <1>1, <2>1 DEF Idle
  <2>3. selected.version < commands'
    BY <2>1, Versions DEF SelectionInv
  <2>4. Overtakes(p)'
    BY <1>1, <2>2, <2>3 DEF Overtakes
  <2> QED BY <1>1, <2>1, <2>4, OvertakesOne
<1>4. CASE Resume(p) /\ ~Leave(p)
  <2>1. /\ run[p].pc = "measure" /\ UNCHANGED commands
        /\ run' = [run EXCEPT ![p].pc = "rerecover", ![p].todo = recovery(files)]
    BY <1>4 DEF Resume
  <2>2. /\ run'[p].pc = "rerecover" /\ run'[p].overtaken = run[p].overtaken
        /\ run'[p].selection = run[p].selection
    BY <1>1, <2>1 DEF Run
  <2> QED BY <1>1, <2>1, <2>2, OvertakesCarried, OvertakesOne
<1>5. CASE List(p) /\ ~Leave(p)
  <2>1. /\ run[p].pc = "recover" /\ UNCHANGED commands
        /\ run' = [run EXCEPT ![p].pc = "lock", ![p].kind = "refresh"]
    BY <1>5 DEF List, atEnd
  <2>2. /\ run'[p].pc = "lock" /\ run'[p].overtaken = run[p].overtaken
        /\ run'[p].selection = run[p].selection
    BY <1>1, <2>1 DEF Run
  <2> QED BY <1>1, <2>1, <2>2, OvertakesCarried, OvertakesOne
<1>6. CASE Capture(p) /\ ~Leave(p)
  <2>1. /\ run[p].pc = "recover" /\ UNCHANGED commands
        /\ run' = [run EXCEPT ![p].pc = "measure", ![p].base = files, ![p].selection = selected]
    BY <1>6 DEF Capture, atEnd
  <2>2. /\ run'[p].pc = "measure" /\ run'[p].overtaken = run[p].overtaken
        /\ run'[p].selection = selected
    BY <1>1, <2>1 DEF Run
  <2>3. ~run[p].overtaken
    BY <2>1 DEF SelectionInv, Overtakes
  <2>4. Overtakes(p)'
    BY <1>1, <2>2, <2>3, Versions DEF Overtakes
  <2> QED BY <1>1, <2>1, <2>4, OvertakesOne
<1>7. CASE Compare(p) /\ ~Leave(p)
  <2>1. run[p].pc = "rerecover" /\ UNCHANGED commands /\ Goto(p, "ready", salting)
    BY <1>7 DEF Compare, atEnd
  <2>2. Overtakes(p)'
    BY <1>1, <2>1, OvertakesGoto, OvertakesCarried
  <2> QED BY <1>1, <2>1, <2>2, OvertakesGoto, OvertakesOne
<1> QED BY <1>2, <1>3, <1>4, <1>5, <1>6, <1>7

LEMMA FilesOvertake ==
  ASSUME IInv, SelectionInv, NEW p \in Commands,
         \/ GiveUp(p) \/ PublishRefresh(p) \/ PublishMeasurement(p) \/ Write(p) \/ Answer(p)
         \/ WriteFails(p) \/ Cancelled(p) \/ Kill(p)
  PROVE  SelectionInv'
<1>1. run \in [Commands -> Run] /\ UNCHANGED <<selected, commands>>
  BY Versions DEF GiveUp, PublishRefresh, PublishMeasurement, Write, Answer, WriteFails,
                  Cancelled, Kill
<1>2. CASE Leave(p) \/ \E todo : Becomes(p, todo)
  BY <1>1, <1>2, OvertakesIdle, OvertakesOne
<1>3. CASE \E todo : Goto(p, run[p].pc, todo)
  BY <1>1, <1>3, OvertakesGoto, OvertakesCarried, OvertakesOne
<1>4. CASE run[p].pc = "publish" /\ \E todo : Goto(p, "abort", todo)
  BY <1>1, <1>4, OvertakesGoto, OvertakesCarried, OvertakesOne
<1>5. CASE Write(p)
  BY <1>3, <1>5 DEF Write
<1>6. CASE WriteFails(p)
  <2>1. Leave(p) \/ (run[p].pc = "publish" /\ Goto(p, "abort", abortion(files')))
    BY <1>6 DEF WriteFails, Fail
  <2> QED BY <1>2, <1>4, <2>1
<1>7. CASE Cancelled(p)
  <2>1. Leave(p) \/ (run[p].pc = "publish" /\ \E todo : Goto(p, "abort", todo))
    BY <1>7 DEF Cancelled, Fail
  <2> QED BY <1>2, <1>4, <2>1
<1>8. CASE GiveUp(p) \/ Answer(p) \/ Kill(p)
  BY <1>2, <1>8 DEF GiveUp, Answer, Kill
<1>9. CASE PublishRefresh(p) \/ PublishMeasurement(p)
  BY <1>2, <1>9 DEF PublishRefresh, PublishMeasurement
<1> QED BY <1>5, <1>6, <1>7, <1>8, <1>9


(* The servers of what a refresh publishes.                                *)
LEMMA RefreshPublishes ==
  ASSUME IInv, SelectionInv, NEW p \in Commands, run[p].overtaken, PublishRefresh(p),
         run'[p].pc = "publish"
  PROVE  \E i \in DOMAIN run'[p].todo :
           run'[p].todo[i].file = "catalog"
             /\ selected.server \in DOMAIN run'[p].todo[i].value.rows
<1>1. run[p].pc = "ready" /\ run[p].todo = <<>> /\ run \in [Commands -> Run]
  BY Versions DEF PublishRefresh, atEnd
<1>2. selected # run[p].selection
  <2>1. run[p].selection \in Selection /\ run[p].selection.version < selected.version
    BY <1>1 DEF SelectionInv, Overtakes
  <2> QED BY <2>1, Versions
<1>3. ~Leave(p)
  BY <1>1 DEF Leave, Idle
<1>4. PICK S \in (SUBSET Servers) \ {{}},
           row \in {untested, [untested EXCEPT !["speed"] = run[p].stamp]} :
        /\ selected.server \in S
        /\ Becomes(p, publication(files,
             [generation |-> highWater + 1, rows |-> [s \in S |-> row]], highWater + 1))
  BY <1>2, <1>3 DEF PublishRefresh
<1> DEFINE new == [generation |-> highWater + 1, rows |-> [s \in S |-> row]]
           todo == publication(files, new, highWater + 1)
<1>5. run'[p].todo = todo
  BY <1>1, <1>4 DEF Becomes, Idle
<1>6. todo[4].file = "catalog" /\ todo[4].value = new /\ 4 \in DOMAIN todo
  <2>1. PICK j : j = [phase |-> "prepared", old |-> files.catalog, new |-> new,
                      before |-> files.generation,
                      after |-> [highWater |-> highWater + 1,
                                 revision |-> (IF files.generation = NoFile THEN 0
                                               ELSE files.generation.revision) + 1]]
    OBVIOUS
  <2>2. PICK m : todo = <<Op("backup", files.catalog), Op("journal", j),
                          Op("generation", j.after), Op("catalog", new), Op("commit", m)>>
                        \o <<Op("backup", NoFile), Op("journal", NoFile)>>
    BY <2>1 DEF publication, cleanup
  <2>3. todo = <<Op("backup", files.catalog), Op("journal", j), Op("generation", j.after),
                 Op("catalog", new), Op("commit", m), Op("backup", NoFile),
                 Op("journal", NoFile)>>
    BY <2>2, JoinFiveTwo
  <2> HIDE DEF todo, new
  <2>4. todo[4] = Op("catalog", new) /\ 4 \in DOMAIN todo
    BY <2>3
  <2> QED BY <2>4, Fields
<1>7. DOMAIN new.rows = S
  OBVIOUS
<1> HIDE DEF todo, new
<1> QED BY <1>4, <1>5, <1>6, <1>7

LEMMA NextKeepsSelection == IInv /\ SelectionInv /\ [Next]_vars => SelectionInv'
<1> SUFFICES ASSUME IInv, SelectionInv, [Next]_vars
             PROVE  SelectionInv'
  OBVIOUS
<1>1. ASSUME NEW p \in Commands, Command(p) \/ WriteFails(p) \/ Cancelled(p) \/ Kill(p)
      PROVE  SelectionInv'
  BY <1>1, SelectOvertakes, OthersOvertake, FilesOvertake DEF Command
<1>2. CASE Cut
  <2>1. UNCHANGED <<selected, commands>> /\ run' = [p \in Commands |-> Idle]
    BY <1>2 DEF Cut
  <2>2. \A p \in Commands : run'[p].pc = "idle" /\ run'[p].overtaken = FALSE
    BY <2>1 DEF Idle
  <2> QED BY <2>1, <2>2 DEF SelectionInv, Overtakes
<1>3. CASE UNCHANGED vars
  BY <1>3 DEF vars, SelectionInv, Overtakes
<1> QED BY <1>1, <1>2, <1>3 DEF Next

(* Nothing but the publication of a refresh begins to publish for one.     *)
LEMMA RefreshAlone ==
  ASSUME IInv, [Next]_vars, NEW p \in Commands, run[p].kind = "refresh",
         run[p].pc # "publish", run'[p].pc = "publish"
  PROVE  PublishRefresh(p)
<1>1. run \in [Commands -> Run]
  BY Versions
<1>2. ASSUME NEW q \in Commands, q # p,
             Command(q) \/ WriteFails(q) \/ Cancelled(q) \/ Kill(q)
      PROVE  FALSE
  <2>1. CASE Select(q)
    <3>1. run'[p] = run[p] \/ run'[p] = [run[p] EXCEPT !.overtaken = (run[p].pc = "measure")]
      BY <1>1, <1>2, <2>1 DEF Select, Leave
    <3>2. run'[p].pc = run[p].pc
      BY <1>1, <3>1 DEF Run
    <3> QED BY <3>2
  <2>2. CASE ~Select(q)
    <3>1. CASE Leave(q) \/ \E todo : Becomes(q, todo)
      BY <1>1, <1>2, <3>1, OvertakesIdle
    <3>2. CASE \E pc, todo : Goto(q, pc, todo)
      BY <1>1, <1>2, <3>2, OvertakesGoto
    <3>3. CASE Begin(q) /\ ~Leave(q)
      <4>1. PICK kind : run' = [run EXCEPT ![q] = [Idle EXCEPT
              !.pc = "recover", !.kind = kind, !.stamp = commands', !.todo = recovery(files)]]
        BY <3>3 DEF Begin
      <4> QED BY <1>1, <1>2, <4>1
    <3>4. CASE Resume(q) /\ ~Leave(q)
      <4>1. run' = [run EXCEPT ![q].pc = "rerecover", ![q].todo = recovery(files)]
        BY <3>4 DEF Resume
      <4> QED BY <1>1, <1>2, <4>1
    <3>5. CASE List(q) /\ ~Leave(q)
      <4>1. run' = [run EXCEPT ![q].pc = "lock", ![q].kind = "refresh"]
        BY <3>5 DEF List
      <4> QED BY <1>1, <1>2, <4>1
    <3>6. CASE Capture(q) /\ ~Leave(q)
      <4>1. run' = [run EXCEPT ![q].pc = "measure", ![q].base = files, ![q].selection = selected]
        BY <3>6 DEF Capture
      <4> QED BY <1>1, <1>2, <4>1
    <3>7. CASE GiveUp(q) \/ Compare(q) \/ Write(q) \/ Answer(q)
      BY <3>1, <3>2, <3>7 DEF GiveUp, Compare, Write, Answer
    <3>8. CASE PublishRefresh(q) \/ PublishMeasurement(q)
      BY <3>1, <3>8 DEF PublishRefresh, PublishMeasurement
    <3>9. CASE WriteFails(q) \/ Cancelled(q) \/ Kill(q)
      BY <3>1, <3>2, <3>9 DEF WriteFails, Cancelled, Kill, Fail
    <3> QED BY <1>2, <2>2, <3>1, <3>3, <3>4, <3>5, <3>6, <3>7, <3>8, <3>9 DEF Command
  <2> QED BY <2>1, <2>2
<1>3. ASSUME Leave(p)
      PROVE  FALSE
  BY <1>1, <1>3 DEF Leave, Idle
<1>4. ASSUME NEW pc, NEW todo, Goto(p, pc, todo), pc # "publish"
      PROVE  FALSE
  BY <1>1, <1>4, OvertakesGoto
<1>5. CASE Cut
  BY <1>5 DEF Cut, Idle
<1>6. CASE UNCHANGED vars
  BY <1>6 DEF vars
<1>7. CASE Begin(p) \/ Resume(p) \/ GiveUp(p) \/ List(p) \/ Capture(p)
  <2>1. \/ \E kind : run' = [run EXCEPT ![p] = [Idle EXCEPT
             !.pc = "recover", !.kind = kind, !.stamp = commands', !.todo = recovery(files)]]
        \/ run' = [run EXCEPT ![p].pc = "rerecover", ![p].todo = recovery(files)]
        \/ run' = [run EXCEPT ![p].pc = "lock", ![p].kind = "refresh"]
        \/ run' = [run EXCEPT ![p].pc = "measure", ![p].base = files, ![p].selection = selected]
    BY <1>3, <1>7 DEF Begin, Resume, GiveUp, List, Capture
  <2>2. run'[p].pc \in {"recover", "rerecover", "lock", "measure"}
    <3>1. run[p] \in Run
      BY <1>1
    <3>2. ASSUME NEW kind,
                 run' = [run EXCEPT ![p] = [Idle EXCEPT
                   !.pc = "recover", !.kind = kind, !.stamp = commands', !.todo = recovery(files)]]
          PROVE  run'[p].pc = "recover"
      BY <1>1, <3>2 DEF Idle
    <3>3. CASE run' = [run EXCEPT ![p].pc = "rerecover", ![p].todo = recovery(files)]
      BY <1>1, <3>1, <3>3 DEF Run
    <3>4. CASE run' = [run EXCEPT ![p].pc = "lock", ![p].kind = "refresh"]
      BY <1>1, <3>1, <3>4 DEF Run
    <3>5. CASE run' = [run EXCEPT ![p].pc = "measure", ![p].base = files,
                                  ![p].selection = selected]
      BY <1>1, <3>1, <3>5 DEF Run
    <3> QED BY <2>1, <3>2, <3>3, <3>4, <3>5
  <2> QED BY <2>2
<1>8. CASE Select(p)
  <2>1. run'[p] = Idle
    BY <1>3, <1>8 DEF Select
  <2> QED BY <2>1 DEF Idle
<1>9. CASE Compare(p) \/ Write(p) \/ Answer(p) \/ WriteFails(p) \/ Cancelled(p) \/ Kill(p)
  BY <1>3, <1>4, <1>9 DEF Compare, Write, Answer, WriteFails, Cancelled, Kill, Fail
<1>10. CASE PublishMeasurement(p)
  BY <1>10 DEF PublishMeasurement
<1> QED BY <1>2, <1>5, <1>6, <1>7, <1>8, <1>9, <1>10 DEF Next, Command

(* A server selected while a refresh tested is in the catalog that the     *)
(* refresh publishes, or it publishes none: any number of commands, kills  *)
(* and cuts between them notwithstanding (runBrowserTestAll).              *)
THEOREM SelectionsWin == Spec => SelectionWins
<1>1. Init => IInv /\ SelectionInv
  <2>1. Init => SelectionInv
    BY DEF Init, SelectionInv, Overtakes, Idle
  <2> QED BY <2>1, InitHolds
<1>2. IInv /\ SelectionInv /\ [Next]_vars => (IInv /\ SelectionInv)'
  BY NextKeeps, NextKeepsSelection
<1>3. IInv /\ SelectionInv /\ [Next]_vars
        => \A p \in Commands :
             /\ run[p].overtaken /\ run[p].kind = "refresh"
             /\ run[p].pc # "publish" /\ run'[p].pc = "publish"
             => \E i \in DOMAIN run'[p].todo :
                  run'[p].todo[i].file = "catalog"
                    /\ selected.server \in DOMAIN run'[p].todo[i].value.rows
  BY RefreshAlone, RefreshPublishes
<1> QED BY <1>1, <1>2, <1>3, PTL DEF Spec, SelectionWins

-----------------------------------------------------------------------------
(* CatalogIsAtomic.  What a reader will be shown next is what the last one *)
(* was, or the one change that the journal, or the program of the one who  *)
(* is about to write it, announces.                                        *)

Refreshed(a, c) == c # NoFile /\ (a # NoFile => c.generation > a.generation)
Measured(a, c) ==
  \E k \in Pipelines, stamp \in Stamps :
    /\ a # NoFile
    /\ \E ids \in SUBSET DOMAIN a.rows :
         /\ \A s \in ids : a.rows[s][k] < stamp
         /\ c = MeasuredOn(a, ids, k, stamp)
Follows(a, c) == a = c \/ Refreshed(a, c) \/ Measured(a, c)

(* To a reader who was shown a.                                            *)
Pending(a, j) == j.old = a /\ Follows(a, j.new)
Told(a, todo) ==
  \A k \in DOMAIN todo :
    todo[k].file = "journal" /\ todo[k].value # NoFile => Pending(a, todo[k].value)
Awaited(a, f) ==
  IF f.journal # NoFile THEN Pending(a, f.journal) ELSE Follows(a, f.catalog)
ShownInv ==
  /\ Awaited(shown, files)
  /\ \A p \in Commands : /\ Told(shown, run[p].todo)
                         /\ (run[p].pc = "ready" => shown = files.catalog)

LEMMA FollowsIsNext == Follows(shown, shown') => [Atomic!Next]_shown
<1> SUFFICES ASSUME Follows(shown, shown'), shown' # shown
             PROVE  Atomic!Next
  OBVIOUS
<1>1. CASE Refreshed(shown, shown')
  BY <1>1 DEF Refreshed, Atomic!Refresh, Atomic!Next
<1>2. CASE Measured(shown, shown')
  BY <1>2 DEF Measured, MeasuredOn, Atomic!Measure, Atomic!Next
<1> QED BY <1>1, <1>2 DEF Follows

(* What the next write is, where it is of the catalog or of the journal.   *)
LEMMA NextOfPlace ==
  ASSUME NEW f \in Files, NEW todo, todo # <<>>,
         \/ Recovering(f, todo) \/ Preparing(f, todo) \/ Publishing(f, todo)
         \/ Aborting(f, todo)
  PROVE  /\ Head(todo).file = "catalog" => f.journal # NoFile
         /\ (Head(todo).file = "journal" /\ Head(todo).value = NoFile)
              => /\ f.journal # NoFile /\ settled(f, f.journal)
                 /\ f.catalog \in {f.journal.old, f.journal.new}
<1>1. CASE Normalizing(f, todo)
  <2>1. Head(todo).file \in {"backup", "commit", "generation"}
    BY <1>1, Fields DEF Normalizing
  <2> QED BY <2>1
<1>2. CASE Undoing(f, todo)
  <2>1. f.journal # NoFile
    BY <1>2 DEF Undoing
  <2>2. Head(todo).file = "journal" => settled(f, f.journal)
    BY <1>2, Fields DEF Undoing, Undo, Restore
  <2>3. settled(f, f.journal) => f.catalog \in {f.journal.old, f.journal.new}
    BY DEF settled, finalState, rollbackState
  <2> QED BY <2>1, <2>2, <2>3
<1>3. CASE Preparing(f, todo)
  <2>1. Head(todo).file = "salt"
    BY <1>3, Fields DEF Preparing
  <2> QED BY <2>1
<1>4. CASE Publishing(f, todo)
  <2>1. PICK j \in Journal : Publish(f, todo, j) /\ j.phase = "prepared"
    BY <1>4 DEF Publishing, Done
  <2>2. j # NoFile
    BY JournalCommits
  <2>3. Head(todo).file = "catalog" => f.journal = j
    BY <2>1, Fields DEF Publish, Announced
  <2>4. Head(todo).file = "journal" /\ Head(todo).value = NoFile
          => f.journal = j /\ finalState(f, j)
    BY <2>1, <2>2, Fields DEF Publish, Announced
  <2> QED BY <2>1, <2>2, <2>3, <2>4 DEF finalState, settled
<1>5. CASE Requesting(f, todo)
  <2>1. PICK j \in Journal : j = f.journal
    BY <1>5 DEF Requesting, Files
  <2>2. [j EXCEPT !.phase = "rollback-requested"] \in Journal
    BY DEF Journal
  <2>3. [j EXCEPT !.phase = "rollback-requested"] # NoFile
    BY <2>2, JournalCommits
  <2>4. Requested(f).journal = [j EXCEPT !.phase = "rollback-requested"]
    BY <2>1 DEF Requested, Files
  <2>5. Head(todo).file = "journal" /\ Head(todo).value # NoFile
    BY <1>5, <2>3, <2>4, Fields DEF Requesting
  <2> QED BY <2>5
<1> QED BY <1>1, <1>2, <1>3, <1>4, <1>5 DEF Recovering, Aborting, Done

(* Recoveries write no journal, and an abort only asks for what is there.  *)
LEMMA RecoveringTells ==
  ASSUME NEW f \in Files, NEW todo, Recovering(f, todo)
  PROVE  \A k \in DOMAIN todo : todo[k].file = "journal" => todo[k].value = NoFile
<1>1. CASE Normalizing(f, todo)
  BY <1>1, Fields DEF Normalizing
<1>2. CASE Undoing(f, todo)
  BY <1>2, Fields DEF Undoing, Undo, Restore
<1> QED BY <1>1, <1>2 DEF Recovering, Done

LEMMA AbortingTells ==
  ASSUME NEW a, NEW f \in Files, NEW todo \in Seq(Operation), Aborting(f, todo), Awaited(a, f)
  PROVE  Told(a, todo)
<1>1. CASE Undoing(f, todo) \/ Done(f, todo)
  BY <1>1, RecoveringTells DEF Recovering, Told
<1>2. CASE Requesting(f, todo)
  <2>1. PICK j \in Journal : j = f.journal /\ j # NoFile
    BY <1>2 DEF Requesting, Files
  <2>2. PICK i \in Journal : i = [j EXCEPT !.phase = "rollback-requested"]
    BY DEF Journal
  <2>3. Pending(a, j) /\ i.old = j.old /\ i.new = j.new
    BY <2>1, <2>2 DEF Awaited, Journal
  <2>4. Requested(f).journal = i /\ Requested(f) \in Files
    BY <2>1, <2>2 DEF Requested, Files
  <2>5. Head(todo).value = i
    BY <1>2, <2>4, Fields DEF Requesting
  <2>6. PICK rest : rest = Tail(todo)
    OBVIOUS
  <2>7. \A k \in DOMAIN rest : rest[k].file = "journal" => rest[k].value = NoFile
    BY <1>2, <2>4, <2>6, RecoveringTells DEF Requesting, Recovering
  <2>8. todo # <<>> /\ Len(todo) \in Nat /\ DOMAIN todo = 1 .. Len(todo)
    BY <1>2, LenProperties DEF Requesting
  <2>9. ASSUME NEW k \in DOMAIN todo, k # 1
        PROVE  k - 1 \in DOMAIN rest /\ rest[k - 1] = todo[k]
    BY <2>6, <2>8, <2>9, HeadTailProperties
  <2>10. todo[1] = Head(todo)
    BY <2>8
  <2> QED BY <2>3, <2>5, <2>7, <2>9, <2>10 DEF Told, Pending
<1> QED BY <1>1, <1>2 DEF Aborting

LEMMA TailTells ==
  ASSUME NEW a, NEW todo \in Seq(Operation), todo # <<>>, Told(a, todo)
  PROVE  Told(a, Tail(todo))
<1>1. PICK rest \in Seq(Operation) : rest = Tail(todo)
  BY HeadTailProperties
<1>2. /\ Len(todo) \in Nat /\ DOMAIN todo = 1 .. Len(todo) /\ Len(rest) = Len(todo) - 1
      /\ DOMAIN rest = 1 .. Len(rest)
  BY <1>1, LenProperties, HeadTailProperties
<1>3. ASSUME NEW k \in DOMAIN rest
      PROVE  k + 1 \in DOMAIN todo /\ rest[k] = todo[k + 1]
  BY <1>1, <1>2, HeadTailProperties
<1> QED BY <1>1, <1>3 DEF Told

(* A write keeps what readers await.                                       *)
LEMMA WriteAwaited ==
  ASSUME IInv, ShownInv, NEW p \in Commands, run[p].todo # <<>>
  PROVE  Awaited(shown, After(files, run[p].todo))
<1>1. PICK todo \in Seq(Operation) : todo = run[p].todo
  BY Holds
<1>2. PICK op \in Operation : op = Head(todo)
  BY <1>1, HeadTailProperties
<1>3. PICK g \in Files : g = After(files, todo)
  BY <1>1, Advances
<1>4. files \in Files /\ Awaited(shown, files) /\ Told(shown, todo)
  BY <1>1, FromTypes DEF ShownInv
<1>5. /\ op.file \in Directory /\ g = [files EXCEPT ![op.file] = op.value]
  BY <1>2, <1>3, Names DEF After, Operation, Ops
<1>6. /\ (op.file # "journal" => g.journal = files.journal)
      /\ (op.file # "catalog" => g.catalog = files.catalog)
      /\ (op.file = "journal" => g.journal = op.value)
  BY <1>4, <1>5, Names DEF Files
<1>7. /\ op.file = "catalog" => files.journal # NoFile
      /\ (op.file = "journal" /\ op.value = NoFile)
           => files.journal # NoFile /\ files.catalog \in {files.journal.old, files.journal.new}
  <2>1. \/ Recovering(files, todo) \/ Preparing(files, todo) \/ Publishing(files, todo)
        \/ Aborting(files, todo)
    BY <1>1, Holds DEF Going, Locked
  <2> QED BY <1>1, <1>2, <1>4, <2>1, NextOfPlace
<1>8. CASE op.file = "journal" /\ op.value # NoFile
  <2>1. todo[1] = op /\ 1 \in DOMAIN todo
    BY <1>1, <1>2, LenProperties
  <2>2. Pending(shown, op.value)
    BY <1>4, <1>8, <2>1 DEF Told
  <2> QED BY <1>1, <1>3, <1>6, <1>8, <2>2 DEF Awaited
<1>9. CASE op.file = "journal" /\ op.value = NoFile
  <2>1. Follows(shown, files.catalog)
    BY <1>4, <1>7, <1>9 DEF Awaited, Pending, Follows
  <2> QED BY <1>1, <1>3, <1>6, <1>9, <2>1 DEF Awaited
<1>10. CASE op.file = "catalog"
  BY <1>1, <1>3, <1>4, <1>6, <1>7, <1>10 DEF Awaited
<1>11. CASE op.file \notin {"journal", "catalog"}
  BY <1>1, <1>3, <1>4, <1>6, <1>11 DEF Awaited
<1> QED BY <1>8, <1>9, <1>10, <1>11


(* The one who reads, or publishes, holds the lock and has nothing to      *)
(* write, nor has anyone else.                                             *)
LEMMA ReadsShown ==
  ASSUME IInv, ShownInv, NEW p \in Commands, run[p].pc \in Locked, run[p].todo = <<>>
  PROVE  /\ files.journal = NoFile /\ Follows(shown, files.catalog) /\ holder = p
         /\ \A q \in Commands : /\ run[q].todo = <<>>
                                /\ (q # p => run[q].pc \notin Locked)
<1>1. holder = p /\ Going(files, run[p])
  BY Holds
<1>2. files.journal = NoFile
  BY <1>1 DEF Going, Locked, Recovering, Preparing, Publishing, Aborting, Normalizing,
              Undoing, Requesting, Done, Clean, Publish, Announced, Undo, Restore
<1>3. Follows(shown, files.catalog)
  BY <1>2 DEF ShownInv, Awaited
<1>4. \A q \in Commands : run[q].todo = <<>> /\ (q # p => run[q].pc \notin Locked)
  BY <1>1 DEF IInv, TypeOK
<1> QED BY <1>1, <1>2, <1>3, <1>4

(* Who does not publish announces nothing new.                             *)
LEMMA PlaceTells ==
  ASSUME NEW a, NEW f \in Files, NEW r \in Run, r.pc # "publish", Going(f, r), Awaited(a, f),
         r.todo # <<>> => r.pc \in Locked
  PROVE  Told(a, r.todo)
<1>1. PICK todo \in Seq(Operation) : todo = r.todo
  BY DEF Run
<1>2. CASE r.todo = <<>>
  BY <1>2 DEF Told
<1>3. CASE Recovering(f, todo)
  BY <1>1, <1>3, RecoveringTells DEF Told
<1>4. CASE Preparing(f, todo)
  <2>1. \A k \in DOMAIN todo : todo[k].file = "salt"
    BY <1>4, Fields DEF Preparing
  <2> QED BY <1>1, <2>1 DEF Told
<1>5. CASE Aborting(f, todo)
  BY <1>1, <1>5, AbortingTells
<1> QED BY <1>1, <1>2, <1>3, <1>4, <1>5 DEF Going, Locked

LEMMA ShownSteps ==
  ASSUME IInv', Awaited(shown, files)',
         \A p \in Commands : run'[p].pc = "publish" => Told(shown', run'[p].todo),
         \A p \in Commands : run'[p].pc = "ready" => shown' = files'.catalog
  PROVE  ShownInv'
<1>1. ASSUME NEW p \in Commands
      PROVE  Told(shown', run'[p].todo)
  <2>1. /\ files' \in Files /\ run'[p] \in Run /\ Going(files', run'[p])
        /\ (run'[p].todo # <<>> => run'[p].pc \in Locked)
    BY DEF IInv, TypeOK
  <2> QED BY <2>1, PlaceTells
<1> QED BY <1>1 DEF ShownInv

(* A step that leaves the directory as it is, and begins no publication.   *)
LEMMA ShownKept ==
  ASSUME IInv, IInv', ShownInv, NEW p \in Commands, UNCHANGED files,
         \/ shown' = shown
         \/ shown' = files.catalog /\ run[p].pc \in Locked /\ run[p].todo = <<>>,
         \A q \in Commands \ {p} : run'[q].pc = run[q].pc /\ run'[q].todo = run[q].todo,
         run'[p].pc # "publish", run'[p].pc = "ready" => shown' = files.catalog
  PROVE  ShownInv'
<1>1. CASE shown' = shown
  <2>1. Awaited(shown, files)'
    BY <1>1 DEF ShownInv
  <2>2. \A q \in Commands : run'[q].pc = "publish" => Told(shown', run'[q].todo)
    BY <1>1 DEF ShownInv
  <2>3. \A q \in Commands : run'[q].pc = "ready" => shown' = files'.catalog
    BY <1>1 DEF ShownInv
  <2> QED BY <2>1, <2>2, <2>3, ShownSteps
<1>2. CASE shown' # shown
  <2>1. /\ shown' = files.catalog /\ files.journal = NoFile
        /\ \A q \in Commands : run[q].todo = <<>>
        /\ \A q \in Commands \ {p} : run[q].pc # "ready"
    BY <1>2, ReadsShown DEF Locked
  <2>2. Awaited(shown, files)'
    BY <2>1 DEF Awaited, Follows
  <2>3. \A q \in Commands : run'[q].pc = "publish" => Told(shown', run'[q].todo)
    BY <2>1 DEF Told
  <2>4. \A q \in Commands : run'[q].pc = "ready" => shown' = files'.catalog
    BY <2>1
  <2> QED BY <2>2, <2>3, <2>4, ShownSteps
<1> QED BY <1>1, <1>2

(* A write of the holder of the lock, or the failure of one.               *)
LEMMA ShownWritten ==
  ASSUME IInv, IInv', ShownInv, NEW p \in Commands, run[p].todo # <<>>, UNCHANGED shown,
         files' \in {files, After(files, run[p].todo)},
         \A q \in Commands \ {p} : run'[q] = run[q],
         run'[p].pc = "publish" => run'[p].todo = Tail(run[p].todo),
         run'[p].pc = "ready" => run[p].pc = "ready"
  PROVE  ShownInv'
<1>1. holder = p /\ Going(files, run[p]) /\ run[p].todo \in Seq(Operation)
  BY Holds
<1>2. Awaited(shown, files)'
  BY WriteAwaited DEF ShownInv
<1>3. \A q \in Commands : run'[q].pc = "publish" => Told(shown', run'[q].todo)
  BY <1>1, TailTells DEF ShownInv
<1>4. ASSUME NEW q \in Commands, run'[q].pc = "ready"
      PROVE  shown' = files'.catalog
  <2>1. q = p
    BY <1>1, <1>4 DEF IInv, TypeOK, Locked
  <2>2. run[p].pc = "ready" /\ shown = files.catalog
    BY <1>4, <2>1 DEF ShownInv
  <2>3. PICK g \in Files : g = After(files, run[p].todo)
    BY Advances
  <2>4. /\ g["catalog"] = run[p].base["catalog"] /\ files["catalog"] = run[p].base["catalog"]
    BY <1>1, <2>2, <2>3, Advances, Names DEF Going
  <2> QED BY <2>2, <2>3, <2>4
<1> QED BY <1>2, <1>3, <1>4, ShownSteps


LEMMA PublicationShown ==
  ASSUME IInv, IInv', ShownInv, NEW p \in Commands, run[p].pc = "ready", run[p].todo = <<>>,
         NEW new \in CatalogTo(run[p].stamp + 1), NEW hw \in 1 .. run[p].stamp + 1,
         Follows(files.catalog, new), Becomes(p, publication(files, new, hw)),
         UNCHANGED <<files, shown>>
  PROVE  ShownInv'
<1>1. PICK n \in 1 .. commands : n = run[p].stamp
  BY PublishesNext
<1>2. n \in 0 .. MaxCommands
  BY FromTypes
<1>3. PICK j : j = journalOf(files, new, hw)
  OBVIOUS
<1>4. j \in JournalTo(n + 1) /\ publication(files, new, hw) = Announced(j)
  BY <1>1, <1>2, <1>3, PublishesNext, PublicationTyped
<1>5. shown = files.catalog /\ run \in [Commands -> Run] /\ Awaited(shown, files)
  BY Versions DEF ShownInv
<1>6. Pending(shown, j)
  BY <1>3, <1>5 DEF journalOf, Pending
<1>7. Told(shown, Announced(j))
  BY <1>6, Fields DEF Told, Announced
<1>8. run' = [run EXCEPT ![p] = [Idle EXCEPT !.pc = "publish", !.todo = Announced(j)]]
  BY <1>4 DEF Becomes
<1>9. run'[p].pc = "publish" /\ run'[p].todo = Announced(j)
  BY <1>5, <1>8 DEF Idle
<1>10. \A q \in Commands \ {p} : run'[q] = run[q]
  BY <1>5, <1>8
<1>11. \A q \in Commands : run'[q].pc = "publish" => Told(shown', run'[q].todo)
  BY <1>7, <1>9, <1>10 DEF ShownInv
<1>12. \A q \in Commands : run'[q].pc = "ready" => shown' = files'.catalog
  BY <1>9, <1>10 DEF ShownInv
<1> QED BY <1>5, <1>11, <1>12, ShownSteps

LEMMA LeavingShown ==
  ASSUME IInv, IInv', ShownInv, NEW p \in Commands, Leave(p), UNCHANGED files,
         \/ shown' = shown
         \/ shown' = files.catalog /\ run[p].pc \in Locked /\ run[p].todo = <<>>
  PROVE  ShownInv'
<1>1. run' = [run EXCEPT ![p] = Idle] /\ run \in [Commands -> Run]
  BY Versions DEF Leave
<1>2. run'[p].pc = "idle" /\ \A q \in Commands \ {p} : run'[q] = run[q]
  BY <1>1, Idles
<1> QED BY <1>2, ShownKept

LEMMA RefreshShown ==
  ASSUME IInv, IInv', ShownInv, NEW p \in Commands, PublishRefresh(p)
  PROVE  ShownInv'
<1>1. run[p].pc = "ready" /\ run[p].todo = <<>> /\ UNCHANGED <<files, shown>>
  BY DEF PublishRefresh, atEnd, inDirectory
<1>2. CASE Leave(p)
  BY <1>1, <1>2, LeavingShown
<1>3. ASSUME NEW S \in (SUBSET Servers) \ {{}},
             NEW row \in {untested, [untested EXCEPT !["speed"] = run[p].stamp]},
             Becomes(p, publication(files,
                          [generation |-> highWater + 1, rows |-> [s \in S |-> row]],
                          highWater + 1))
      PROVE  ShownInv'
  <2>1. PICK n \in 1 .. commands : n = run[p].stamp
    BY <1>1, PublishesNext
  <2>2. n \in 0 .. MaxCommands /\ highWater \in 0 .. n /\ n \in Nat
    BY <1>1, <2>1, FromTypes, PublishesNext
  <2>3. PICK new : new = [generation |-> highWater + 1, rows |-> [s \in S |-> row]]
    OBVIOUS
  <2>4. new \in CatalogTo(n + 1) /\ new.generation = highWater + 1
    BY <1>1, <2>1, <2>3, RefreshTyped
  <2>5. Follows(files.catalog, new)
    <3>1. new # NoFile
      <4>1. n + 1 \in 0 .. Top
        BY <2>2, CatalogShape DEF Top
      <4> QED BY <2>4, <4>1, Present
    <3>2. files.catalog # NoFile => new.generation > files.catalog.generation
      <4>1. SUFFICES ASSUME files.catalog # NoFile
                     PROVE  new.generation > files.catalog.generation
        OBVIOUS
      <4>2. PICK c \in CatalogTo(n) : c = files.catalog
        BY <1>1, <2>1, <4>1, PublishesNext
      <4>3. c.generation \in Nat /\ highWater \in Nat
        BY <2>2, <4>2, CatalogGrows
      <4>4. Clean(files) /\ files \in Files
        BY <1>1, <4>1, PublishesNext, FromTypes DEF Preparing
      <4>5. files.generation # NoFile /\ Covers(files.generation, files.catalog)
        BY <4>1, <4>4, CleanCommit
      <4>6. files.catalog.generation =< highWater
        BY <1>1, <4>1, <4>5, PublishesNext DEF Covers
      <4> QED BY <2>4, <4>2, <4>3, <4>6
    <3> QED BY <3>1, <3>2 DEF Refreshed, Follows
  <2>6. highWater + 1 \in 1 .. n + 1
    BY <2>2
  <2>7. Becomes(p, publication(files, new, highWater + 1))
    BY <1>3, <2>3
  <2> QED BY <1>1, <2>1, <2>4, <2>5, <2>6, <2>7, PublicationShown
<1> QED BY <1>2, <1>3 DEF PublishRefresh

LEMMA MeasurementShown ==
  ASSUME IInv, IInv', ShownInv, NEW p \in Commands, PublishMeasurement(p)
  PROVE  ShownInv'
<1>1. /\ run[p].pc = "ready" /\ run[p].todo = <<>> /\ run[p].kind = "measure"
      /\ UNCHANGED <<files, shown>>
  BY DEF PublishMeasurement, atEnd, inDirectory
<1>2. PICK ids \in (SUBSET DOMAIN files.catalog.rows) \ {{}}, k \in Pipelines :
        Becomes(p, publication(files,
          MeasuredOn(files.catalog, ids, k, run[p].stamp), highWater))
  BY DEF PublishMeasurement, MeasuredOn
<1>3. PICK n \in 1 .. commands : n = run[p].stamp
  BY <1>1, PublishesNext
<1>4. n \in 0 .. MaxCommands /\ n \in Stamps
  BY <1>3, FromTypes DEF Stamps
<1>5. PICK c \in CatalogTo(n) : c = files.catalog /\ c # NoFile
  BY <1>1, <1>3, PublishesNext
<1>6. PICK new : new = MeasuredOn(c, ids, k, n)
  OBVIOUS
<1>7. \A s \in ids : c.rows[s][k] < n
  <2>1. PICK S \in (SUBSET Servers) \ {{}} : c.rows \in [S -> [Pipelines -> 0 .. n - 1]]
    BY DEF CatalogTo
  <2>2. \A s \in ids : c.rows[s][k] \in 0 .. n - 1
    BY <1>2, <1>5, <2>1
  <2> QED BY <1>4, <2>2
<1>8. Follows(c, new)
  <2>1. ids \in SUBSET DOMAIN c.rows
    BY <1>2, <1>5
  <2>2. Measured(c, new)
    BY <1>4, <1>5, <1>6, <1>7, <2>1 DEF Measured
  <2> QED BY <2>2 DEF Follows
<1>9. new \in CatalogTo(n + 1) /\ highWater \in 1 .. n + 1
  BY <1>1, <1>3, <1>5, <1>6, MeasurementTyped
<1>10. Becomes(p, publication(files, new, highWater))
  BY <1>2, <1>3, <1>5, <1>6
<1> QED BY <1>1, <1>3, <1>5, <1>8, <1>9, <1>10, PublicationShown

LEMMA ReadersShown ==
  ASSUME IInv, IInv', ShownInv, NEW p \in Commands,
         \/ Begin(p) \/ Resume(p) \/ GiveUp(p) \/ List(p) \/ Select(p) \/ Capture(p)
         \/ Compare(p) \/ Answer(p)
  PROVE  ShownInv'
<1>1. run \in [Commands -> Run] /\ run[p] \in Run /\ UNCHANGED files
  BY Versions DEF Begin, Resume, GiveUp, List, Select, Capture, Compare, Answer, inDirectory
<1>2. \/ shown' = shown
      \/ shown' = files.catalog /\ run[p].pc \in Locked /\ run[p].todo = <<>>
  BY DEF Begin, Resume, GiveUp, List, Select, Capture, Compare, Answer, atEnd, Locked
<1>3. CASE Leave(p)
  BY <1>1, <1>2, <1>3, LeavingShown
<1>4. CASE Select(p) /\ ~Leave(p)
  <2>1. run' = [q \in Commands |->
          IF q = p THEN Idle ELSE [run[q] EXCEPT !.overtaken = (run[q].pc = "measure")]]
    BY <1>4 DEF Select
  <2>2. run'[p].pc = "idle"
    BY <2>1, Idles
  <2>3. ASSUME NEW q \in Commands \ {p}
        PROVE  run'[q].pc = run[q].pc /\ run'[q].todo = run[q].todo
    <3>1. run[q] \in Run /\ run'[q] = [run[q] EXCEPT !.overtaken = (run[q].pc = "measure")]
      BY <1>1, <2>1
    <3> QED BY <3>1 DEF Run
  <2> QED BY <1>1, <1>2, <2>2, <2>3, ShownKept
<1>5. CASE Begin(p) /\ ~Leave(p)
  <2>1. PICK kind : run' = [run EXCEPT ![p] = [Idle EXCEPT
          !.pc = "recover", !.kind = kind, !.stamp = commands', !.todo = recovery(files)]]
    BY <1>5 DEF Begin
  <2>2. run'[p].pc = "recover" /\ \A q \in Commands \ {p} : run'[q] = run[q]
    BY <1>1, <2>1 DEF Idle
  <2> QED BY <1>1, <1>2, <2>2, ShownKept
<1>6. CASE (Resume(p) \/ List(p) \/ Capture(p)) /\ ~Leave(p)
  <2>1. \/ run' = [run EXCEPT ![p].pc = "rerecover", ![p].todo = recovery(files)]
        \/ run' = [run EXCEPT ![p].pc = "lock", ![p].kind = "refresh"]
        \/ run' = [run EXCEPT ![p].pc = "measure", ![p].base = files, ![p].selection = selected]
    BY <1>6 DEF Resume, List, Capture
  <2>2. \A q \in Commands \ {p} : run'[q] = run[q]
    BY <1>1, <2>1
  <2>3. run'[p].pc \in {"rerecover", "lock", "measure"}
    <3>1. CASE run' = [run EXCEPT ![p].pc = "rerecover", ![p].todo = recovery(files)]
      BY <1>1, <3>1 DEF Run
    <3>2. CASE run' = [run EXCEPT ![p].pc = "lock", ![p].kind = "refresh"]
      BY <1>1, <3>2 DEF Run
    <3>3. CASE run' = [run EXCEPT ![p].pc = "measure", ![p].base = files,
                                  ![p].selection = selected]
      BY <1>1, <3>3 DEF Run
    <3> QED BY <2>1, <3>1, <3>2, <3>3
  <2> QED BY <1>1, <1>2, <2>2, <2>3, ShownKept
<1>7. CASE Compare(p) /\ ~Leave(p)
  <2>1. Goto(p, "ready", salting) /\ shown' = files.catalog
    BY <1>7 DEF Compare
  <2> QED BY <1>1, <1>2, <2>1, OvertakesGoto, ShownKept
<1> QED BY <1>3, <1>4, <1>5, <1>6, <1>7 DEF GiveUp, Answer

LEMMA WritersShown ==
  ASSUME IInv, IInv', ShownInv, NEW p \in Commands,
         Write(p) \/ WriteFails(p) \/ Cancelled(p) \/ Kill(p)
  PROVE  ShownInv'
<1>1. run \in [Commands -> Run] /\ UNCHANGED shown
  BY Versions DEF Write, WriteFails, Cancelled, Kill
<1>2. \/ Leave(p)
      \/ \E todo : Goto(p, "abort", todo)
      \/ Goto(p, run[p].pc, Tail(run[p].todo))
  BY DEF Write, WriteFails, Cancelled, Kill, Fail
<1>3. \/ UNCHANGED files
      \/ run[p].todo # <<>> /\ files' = After(files, run[p].todo)
  BY DEF Write, WriteFails, Cancelled, Kill, Renamed, After, inDirectory
<1>4. CASE run[p].todo = <<>>
  <2>1. Leave(p) /\ UNCHANGED files
    BY <1>3, <1>4 DEF Write, WriteFails, Cancelled, Kill
  <2> QED BY <1>1, <2>1, LeavingShown
<1>5. CASE run[p].todo # <<>>
  <2>1. /\ \A q \in Commands \ {p} : run'[q] = run[q]
        /\ (run'[p].pc = "publish" => run'[p].todo = Tail(run[p].todo))
        /\ (run'[p].pc = "ready" => run[p].pc = "ready")
    <3>1. CASE Leave(p)
      BY <1>1, <3>1, Idles DEF Leave
    <3>2. ASSUME NEW todo, Goto(p, "abort", todo)
          PROVE  run'[p].pc = "abort" /\ \A q \in Commands \ {p} : run'[q] = run[q]
      BY <1>1, <3>2, OvertakesGoto
    <3>3. CASE Goto(p, run[p].pc, Tail(run[p].todo))
      BY <1>1, <3>3, OvertakesGoto
    <3> QED BY <1>2, <3>1, <3>2, <3>3
  <2> QED BY <1>1, <1>3, <1>5, <2>1, ShownWritten
<1> QED BY <1>4, <1>5


(* Without errors and kills every change is synced when the next begins,   *)
(* and a cut loses none.                                                   *)
Settled == {"io", "kill", "link"} \cap Hazards = {}
Lossless == Settled => durable = {files}

LEMMA NextLossless == IInv /\ Lossless /\ [Next]_vars => Lossless'
<1> SUFFICES ASSUME IInv, Lossless, [Next]_vars, Settled
             PROVE  durable' = {files'}
  BY DEF Lossless, Settled
<1>1. durable = {files} /\ "io" \notin Hazards /\ "kill" \notin Hazards
  BY DEF Lossless, Settled
<1>2. CASE UNCHANGED <<files, durable>>
  BY <1>1, <1>2
<1>3. ASSUME NEW p \in Commands, Write(p)
      PROVE  durable' = {files'}
  BY <1>2, <1>3, WriteSyncs DEF Settled
<1>4. CASE Cut
  BY <1>4 DEF Cut, Synced
<1>5. ASSUME NEW p \in Commands, Command(p) \/ Cancelled(p)
      PROVE  durable' = {files'}
  <2>1. CASE Write(p)
    BY <1>3, <2>1
  <2>2. CASE ~Write(p)
    <3>1. UNCHANGED <<files, durable>>
      BY <1>5, <2>2 DEF Command, Begin, Resume, GiveUp, List, Select, Capture, Compare,
                       PublishRefresh, PublishMeasurement, Answer, Cancelled, inDirectory
    <3> QED BY <1>2, <3>1
  <2> QED BY <2>1, <2>2
<1>6. ASSUME NEW p \in Commands
      PROVE  ~WriteFails(p) /\ ~Kill(p)
  BY <1>1 DEF WriteFails, Kill, Fault
<1> QED BY <1>2, <1>4, <1>5, <1>6 DEF Next, vars

LEMMA CutShown ==
  ASSUME IInv, IInv', ShownInv, durable = {files}, Cut
  PROVE  ShownInv' /\ shown' = shown
<1>1. /\ run' = [p \in Commands |-> Idle] /\ shown' = shown
      /\ files' \in durable \/ files' \in Mixed
  BY DEF Cut
<1>2. files' = files
  <2>1. durable = {files} /\ files \in Files
    BY FromTypes
  <2>2. ASSUME files' \in Mixed
        PROVE  files' = files
    <3>1. \A x : At(x) = {files[x]}
      BY <2>1 DEF At
    <3> QED BY <2>1, <2>2, <3>1 DEF Mixed, Files
  <2> QED BY <1>1, <2>1, <2>2
<1>3. Awaited(shown, files)'
  BY <1>1, <1>2 DEF ShownInv
<1>4. \A p \in Commands : run'[p].pc = "idle"
  BY <1>1, Idles
<1>5. ShownInv'
  BY <1>3, <1>4, ShownSteps
<1> QED BY <1>1, <1>5

(* What p does, or suffers, shows what follows.                            *)
LEMMA ShowsNext ==
  ASSUME IInv, ShownInv, NEW p \in Commands,
         Command(p) \/ WriteFails(p) \/ Cancelled(p) \/ Kill(p)
  PROVE  Follows(shown, shown')
<1>1. \/ shown' = shown
      \/ shown' = files.catalog /\ run[p].pc \in Locked /\ run[p].todo = <<>>
  BY DEF Command, Begin, Resume, GiveUp, List, Select, Capture, Compare, PublishRefresh,
         PublishMeasurement, Write, Answer, WriteFails, Cancelled, Kill, atEnd, Locked
<1>2. CASE shown' = shown
  BY <1>2 DEF Follows
<1>3. CASE shown' = files.catalog /\ run[p].pc \in Locked /\ run[p].todo = <<>>
  BY <1>3, ReadsShown
<1> QED BY <1>1, <1>2, <1>3

LEMMA CommandsShown ==
  ASSUME IInv, IInv', ShownInv, NEW p \in Commands,
         Command(p) \/ WriteFails(p) \/ Cancelled(p) \/ Kill(p)
  PROVE  ShownInv'
BY RefreshShown, MeasurementShown, ReadersShown, WritersShown DEF Command

LEMMA NextKeepsShown ==
  ASSUME "cut" \notin Hazards \/ Settled
  PROVE  IInv /\ IInv' /\ ShownInv /\ Lossless /\ [Next]_vars
           => ShownInv' /\ [Atomic!Next]_shown
<1> SUFFICES ASSUME IInv, IInv', ShownInv, Lossless, [Next]_vars
             PROVE  ShownInv' /\ Follows(shown, shown')
  BY FollowsIsNext
<1>1. ASSUME NEW p \in Commands, Command(p) \/ WriteFails(p) \/ Cancelled(p) \/ Kill(p)
      PROVE  ShownInv' /\ Follows(shown, shown')
  BY <1>1, CommandsShown, ShowsNext
<1>2. CASE UNCHANGED vars
  BY <1>2 DEF vars, ShownInv, Follows
<1>3. CASE Cut
  <2>1. Settled
    BY <1>3 DEF Cut, Fault
  <2> QED BY <1>3, <2>1, CutShown DEF Follows, Lossless
<1> QED BY <1>1, <1>2, <1>3 DEF Next

LEMMA InitShown == Init => ShownInv /\ Atomic!Init
<1> SUFFICES ASSUME Init
             PROVE  ShownInv /\ Atomic!Init
  OBVIOUS
<1>1. shown = NoFile /\ run = [p \in Commands |-> Idle]
  BY DEF Init
<1>2. empty = [salt |-> NoFile, generation |-> NoFile, catalog |-> NoFile, commit |-> NoFile,
               journal |-> NoFile, backup |-> NoFile]
  <2>1. empty = [x \in {"salt", "generation", "catalog", "commit", "journal", "backup"}
                   |-> NoFile]
    BY Names DEF empty
  <2> QED BY <2>1
<1>3. files.journal = NoFile /\ files.catalog \in {NoFile, old}
  <2>1. CASE files = empty
    BY <1>2, <2>1
  <2>2. CASE files = [empty EXCEPT !.salt = "whole", !.catalog = old]
    BY <1>2, <2>2
  <2>3. CASE files = [empty EXCEPT !.salt = "whole", !.catalog = old,
                                   !.generation = [highWater |-> 1, revision |-> 0]]
    BY <1>2, <2>3
  <2> QED BY <2>1, <2>2, <2>3 DEF Init
<1>4. Awaited(shown, files)
  BY <1>1, <1>3 DEF Awaited, Follows, Refreshed
<1>5. ASSUME NEW p \in Commands
      PROVE  Told(shown, run[p].todo) /\ run[p].pc # "ready"
  <2>1. run[p].todo = <<>> /\ run[p].pc = "idle"
    BY <1>1, Idles
  <2> QED BY <2>1 DEF Told
<1> QED BY <1>1, <1>4, <1>5 DEF ShownInv, Atomic!Init

LEMMA LosslessAtomic ==
  ASSUME "cut" \notin Hazards \/ {"io", "kill", "link"} \cap Hazards = {}
  PROVE  Spec => CatalogIsAtomic
<1>1. Init => IInv /\ ShownInv /\ Lossless /\ Atomic!Init
  <2>1. Init => Lossless
    BY DEF Init, Lossless
  <2> QED BY <2>1, InitHolds, InitShown
<1>2. IInv /\ ShownInv /\ Lossless /\ [Next]_vars
        => (IInv /\ ShownInv /\ Lossless)' /\ [Atomic!Next]_shown
  BY NextKeeps, NextKeepsShown, NextLossless DEF Settled
<1> QED BY <1>1, <1>2, PTL DEF Spec, CatalogIsAtomic, Atomic!Spec

-----------------------------------------------------------------------------
(* After two faults.  A cut may bring back a directory with the journal of *)
(* what has been published and read: it is cleaned up before anyone reads. *)
(* What the journal announced has been done, and was read.                 *)
Concluded(a, f) ==
  /\ f.journal # NoFile /\ f.journal.phase = "prepared"
  /\ finalState(f, f.journal) /\ a = f.journal.new
(* A directory that a cut may leave still leads on from a.                 *)
Lags(a, d, f) ==
  /\ Awaited(a, d) \/ Concluded(a, d)
  /\ f.journal = NoFile =>
       d.catalog = f.catalog /\ (d.journal # NoFile => settled(d, d.journal))
Lagging == faults = 1 => \A d \in durable : Lags(shown, d, files)
(* A cut has brought the journal back of a publication that was read.      *)
Regained ==
  /\ faults = 2 /\ Concluded(shown, files)
  /\ \A p \in Commands :
       \/ run[p].pc = "idle"
       \/ run[p].pc = "recover" /\ run[p].todo \in {cleanup, Tail(cleanup)}

LEMMA LagsBehindRead ==
  ASSUME NEW a, NEW d \in Files, NEW f \in Files, f.journal = NoFile, Lags(a, d, f)
  PROVE  Lags(f.catalog, d, f)
<1>1. d.catalog = f.catalog
  BY DEF Lags
<1>2. CASE d.journal = NoFile
  BY <1>1, <1>2 DEF Lags, Awaited, Follows
<1>3. CASE d.journal # NoFile
  <2>1. settled(d, d.journal)
    BY <1>3 DEF Lags
  <2>2. CASE d.journal.phase = "prepared" /\ finalState(d, d.journal)
    BY <1>1, <1>3, <2>1, <2>2 DEF Lags, Concluded, finalState
  <2>3. CASE rollbackState(d, d.journal)
    <3>1. Follows(d.journal.old, d.journal.new)
      <4>1. CASE Awaited(a, d)
        BY <1>3, <4>1 DEF Awaited, Pending
      <4>2. CASE Concluded(a, d)
        BY <2>3, <4>2 DEF Concluded, finalState, rollbackState, Follows
      <4> QED BY <4>1, <4>2 DEF Lags
    <3>2. d.journal.old = f.catalog
      BY <1>1, <2>3 DEF rollbackState
    <3> QED BY <1>1, <1>3, <2>1, <3>1, <3>2 DEF Lags, Awaited, Pending
  <2> QED BY <2>1, <2>2, <2>3 DEF settled
<1> QED BY <1>2, <1>3

LEMMA LagsItself ==
  ASSUME NEW a, NEW f, Awaited(a, f)
  PROVE  Lags(a, f, f)
BY DEF Lags

(* The first fault: the directory before it.                               *)
LEMMA WriteLags ==
  ASSUME IInv, ShownInv, NEW p \in Commands, run[p].todo # <<>>
  PROVE  Lags(shown, files, After(files, run[p].todo))
<1>1. PICK todo \in Seq(Operation) : todo = run[p].todo
  BY Holds
<1>2. PICK op \in Operation : op = Head(todo)
  BY <1>1, HeadTailProperties
<1>3. PICK g \in Files : g = After(files, todo)
  BY <1>1, Advances
<1>4. files \in Files /\ Awaited(shown, files)
  BY FromTypes DEF ShownInv
<1>5. op.file \in Directory /\ g = [files EXCEPT ![op.file] = op.value]
  BY <1>2, <1>3, Names DEF After, Operation, Ops
<1>6. /\ (op.file # "journal" => g.journal = files.journal)
      /\ (op.file # "catalog" => g.catalog = files.catalog)
      /\ (op.file = "journal" => g.journal = op.value)
  BY <1>4, <1>5, Names DEF Files
<1>7. /\ op.file = "catalog" => files.journal # NoFile
      /\ (op.file = "journal" /\ op.value = NoFile) => settled(files, files.journal)
  <2>1. \/ Recovering(files, todo) \/ Preparing(files, todo) \/ Publishing(files, todo)
        \/ Aborting(files, todo)
    BY <1>1, Holds DEF Going, Locked
  <2> QED BY <1>1, <1>2, <1>4, <2>1, NextOfPlace
<1>8. ASSUME g.journal = NoFile
      PROVE  g.catalog = files.catalog /\ (files.journal # NoFile => settled(files, files.journal))
  BY <1>6, <1>7, <1>8
<1> QED BY <1>1, <1>3, <1>4, <1>8 DEF Lags

LEMMA FaultLags ==
  ASSUME IInv, ShownInv, ShownInv', Lost, NEW p \in Commands,
         WriteFails(p) \/ Cancelled(p) \/ Kill(p)
  PROVE  Lagging'
<1>1. /\ faults \in Nat /\ faults' = faults + 1 /\ durable' = durable \cup {files'}
      /\ UNCHANGED shown
  BY FaultsCount, FaultLeaves
<1>2. SUFFICES ASSUME faults = 0
               PROVE  Lags(shown, files, files') /\ Lags(shown, files', files')
  BY <1>1 DEF Lost, Lagging
<1>3. Awaited(shown, files) /\ Awaited(shown', files')
  BY DEF ShownInv
<1>4. Lags(shown, files', files')
  BY <1>1, <1>3, LagsItself
<1>5. CASE files' = files
  BY <1>4, <1>5
<1>6. CASE run[p].todo # <<>> /\ files' = After(files, run[p].todo)
  BY <1>4, <1>6, WriteLags
<1> QED BY <1>5, <1>6, FaultLeaves

(* The other steps of commands.                                            *)
LEMMA CommandLags ==
  ASSUME IInv, "link" \notin Hazards, ShownInv, ShownInv', Lagging, NEW p \in Commands, Command(p)
  PROVE  Lagging'
<1>1. Awaited(shown', files')
  BY DEF ShownInv
<1>2. CASE durable' = {files'}
  BY <1>1, <1>2, LagsItself DEF Lagging
<1>3. CASE UNCHANGED <<files, durable, faults>> /\ UNCHANGED shown
  BY <1>3 DEF Lagging
<1>4. CASE UNCHANGED <<files, durable, faults>> /\ ~UNCHANGED shown /\ ~Write(p)
  <2>1. shown' = files.catalog /\ run[p].pc \in Locked /\ run[p].todo = <<>>
    BY <1>4 DEF Command, Begin, Resume, GiveUp, List, Select, Capture, Compare, PublishRefresh,
                PublishMeasurement, Answer, atEnd, Locked
  <2>2. files.journal = NoFile /\ files \in Files /\ \A d \in durable : d \in Files
    BY <2>1, ReadsShown, FromTypes
  <2>3. faults = 1 => \A d \in durable : Lags(files.catalog, d, files)
    BY <2>2, LagsBehindRead DEF Lagging
  <2> QED BY <1>4, <2>1, <2>3 DEF Lagging
<1> QED BY <1>2, <1>3, <1>4, DirectoryKept, WriteSyncs

(* A cut after at most one fault.                                          *)
LEMMA CutTwice ==
  ASSUME IInv, IInv', ShownInv, Lost, Lagging, Cut, MaxFaults =< 2
  PROVE  (ShownInv \/ Regained)' /\ Lagging' /\ shown' = shown
<1>1. /\ run' = [p \in Commands |-> Idle] /\ shown' = shown /\ durable' = {files'}
      /\ faults' = faults + 1 /\ faults \in {0, 1}
  BY FaultsCount DEF Cut, Synced
<1>2. \A p \in Commands : run'[p].pc = "idle"
  BY <1>1, Idles
<1>3. ASSUME Awaited(shown, files')
      PROVE  ShownInv'
  BY <1>1, <1>2, <1>3, ShownSteps
<1>4. CASE faults = 0
  <2>1. durable = {files}
    BY <1>4 DEF Lost
  <2>2. ShownInv'
    BY <2>1, CutShown
  <2>3. Awaited(shown', files')
    BY <2>2 DEF ShownInv
  <2> QED BY <1>1, <2>2, <2>3, LagsItself DEF Lagging
<1>5. CASE faults = 1
  <2>1. Awaited(shown, files') \/ Concluded(shown, files')
    BY <1>5, CutFinds DEF Lagging, Lags
  <2>2. ASSUME Concluded(shown, files')
        PROVE  Regained'
    BY <1>1, <1>2, <1>5, <2>2 DEF Regained
  <2>3. Lagging'
    BY <1>1, <1>5 DEF Lagging
  <2> QED BY <1>1, <1>3, <2>1, <2>2, <2>3
<1> QED BY <1>1, <1>4, <1>5

Cleaning == <<Op("journal", NoFile)>>

LEMMA Cleanups ==
  /\ cleanup # <<>> /\ Head(cleanup) = Op("backup", NoFile) /\ Tail(cleanup) = Cleaning
  /\ Cleaning # <<>> /\ Head(Cleaning) = Op("journal", NoFile) /\ Tail(Cleaning) = <<>>
BY DEF cleanup, Cleaning

(* Once regained, the journal is only cleaned up: nobody reads before.     *)
LEMMA RegainedBegins ==
  ASSUME IInv, IInv', Regained, MaxFaults =< 2, NEW p \in Commands, Begin(p)
  PROVE  Regained' /\ shown' = shown
<1>1. UNCHANGED <<files, shown, faults>> /\ run \in [Commands -> Run] /\ run[p].pc = "idle"
  BY Versions DEF Begin, Regained, inDirectory
<1>2. recovery(files) = cleanup
  BY DEF Regained, Concluded, recovery, settled
<1>3. /\ run'[p].pc = "idle" \/ (run'[p].pc = "recover" /\ run'[p].todo = cleanup)
      /\ \A q \in Commands \ {p} : run'[q] = run[q]
  <2>1. CASE Leave(p)
    BY <1>1, <2>1, Idles DEF Leave
  <2>2. CASE ~Leave(p)
    <3>1. PICK kind : run' = [run EXCEPT ![p] = [Idle EXCEPT
            !.pc = "recover", !.kind = kind, !.stamp = commands', !.todo = recovery(files)]]
      BY <2>2 DEF Begin
    <3> QED BY <1>1, <1>2, <3>1 DEF Idle
  <2> QED BY <2>1, <2>2
<1> QED BY <1>1, <1>3 DEF Regained

LEMMA RegainedWrites ==
  ASSUME IInv, IInv', Regained, NEW p \in Commands, Write(p)
  PROVE  (ShownInv \/ Regained)' /\ shown' = shown
<1>1. /\ UNCHANGED <<shown, faults>> /\ run \in [Commands -> Run] /\ run[p].todo # <<>>
      /\ files \in Files
  BY Versions, FromTypes DEF Write
<1>2. holder = p /\ run[p].pc = "recover" /\ run[p].todo \in {cleanup, Cleaning}
  BY <1>1, Holds, Cleanups DEF Regained, Locked
<1>3. /\ run'[p].pc = "recover" /\ run'[p].todo = Tail(run[p].todo)
      /\ \A q \in Commands \ {p} : run'[q] = run[q]
  BY <1>1, <1>2, OvertakesGoto DEF Write
<1>4. PICK j \in Journal :
        /\ j = files.journal /\ j.phase = "prepared" /\ finalState(files, j) /\ shown = j.new
        /\ j # NoFile
  BY <1>1 DEF Regained, Concluded, Files
<1>5. CASE run[p].todo = cleanup
  <2>1. files' = files \/ files' = [files EXCEPT !.backup = NoFile]
    BY <1>5, Cleanups, Fields DEF Write, Renamed, inDirectory
  <2>2. /\ files'.journal = j /\ files'.generation = files.generation
        /\ files'.commit = files.commit /\ files'.catalog = files.catalog
    BY <1>1, <1>4, <2>1 DEF Files
  <2>3. Concluded(shown', files')
    BY <1>1, <1>4, <2>2 DEF Concluded, finalState
  <2>4. Regained'
    BY <1>1, <1>3, <1>5, <2>3 DEF Regained
  <2> QED BY <1>1, <2>4
<1>6. CASE run[p].todo = Cleaning
  <2>1. files' = [files EXCEPT !.journal = NoFile]
    BY <1>4, <1>6, Cleanups, Fields DEF Write, Renamed
  <2>2. files'.journal = NoFile /\ files'.catalog = shown
    BY <1>1, <1>4, <2>1 DEF Files, finalState
  <2>3. Awaited(shown', files')
    BY <1>1, <2>2 DEF Awaited, Follows
  <2>4. \A q \in Commands : run'[q].pc \in {"idle", "recover"}
    BY <1>3 DEF Regained
  <2> QED BY <1>1, <2>3, <2>4, ShownSteps
<1> QED BY <1>2, <1>5, <1>6

LEMMA NextRegained ==
  ASSUME IInv, IInv', Regained, MaxFaults =< 2, [Next]_vars
  PROVE  (ShownInv \/ Regained)' /\ shown' = shown
<1>1. CASE UNCHANGED vars
  BY <1>1 DEF vars, Regained
<1>2. ASSUME NEW h
      PROVE  ~Fault(h)
  BY FaultsCount DEF Regained
<1>3. ASSUME NEW p \in Commands, Command(p)
      PROVE  (ShownInv \/ Regained)' /\ shown' = shown
  <2>1. run[p].pc = "idle" \/ (run[p].pc = "recover" /\ run[p].todo # <<>>)
    BY Cleanups DEF Regained
  <2>2. Begin(p) \/ Write(p)
    BY <1>3, <2>1 DEF Command, Resume, GiveUp, List, Select, Capture, Compare, PublishRefresh,
                     PublishMeasurement, Answer, atEnd
  <2> QED BY <2>2, RegainedBegins, RegainedWrites
<1>4. ~Cut /\ \A p \in Commands : ~WriteFails(p) /\ ~Cancelled(p) /\ ~Kill(p)
  BY <1>2 DEF Cut, WriteFails, Cancelled, Kill
<1> QED BY <1>1, <1>3, <1>4 DEF Next

LEMMA NextShownTwice ==
  ASSUME MaxFaults =< 2, "link" \notin Hazards
  PROVE  IInv /\ IInv' /\ (ShownInv \/ Regained) /\ Lost /\ Lagging /\ [Next]_vars
           => (ShownInv \/ Regained)' /\ Lagging' /\ [Atomic!Next]_shown
<1> SUFFICES ASSUME IInv, IInv', ShownInv \/ Regained, Lost, Lagging, [Next]_vars
             PROVE  (ShownInv \/ Regained)' /\ Lagging' /\ Follows(shown, shown')
  BY FollowsIsNext
<1>1. CASE Regained
  <2>1. (ShownInv \/ Regained)' /\ shown' = shown
    BY <1>1, NextRegained
  <2>2. faults = 2 /\ faults' \in {faults, faults + 1}
    <3>1. faults = 2
      BY <1>1 DEF Regained
    <3>2. faults' \in {faults, faults + 1}
      BY DEF Next, Command, Begin, Resume, GiveUp, List, Select, Capture, Compare,
             PublishRefresh, PublishMeasurement, Write, Answer, WriteFails, Cancelled, Kill, Cut,
             Fault, vars
    <3> QED BY <3>1, <3>2
  <2>3. Lagging'
    BY <2>2 DEF Lagging
  <2> QED BY <2>1, <2>3 DEF Follows
<1>2. CASE ShownInv /\ UNCHANGED vars
  BY <1>2 DEF vars, ShownInv, Lagging, Follows
<1>3. CASE ShownInv /\ Cut
  BY <1>3, CutTwice DEF Follows
<1>4. ASSUME ShownInv, NEW p \in Commands,
             Command(p) \/ WriteFails(p) \/ Cancelled(p) \/ Kill(p)
      PROVE  ShownInv' /\ Lagging' /\ Follows(shown, shown')
  <2>1. ShownInv' /\ Follows(shown, shown')
    BY <1>4, CommandsShown, ShowsNext
  <2> QED BY <1>4, <2>1, CommandLags, FaultLags
<1> QED BY <1>1, <1>2, <1>3, <1>4 DEF Next

LEMMA TwoFaultsAtomic ==
  ASSUME MaxFaults =< 2, "link" \notin Hazards
  PROVE  Spec => CatalogIsAtomic
<1>1. Init => IInv /\ (ShownInv \/ Regained) /\ Lost /\ Lagging /\ Atomic!Init
  <2>1. Init => Lost /\ Lagging
    BY DEF Init, Lost, Lagging
  <2> QED BY <2>1, InitHolds, InitShown
<1>2. IInv /\ (ShownInv \/ Regained) /\ Lost /\ Lagging /\ [Next]_vars
        => (IInv /\ (ShownInv \/ Regained) /\ Lost /\ Lagging)' /\ [Atomic!Next]_shown
  BY NextKeeps, NextKeepsLost, NextShownTwice
<1> QED BY <1>1, <1>2, PTL DEF Spec, CatalogIsAtomic, Atomic!Spec

(* The catalog implements AtomicCatalog: whatever commands race, fail, are *)
(* cancelled or killed between any two of their steps, what readers see    *)
(* one after the other are whole refreshes and whole measurements, each    *)
(* made upon what was seen before, and none is taken back.  A power cut    *)
(* takes none back either, where there were no more than two faults, or no *)
(* error and no kill left a change of the directory unsynced before it.    *)
THEOREM CatalogImplementsAtomic ==
  ASSUME \/ "cut" \notin Hazards \/ {"io", "kill", "link"} \cap Hazards = {}
         \/ MaxFaults =< 2 /\ "link" \notin Hazards
  PROVE  Spec => CatalogIsAtomic
BY LosslessAtomic, TwoFaultsAtomic

================================================================================
