----------------------------- MODULE AtomicCatalog -----------------------------
(***************************************************************************)
(* What the catalog of servers promises to those who read it: each change  *)
(* is one whole refresh, under a new generation, or one whole measurement  *)
(* of some of its servers, made upon the catalog they saw before; nothing  *)
(* shown is ever taken back.  A row holds, for each kind of measurement,   *)
(* the number of the command that made it, or 0.                           *)
(***************************************************************************)
EXTENDS Naturals

CONSTANTS Servers, Pipelines, Stamps, NoCatalog

VARIABLE catalog

Rows == [Pipelines -> Stamps \cup {0}]
Catalogs(generations) ==
  [generation : generations, rows : UNION {[S -> Rows] : S \in (SUBSET Servers) \ {{}}}]

Init == catalog = NoCatalog

Refresh ==
  /\ catalog' # NoCatalog
  /\ catalog # NoCatalog => catalog'.generation > catalog.generation

(* Newer than what it replaces, and of one kind.                           *)
Measure(k, stamp) ==
  /\ catalog # NoCatalog
  /\ \E ids \in SUBSET DOMAIN catalog.rows :
       /\ \A s \in ids : catalog.rows[s][k] < stamp
       /\ catalog' = [catalog EXCEPT !.rows =
            [s \in DOMAIN @ |-> IF s \in ids THEN [@[s] EXCEPT ![k] = stamp] ELSE @[s]]]

Next == Refresh \/ \E k \in Pipelines, stamp \in Stamps : Measure(k, stamp)

Spec == Init /\ [][Next]_catalog
================================================================================
