\* Every hazard but slow acknowledgements and kills at the end of an abort:
\* one kill of whoever holds the lock, at any other step, and one death of
\* the gateway.
SPECIFICATION FairSpec
CONSTANTS
  Selections <- MCSelections
  Tokens <- MCTokens
  Hazards = {"cancel", "io", "dns", "unserved"}
  MaxCrashes = 1
  MaxDeaths = 1
INVARIANT SelectionAgrees
PROPERTIES ApplyIsAtomic SelectionSettles
CHECK_DEADLOCK FALSE
