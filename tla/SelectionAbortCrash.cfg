\* An apply that is undone, and killed while it closes its journal.
SPECIFICATION Spec
CONSTANTS
  Selections <- MCSelections
  Tokens <- MCTokens
  Hazards = {"cancel", "abortkill"}
  MaxCrashes = 1
  MaxDeaths = 0
INVARIANT SelectionAgrees
CHECK_DEADLOCK FALSE
