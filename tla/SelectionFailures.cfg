\* An apply, a recovery and the DNS watchdog fail in every way; the gateway
\* may die twice, but nothing that recovers a transaction is killed.
SPECIFICATION Spec
CONSTANTS
  Selections <- MCSelections
  Tokens <- MCTokens
  Hazards = {"slow", "cancel", "io", "dns", "unserved"}
  MaxCrashes = 0
  MaxDeaths = 2
INVARIANTS TypeOK
PROPERTIES RuntimeProved
CHECK_DEADLOCK FALSE
