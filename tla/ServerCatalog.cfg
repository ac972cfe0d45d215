SPECIFICATION Spec
CONSTANTS
  c1 = c1
  c2 = c2
  a = a
  b = b
  Commands <- TwoCommands
  Servers <- TwoServers
  Pipelines <- TwoKinds
  NoFile = NoFile
  MaxCommands = 3
  MaxFaults = 2
  Hazards = {"io", "cancel", "kill", "cut", "reorder"}
SYMMETRY Alike
INVARIANTS TypeOK Recoverable
PROPERTIES CatalogIsAtomic SelectionWins
CHECK_DEADLOCK FALSE
