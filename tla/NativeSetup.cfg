SPECIFICATION FairSpec
CONSTANTS
  Hazards = {"abort", "io", "kill", "cancel", "edit", "cut"}
  MaxChanges = 1
  Packages <- SomePackages
  Contract <- OneBreak
  Installed <- FirstOrNone
  MaxSetups = 2
  MaxFaults = 2
INVARIANTS TypeOK PairAgrees PackageSafe
PROPERTIES ConfigStable ForeignKept SetupEnds
CHECK_DEADLOCK FALSE
