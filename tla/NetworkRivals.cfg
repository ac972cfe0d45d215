SPECIFICATION Spec
CONSTANTS
  i1 = i1
  i2 = i2
  BeforeForwarding <- SmallBefore
  AfterForwarding <- SmallAfter
  Ids <- TwoIds
  NoId = NoId
  Uplinks = {"wlan", "lan"}
  Flappable <- UplinkRoutesSmall
  Tamperable = {"UnreachableRule"}
  Hazards = {"crash", "tamper", "replace", "holder", "uplink"}
  MaxBoots = 1
SYMMETRY IdSymmetry
INVARIANTS OwnedEffectsAreLedgered
PROPERTIES ForeignIdentityUntouched ConflictFreezesCleanup HeldNamespaceSurvivesStop
CHECK_DEADLOCK FALSE
