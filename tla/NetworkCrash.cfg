SPECIFICATION Spec
CONSTANTS
  i1 = i1
  i2 = i2
  BeforeForwarding <- FullBefore
  AfterForwarding <- FullAfter
  Ids <- OneId
  NoId = NoId
  Uplinks = {"wlan"}
  Flappable <- UplinkRoutesFull
  Tamperable = {}
  Hazards = {"crash", "reboot", "flap", "legacy"}
  MaxBoots = 2
INVARIANTS TypeOK LedgerInv
PROPERTIES MutationsAreLedgered NeverUnbarred StartedIsReady
CHECK_DEADLOCK FALSE
