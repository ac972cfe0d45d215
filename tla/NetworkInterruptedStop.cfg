SPECIFICATION Spec
CONSTANTS
  i1 = i1
  i2 = i2
  BeforeForwarding <- FullBefore
  AfterForwarding <- FullAfter
  Ids <- OneId
  NoId = NoId
  Uplinks = {"wlan"}
  Flappable <- UplinkRoutesFull
  Tamperable = {}
  Hazards = {"crash"}
  MaxBoots = 1
INVARIANTS JournalStaysValid
CHECK_DEADLOCK FALSE
