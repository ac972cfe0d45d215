SPECIFICATION FairSpec
CONSTANTS
  i1 = i1
  i2 = i2
  BeforeForwarding <- SmallBefore
  AfterForwarding <- SmallAfter
  Ids <- OneId
  NoId = NoId
  Uplinks = {"wlan"}
  Flappable <- UplinkRoutesSmall
  Tamperable = {}
  Hazards = {"crash", "reboot", "flap", "holder", "retire", "forwarding"}
  MaxBoots = 2
PROPERTIES NetworkConverges
CHECK_DEADLOCK FALSE
