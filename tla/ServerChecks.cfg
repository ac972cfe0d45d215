SPECIFICATION FairSpec
CONSTANTS
  w1 = w1
  w2 = w2
  tcp = tcp
  quic = quic
  last = last
  Batch <- ThreeServers
  Quic <- OneQuic
  Workers <- TwoWorkers
  NoOne = NoOne
  Main = Main
  MaxFaults = 1
  Hazards = {"cancel", "io", "kill", "rival"}
INVARIANTS TypeOK FramesAccepted
PROPERTIES CompletedIsPublished ChecksEnd
CHECK_DEADLOCK FALSE
