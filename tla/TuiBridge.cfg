SPECIFICATION FairSpec
CONSTANTS
  Requests <- SomeRequests
  Asked <- SomeAsked
  Hazards = {"fail", "signal", "busy", "fork", "timeout", "abandon"}
  MaxFaults = 2
  Pipe = 1
  MaxReconnects = 1
INVARIANTS TypeOK ChangesAlone QuietAfterAnswer
PROPERTIES ReplyShowsChange CancelSettles
CHECK_DEADLOCK FALSE
