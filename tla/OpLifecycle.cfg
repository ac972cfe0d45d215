SPECIFICATION FairSpec
CONSTANTS
  Children <- OneChild
  Helpers <- TwoHelpers
  Hazards = {"kill", "interrupt", "detach", "stuck", "reuse", "unwritable"}
  MaxTimeouts = 1
INVARIANTS TypeOK ReturnMeansClosed
PROPERTIES SignalsStayOwn ReapedAfterDrain SettledWhenGone CancelReturns
CHECK_DEADLOCK FALSE
