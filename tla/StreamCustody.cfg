CONSTANTS
  Interval = {0, 2}
  Threshold = {0, 3}
  MaxLost = 2
  MaxRows = 2
  Fault = {"plan", "hook", "ledger", "interrupt", "slow"}
SPECIFICATION FairSpec
INVARIANTS
  
  QuietAfterEnd
PROPERTIES
  GivesBack
  StallReported
CHECK_DEADLOCK FALSE
