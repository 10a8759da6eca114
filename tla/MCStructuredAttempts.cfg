CONSTANTS
  Models = 2
  MaxRetries = 1
  Offers <- MCOffers
  Schema <- MCSchema
  Option <- MCOption
  Fault = {"store", "artifact", "price", "setup", "on_error", "on_retry", "on_fallback", "after_call", "route", "cancel"}
  MaxRaised = 1
SPECIFICATION FairSpec
INVARIANTS
  TypeOK
  ReceiptAccepted
  CoverageIsExact
  
PROPERTIES
  ValidatedIsFinal
  DecisionKept
  CallEnds
CHECK_DEADLOCK FALSE
