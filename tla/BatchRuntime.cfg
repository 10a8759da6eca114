CONSTANTS
  Items = 4
  MaxConcurrent = 2
  Window = 2
  Error = {e1, e2}
  Fault = {"timeout", "on_complete", "on_error", "cancel"}
SPECIFICATION FairSpec
INVARIANTS
  PermitsConserved
  AbortMeansStagnation
PROPERTIES
  BatchEnds
CHECK_DEADLOCK FALSE
