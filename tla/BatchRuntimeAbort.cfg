CONSTANTS
  Items = 4
  MaxConcurrent = 2
  Window = 2
  Error = {e1, e2}
  Fault = {}
SPECIFICATION Spec
PROPERTIES
  AbortStopsTheRest
CHECK_DEADLOCK FALSE
