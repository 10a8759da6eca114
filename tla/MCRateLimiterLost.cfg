CONSTANTS
  a1 = a1
  a2 = a2
  a3 = a3
  p1 = p1
  p2 = p2
  google = google
  Attempt = {a1, a2, a3}
  Provider = {google}
  Process = {p1, p2}
  ProviderOf <- MCProviderOf
  Home <- MCHome
  IsAsync <- MCIsAsync
  SharedLimit <- MCSharedLimit
  LocalLimit <- MCLocalOne
  LeaseTTL = 4
  MaxLag = 1
  Delay = {1, 2}
  MaxDelay = 2
  Poll = 1
  MaxCall = 1
  Fault = {}
SPECIFICATION Spec
PROPERTY CooldownMonotonic
CHECK_DEADLOCK FALSE
