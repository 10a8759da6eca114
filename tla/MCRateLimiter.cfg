CONSTANTS
  a1 = a1
  a2 = a2
  a3 = a3
  p1 = p1
  p2 = p2
  google = google
  Attempt = {a1, a2, a3}
  Provider = {google}
  Process = {p1, p2}
  ProviderOf <- MCProviderOf
  Home <- MCHome
  IsAsync <- MCIsAsync
  SharedLimit <- MCSharedLimit
  LocalLimit <- MCLocalOne
  LeaseTTL = 3
  MaxLag = 1
  Delay = {1}
  MaxDelay = 1
  Poll = 1
  MaxCall = 1
  Fault = {"cancel", "store", "crash"}
SPECIFICATION FairSpec
INVARIANTS
  TypeOK
  
  PermitsAccounted
PROPERTIES
  WaitersServed
CHECK_DEADLOCK FALSE
