CONSTANTS
  c1 = c1
  c2 = c2
  c3 = c3
  p1 = p1
  run = run
  shared = shared
  Call = {c1, c2, c3}
  Scope = {run, shared}
  NoScope = NoScope
  Process = {p1}
  CountedIn <- BothCounted
  Home <- BothHome
  ScopeOf <- BothScopeOf
  Trace <- BothTrace
  Mode <- BothMode
  Kind <- BothKind
  IsAsync <- BothIsAsync
  Asked <- BothAsked
  MaxBudget <- BothBudget
  Grain = 1
  Budget = {1, 2}
  Reservation = {2}
  Charge = {1}
  MaxCharge = 1
  Cost = {0, 1, 2}
  MaxAttempts = 1
  LeaseTTL = 1
  MaxLag = 0
  MaxTime = 1
  Fault = {"row_store", "crash"}
SPECIFICATION FairSpec
INVARIANTS
  OneCallPerScope
  SequentialWithinBudget
  CustodyEndsWithCall

  
CHECK_DEADLOCK FALSE
