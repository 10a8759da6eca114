CONSTANTS
  c1 = c1
  c2 = c2
  c3 = c3
  p1 = p1
  p2 = p2
  run = run
  Call = {c1, c2, c3}
  Scope = {run}
  NoScope = NoScope
  Process = {p1}
  CountedIn <- MCCounted
  Home <- SeqHome
  ScopeOf <- MCScopeOf
  Trace <- SeqTrace
  Mode <- SeqMode
  Kind <- MCKind
  IsAsync <- MCIsAsync
  Asked <- SeqAsked
  MaxBudget <- SeqBudget
  Grain = 1
  Budget = {2}
  Reservation = {2}
  Charge = {1}
  MaxCharge = 1
  Cost = {0, 1, 2}
  MaxAttempts = 2
  LeaseTTL = 1
  MaxLag = 0
  MaxTime = 0
  Fault = {"raise_early"}
SPECIFICATION Spec
INVARIANTS
  CustodyEndsWithCall
CHECK_DEADLOCK FALSE
