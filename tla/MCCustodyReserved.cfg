CONSTANTS
  c1 = c1
  c2 = c2
  c3 = c3
  p1 = p1
  p2 = p2
  run = run
  Call = {c1, c2}
  Scope = {run}
  NoScope = NoScope
  Process = {p1, p2}
  CountedIn <- MCCounted
  Home <- MCHome
  ScopeOf <- MCScopeOf
  Trace <- MCTrace
  Mode <- MCReserved
  Kind <- MCKind
  IsAsync <- MCIsAsync
  Asked <- MCAsked
  MaxBudget <- MCBudget
  Grain = 2
  Budget = {3}
  Reservation = {2}
  Charge = {2}
  MaxCharge = 2
  Cost = {0, 1, 2, 3, 4}
  MaxAttempts = 2
  LeaseTTL = 2
  MaxLag = 0
  MaxTime = 3
  Fault = {"raise_early", "raise_late", "interrupt", "ledger_store", "row_store", "crash"}
SPECIFICATION Spec
INVARIANTS
  ChargesWithinCap
  ResultMeansSettled
  
PROPERTIES
  ImplementsLedger
CHECK_DEADLOCK FALSE
