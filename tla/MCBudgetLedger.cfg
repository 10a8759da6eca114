CONSTANTS
  c1 = c1
  c2 = c2
  c3 = c3
  run = run
  sub = sub
  Call = {c1, c2, c3}
  Scope = {run, sub}
  NoScope = NoScope
  CountedIn <- MCCountedIn
  Grain = 2
  Budget = {5, 7}
  Reservation = {1, 3}
  Cost = {3}
  LeaseTTL = 1
  MaxLag = 1
  MaxTime = 2
SPECIFICATION Spec
SYMMETRY Symmetry
INVARIANTS
  TypeOK
  CommittedWithinCap
  SpendWithinCap
  
PROPERTIES
  EndedIsFinal
  ImplementsGate
CHECK_DEADLOCK FALSE
