CONSTANTS
  a1 = a1
  a2 = a2
  b1 = b1
  la = la
  lb = lb
  p1 = p1
  p2 = p2
  w1 = w1
  Session = {a1, a2, b1}
  Lane = {la, lb}
  NoLane = NoLane
  NoClaim = NoClaim
  NoProjection = NoProjection
  Worktree = {w1}
  AgentOf <- MCAgentOf
  Plan = {p1, p2}
  WorktreeOf <- MCWorktreeOf
  Path <- MCPath
  Root <- MCRoot
  Shape <- MCShape
  AllowParallel = FALSE
  MaxWrites = 3
  MaxPending = 1
  MayFail = TRUE
SPECIFICATION Spec
INVARIANTS
  TypeOK
  HeldLanesCompatible
  GateAllowsOwner
PROPERTIES
  CloseSparesSiblings
SYMMETRY Alike
CHECK_DEADLOCK FALSE
