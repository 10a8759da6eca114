CONSTANTS
  MaxTurns = 4
  MaxToolCalls = 2
  StagnationTurns = 2
  ChurnTurns = 2
  StallTurns = 2
  ForcedAttempts = 2
  BreakerAt = 2
  MaxAgentTurns = 4
  ErrorsPerModel = 2
  MaxErrors = 3
  Modes <- SmallModes
  Asked <- Turns
SPECIFICATION Spec
INVARIANTS
  AcceptedSubmitKept
  HonestCompletion
PROPERTIES
  SubmitNeedsProgress
  SuppressedOnlyWithoutProgress
CHECK_DEADLOCK FALSE
