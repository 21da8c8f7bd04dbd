\* Nested blocks under every schedule, the cap within reach of some schedules.
CONSTANTS
  Runners = {0, 1, 2, 3, 4, 5}
  Root = 0
  Names = {"x", "y"}
  BgNames = {"load", "churn"}
  Programs <- TreePrograms
  maxLiveBranches = 3
SPECIFICATION FairSpec
INVARIANTS
  LiveBranchesCapped
  LimiterCountsBranches
  BarrierHolds
  HandlesReachable
  ResultIsReduction
  CapturesVisible
PROPERTIES
  Deterministic
  EventuallyOver
\* A section that is over takes no further step.
CHECK_DEADLOCK FALSE
