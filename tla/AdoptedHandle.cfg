\* A background started in a branch under a name that is live in the parent.
CONSTANTS
  Runners = {0, 1, 2, 3, 4, 5}
  Root = 0
  Names = {"x", "y"}
  BgNames = {"load", "churn"}
  Programs <- RestartPrograms
  maxLiveBranches = 4
SPECIFICATION Spec
INVARIANT HandlesReachable
CHECK_DEADLOCK FALSE
