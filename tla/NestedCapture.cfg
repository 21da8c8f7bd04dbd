\* A capture bound in a block inside a branch, used after the outer block.
CONSTANTS
  Runners = {0, 1, 2, 3, 4, 5}
  Root = 0
  Names = {"x", "y"}
  BgNames = {"load", "churn"}
  Programs <- DeepPrograms
  maxLiveBranches = 4
SPECIFICATION Spec
INVARIANT CapturesVisible
CHECK_DEADLOCK FALSE
