\* Every scenario of MCScenario under every option: safety and termination.
CONSTANTS
  Scenarios <- MCScenarios
  BgNames = {"b1", "b2"}
SPECIFICATION FairSpec
INVARIANTS
  TypeOK
  VerdictFollowsTable
  PassedRanEverything
  FaultsOnlyWhenHealthy
  StopsAtFirstFailure
  TeardownAlwaysRuns
  TimelineBackgroundsStopped
  ResultIsReduction
PROPERTY EventuallyOver
\* A finished or crashed scenario takes no further step.
CHECK_DEADLOCK FALSE
