\* Repeats and backgrounds of one runner, with and without dry-run.
CONSTANTS
  Bodies = {"section", "outer", "inner"}
  Root = "section"
  BgNames = {"gen", "net"}
  Programs <- RepeatPrograms
  MaxGates = 2
SPECIFICATION FairSpec
INVARIANTS
  HandlesOwnTasks
  NothingOutlives
  NoLeakPastAbort
  FlushedAtJoin
  RepeatIsHonest
  FailFast
PROPERTY EventuallyOver
\* A section that is over takes no further step.
CHECK_DEADLOCK FALSE
