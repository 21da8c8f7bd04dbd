\* An iteration that stops a background, starts it again and then fails.
CONSTANTS
  Bodies = {"section", "outer", "inner"}
  Root = "section"
  BgNames = {"gen", "net"}
  Programs <- RestartPrograms
  MaxGates = 1
SPECIFICATION Spec
INVARIANT NoLeakPastAbort
CHECK_DEADLOCK FALSE
