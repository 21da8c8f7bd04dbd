\* A finding: step whose check cannot be evaluated.
CONSTANTS
  Scenarios <- MCScenarios
  BgNames = {"b1", "b2"}
SPECIFICATION Spec
INVARIANT FindingsAreEvaluated
CHECK_DEADLOCK FALSE
