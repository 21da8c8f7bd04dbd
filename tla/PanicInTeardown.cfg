\* A verb that panics during teardown, against executor.go's promise.
CONSTANTS
  Scenarios <- MCScenarios
  BgNames = {"b1", "b2"}
SPECIFICATION Spec
INVARIANT NeverUnwinds
CHECK_DEADLOCK FALSE
