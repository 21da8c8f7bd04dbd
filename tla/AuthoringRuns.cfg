\* Projects that are loaded, validated, selected from and run: what the static checks promise.
SPECIFICATION Spec
CONSTANTS
  Factories <- MCFactories
  BadConfigs <- MCBadConfigs
  Tags <- MCTags
  Families <- MCFamilies
  Exprs <- MCExprs
  ExprHeight <- MCExprHeight
  Steps <- MCSteps
  StepHeight <- MCStepHeight
INVARIANTS
  ValidatedReadsResolve
  RejectedForAReason
  DryRunMutatesNothing
  OutputAsValidated
  SelectionAgrees
\* A command comes to its end.
CHECK_DEADLOCK FALSE
