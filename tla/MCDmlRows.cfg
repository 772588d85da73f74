SPECIFICATION Spec
CONSTANTS
  Statements <- MCStatements
  Targets <- MCTargets
INVARIANT EveryRowKept
CHECK_DEADLOCK FALSE
