SPECIFICATION Spec
CONSTANTS
  Statements <- MCStatements
  Targets <- MCTargets
INVARIANTS
  TypeOK
  StatementKept
CHECK_DEADLOCK FALSE
