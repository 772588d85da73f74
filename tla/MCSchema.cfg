\* Every sequence of five statements, a connection lost once.
SPECIFICATION Spec
CONSTANTS
  Statements <- MCStatements
  LowerCase <- MCLowerCase
  MaxStatements = 5
  MaxLosses = 1
INVARIANTS
  TypeOK
  SchemaKept
CHECK_DEADLOCK FALSE
