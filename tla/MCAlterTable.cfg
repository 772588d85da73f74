\* Every order of up to three clauses, of four where they depend on each other.
SPECIFICATION Spec
CONSTANTS
  Inputs <- AllInputs
  Columns = {"a", "b"}
INVARIANTS
  TypeOK
  OrderKept
  NothingLost
  KeysAlone
  ForeignKeysSplit
  ConditionKept
\* The batch is complete.
CHECK_DEADLOCK FALSE
