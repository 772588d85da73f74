\* Every text of up to six symbols.
SPECIFICATION Spec
CONSTANTS
  Symbols <- MCSymbols
  MaxLength = 6
INVARIANTS
  TypeOK
  TopLevelAgrees
  SpecSplitAgrees
  ParensMatch
CHECK_DEADLOCK FALSE
