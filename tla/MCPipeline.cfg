\* Every form of statement the pipeline tells apart, every pair of dialects.
SPECIFICATION Spec
CONSTANTS
  Texts <- MCTexts
  InputDialects <- InputNames
  TargetDialects <- AllDialects
INVARIANTS
  TypeOK
  UnadaptedRejected
  ShowAndSetNeverRaw
  FilterKept
  ScopeKept
  SupportedIsRendered
\* A translation ends.
CHECK_DEADLOCK FALSE
