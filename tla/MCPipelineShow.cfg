\* The adaptation matrix says that other SHOW filters are rejected.
SPECIFICATION Spec
CONSTANTS
  Texts <- ShowTexts
  InputDialects = {"mysql"}
  TargetDialects = {"postgres"}
INVARIANT FilterKeptOrRejected
\* A translation ends.
CHECK_DEADLOCK FALSE
