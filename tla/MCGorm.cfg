\* Two handles share rows for five steps; every combination of connection options.
SPECIFICATION Spec
CONSTANTS
  Handles = {"h1", "h2"}
  Rows = {1, 2}
  Assignments <- MCAssignments
  Plains <- MCPlains
  PrefixedPlains <- MCPrefixedPlains
  Prefixing <- MCPrefixing
  Ports <- MCPorts
  UrlHost <- MCUrlHost
  LowerKey <- MCLowerKey
  MaxSteps = 5
INVARIANTS
  TypeOK
  OptionsSurvive
  NeverPlainStored
  ReadBack
CHECK_DEADLOCK FALSE
