\* The adaptation matrix says that extensions are patched in mixed batches.
SPECIFICATION Spec
CONSTANTS
  Inputs <- CommentedInputs
  Columns = {"a", "b"}
INVARIANT ExtensionsPatched
\* The batch is complete.
CHECK_DEADLOCK FALSE
