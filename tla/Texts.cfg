\* Every cut into reads of one to three: of every stream of seven bytes, of every
\* body of up to five.  One edit of a value file or a schema, two calls of a function,
\* three computed keys.  Every text comes to an end.
SPECIFICATION Spec
CHECK_DEADLOCK FALSE
INVARIANTS CutsDoNotShow SwappedWhole EditReadsBack SchemaReadsBack HookHolds
  HiddenIsMarked OrderDoesNotMatter
PROPERTY CallsReadBack
