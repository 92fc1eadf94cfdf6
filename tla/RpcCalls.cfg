\* The generated stubs against the generated handlers, one lane.
CONSTANTS
  Ops <- MCOps
  Followers <- MCFollowers
  Ids = {2, 4}

SPECIFICATION Spec

INVARIANTS
  TypeOK
  FieldsLineUp
  NeverMisread
  NothingLeftOver

PROPERTIES
  CallReturns
