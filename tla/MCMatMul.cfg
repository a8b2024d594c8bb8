CONSTANTS
  Calls <- AllRows
  Undefined = Undefined
SPECIFICATION Spec
INVARIANTS TypeOK WordAccess PairReads ReturnsComplete
PROPERTIES ImplementsSupported Completes
CHECK_DEADLOCK FALSE
