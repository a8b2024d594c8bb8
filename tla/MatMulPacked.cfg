CONSTANTS
  Calls <- Leftovers
  Undefined = Undefined
SPECIFICATION Spec
PROPERTY ImplementsProduct
CHECK_DEADLOCK FALSE
