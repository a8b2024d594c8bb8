CONSTANTS
  Layers <- MCLayers
  Undefined = Undefined
SPECIFICATION Spec
INVARIANTS TypeOK ColumnsFit ReturnsComplete
PROPERTIES ImplementsTransposed BuffersSuffice
CHECK_DEADLOCK FALSE
