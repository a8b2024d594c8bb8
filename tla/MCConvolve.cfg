CONSTANTS
  Layers <- MCLayers
  Layers1x1 <- MCLayers1x1
  Shapes = "fitting"
  Builds = {"scalar", "vector"}
  Undefined = Undefined
SPECIFICATION Spec
INVARIANTS TypeOK ScratchFits ReturnsComplete
PROPERTIES ImplementsConvolution SizedLayerCompletes
CHECK_DEADLOCK FALSE
