CONSTANTS
  Layers <- MCLayers
  Layers1x1 <- MCLayers1x1
  Shapes = "tall_filter"
  Builds = {"vector"}
  Undefined = Undefined
SPECIFICATION Spec
PROPERTY ImplementsConvolution
CHECK_DEADLOCK FALSE
