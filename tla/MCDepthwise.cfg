CONSTANTS
  Layers <- MCLayers
  Shapes = "blocks_flushed"
  Builds = {"scalar", "packed", "vector"}
  CH_IN_BLOCK_MVE = 4
  VLMAX = 3
  Undefined = Undefined
SPECIFICATION Spec
INVARIANTS TypeOK ReturnsComplete
PROPERTIES ImplementsDepthwise SizedLayerCompletes
CHECK_DEADLOCK FALSE
