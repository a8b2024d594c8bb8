CONSTANTS
  Layers <- MCLayers
  Shapes = "blocks_leftover"
  Builds = {"vector"}
  CH_IN_BLOCK_MVE = 4
  VLMAX = 3
  Undefined = Undefined
SPECIFICATION Spec
PROPERTY ImplementsDepthwise
CHECK_DEADLOCK FALSE
