CONSTANTS
  BatchesS8 = {2}
  BatchesS16 = {}
  Accumulate <- MCAccumulate
  Activate <- MCActivate
  Scale <- MCScale
  ScaleAdd <- MCScaleAdd
  Tanh <- MCTanh
  Product <- MCProduct
  Layers <- MCLayers
  Samples <- MCSamples
  Zero = Zero
  NULL = NULL
  Undefined = Undefined
SPECIFICATION Spec
INVARIANT EveryBatchStored
