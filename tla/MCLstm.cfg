CONSTANTS
  BatchesS8 = {1}
  BatchesS16 = {1, 2, 3}
  Accumulate <- MCAccumulate
  Activate <- MCActivate
  Scale <- MCScale
  ScaleAdd <- MCScaleAdd
  Tanh <- MCTanh
  Product <- MCProduct
  Layers <- MCLayers
  Samples <- MCSamples
  Zero = Zero
  NULL = NULL
  Undefined = Undefined
SPECIFICATION Spec
INVARIANTS TypeOK RowsInside
PROPERTY ImplementsRecurrence
