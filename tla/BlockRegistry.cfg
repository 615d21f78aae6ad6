SPECIFICATION Spec
CONSTANTS
  base = base
  im = im
  ct = ct
  l1 = l1
  l2 = l2
  NoId = NoId
  NoConfig = NoConfig
  Calls = {k1, k2}
  Images <- MCImages
  Containers <- MCContainers
  Layers <- MCLayers
  Remote <- MCRemote
  Outputs <- MCOutputs
  Sealed <- MCSealed
  Manifest <- MCManifest
INVARIANTS Whole CollectsAll
PROPERTY ImplementsStore
SYMMETRY MCSymmetry
