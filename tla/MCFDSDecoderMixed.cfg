CONSTANTS
  Schemas <- MixedSchemas
  DenseFeatures <- MixedDense
  SparseFeatures <- MixedSparse
  VarlenFeatures <- MixedVarlen
  Vals <- MixedVals
  Idx <- MixedIdx
  MaxElems = 2
  MaxRecords = 1
  MaxInitialize = 1
  StreamFaults = FALSE

SPECIFICATION Spec

INVARIANT RecordRoundTrip
