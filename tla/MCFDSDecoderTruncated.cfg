CONSTANTS
  Schemas <- MCSchemasPlain
  DenseFeatures <- MCDense
  SparseFeatures <- MCSparse
  VarlenFeatures <- MCVarlen
  Vals <- MCOneVal
  Idx <- MCIdx
  MaxElems = 2
  MaxRecords = 3
  MaxInitialize = 1
  StreamFaults = TRUE

SPECIFICATION Spec

INVARIANT RecordRoundTrip
