CONSTANTS
  Schemas <- MCSchemas
  DenseFeatures <- MCDense
  SparseFeatures <- MCSparse
  VarlenFeatures <- MCVarlen
  Vals <- MCVals
  Idx <- MCIdx
  MaxElems = 1
  MaxRecords = 2
  MaxInitialize = 1
  StreamFaults = FALSE

SPECIFICATION Spec

INVARIANT TypeOK
INVARIANT BindingFollowsSpec
INVARIANT PlanMatchesSchema
INVARIANT RecordRoundTrip
INVARIANT NullErrorNamesColumn
