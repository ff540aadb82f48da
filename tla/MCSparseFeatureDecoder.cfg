CONSTANTS
  Rank <- MCRank
  Idx <- MCIdx
  Vals <- MCVals
  MaxElems <- MCMaxElems
  MaxRecords <- MCMaxRecords

SPECIFICATION Spec

INVARIANT TypeOK

PROPERTY ImplementsSparseColumn
