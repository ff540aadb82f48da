------------------------ MODULE MCSparseFeatureDecoder ------------------------
(***************************************************************************)
(* A rank-2 sparse column (three sub-record fields, so all six field      *)
(* orders of the permutation tests), records of up to two elements (so an *)
(* array can arrive in one block or in two) and a batch of two records (so *)
(* the second record's rows land after the first's, at row offset 1).     *)
(***************************************************************************)
EXTENDS SparseFeatureDecoder

MCRank == 2
MCIdx == {0, 1}
MCVals == {0, 1}
MCMaxElems == 2
MCMaxRecords == 2

================================================================================
