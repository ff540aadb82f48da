----------------------------- MODULE MCFDSDecoderMixed -----------------------------
(***************************************************************************)
(* The FDS decoder over the schema of TEST(FDSDecoder, TestMixedFeatures)  *)
(* (spec section 8, scenario 6): dense float [3] and long [2, 2] columns,  *)
(* sparse int rank 1 and string rank 2 columns, varlen bool rank 1 and     *)
(* string rank 2 columns, and three unused columns (a float rank-2 array, *)
(* a double sparse record, a bool) among them, with the test's tensor,    *)
(* indices and values slots.  The rank-2 sparse column comes in the        *)
(* builder's default field order and in [indices1, values, indices0].     *)
(***************************************************************************)
EXTENDS FDSDecoder

MixedDense ==
  << [type |-> "dense", name |-> "dense_float_1d", dtype |-> "float", rank |-> 1,
      shape |-> <<3>>, tensor_index |-> 0],
     [type |-> "dense", name |-> "dense_long_2d", dtype |-> "long", rank |-> 2,
      shape |-> <<2, 2>>, tensor_index |-> 1] >>

MixedSparse ==
  << [type |-> "sparse", name |-> "sparse_int_1d", dtype |-> "int", rank |-> 1,
      indices_index |-> 0, values_index |-> 0],
     [type |-> "sparse", name |-> "sparse_string_2d", dtype |-> "string", rank |-> 2,
      indices_index |-> 1, values_index |-> 0] >>

MixedVarlen ==
  << [type |-> "varlen", name |-> "varlen_bool_1d", dtype |-> "bool", rank |-> 1,
      indices_index |-> 2, values_index |-> 0],
     [type |-> "varlen", name |-> "varlen_string_2d", dtype |-> "string", rank |-> 2,
      indices_index |-> 3, values_index |-> 1] >>

MixedRoot(order) ==
  FDSRecord(<< AddDenseFeature("dense_float_1d", "float", 1),
               AddDenseFeature("dense_long_2d", "long", 2),
               AddDenseFeature("unused_dense", "float", 2),
               Column("sparse_int_1d", SparseNode("sparse_int_1d", "int", DefaultOrder(1))),
               Column("unsed_sparse", SparseNode("unsed_sparse", "double", DefaultOrder(1))),
               Column("sparse_string_2d", SparseNode("sparse_string_2d", "string", order)),
               AddDenseFeature("unused_varlen", "bool", 0),
               AddDenseFeature("varlen_bool_1d", "bool", 1),
               AddDenseFeature("varlen_string_2d", "string", 2) >>)

MixedSchemas == { MixedRoot(o) : o \in {DefaultOrder(2), <<1, 2, 0>>} }

MixedVals == {0}
MixedIdx == {0, 1}
================================================================================
