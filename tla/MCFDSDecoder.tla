-------------------------------- MODULE MCFDSDecoder --------------------------------
(***************************************************************************)
(* The FDS decoder over the schemas of the unit tests: a dense long column *)
(* "d" of shape [2], an unused long column "u" (an unnamed type), a sparse *)
(* string column "s" of rank 1, a varlen bool column "v" of rank 1 and an  *)
(* unused record column "r" (a named type).  The sparse column comes in    *)
(* both sub-record field orders, plain or inside the unions [null, S],     *)
(* [S, null] and [S]; one schema makes the varlen column [null, V]; four  *)
(* more schemas each break Initialize in one way.                         *)
(***************************************************************************)
EXTENDS FDSDecoder

MCDense  == << [type |-> "dense", name |-> "d", dtype |-> "long", rank |-> 1,
                shape |-> <<2>>, tensor_index |-> 0] >>
MCSparse == << [type |-> "sparse", name |-> "s", dtype |-> "string", rank |-> 1,
                indices_index |-> 0, values_index |-> 0] >>
MCVarlen == << [type |-> "varlen", name |-> "v", dtype |-> "bool", rank |-> 1,
                indices_index |-> 1, values_index |-> 0] >>

UNode == PrimNode("long")
VNode == ArrayNode("bool", 1)
RNode == RecordNode("r_t", << Column("x", PrimNode("long")) >>)
SNode(order) == SparseNode("s", "string", order)

DColumn == AddDenseFeature("d", "long", 1)

VColumn == AddDenseFeature("v", "bool", 1)

Root3(dcol, scol, vcol) ==
  FDSRecord(<< dcol, AddOpaqueContextualFeature("u", UNode), scol,
               vcol, AddOpaqueContextualFeature("r", RNode) >>)

Root(dcol, scol) == Root3(dcol, scol, VColumn)

(* The sparse columns Initialize accepts.                                  *)
GoodSparse ==
  { Column("s", SNode(o)) : o \in {DefaultOrder(1), <<1, 0>>} }
  \cup { BuildNullableFeatureSchema("s", SNode(DefaultOrder(1))),
         Column("s", UnionNode(<<SNode(<<1, 0>>), NullNode>>)),
         Column("s", UnionNode(<<SNode(DefaultOrder(1))>>)) }

(* One schema for each error Initialize may return.                        *)
BadSchemas ==
  { ArrayNode("long", 1),
    FDSRecord(<< DColumn, Column("s", SNode(DefaultOrder(1))) >>),
    Root(AddDenseFeature("d", "long", 2), Column("s", SNode(DefaultOrder(1)))),
    Root(DColumn, Column("s", UnionNode(<<NullNode, SNode(DefaultOrder(1)), NullNode>>))) }

(* A nullable varlen column after the sparse one: a null read there       *)
(* abandons a record whose sparse rows are already written.               *)
NullableVarlen ==
  Root3(DColumn, Column("s", SNode(DefaultOrder(1))), BuildNullableFeatureSchema("v", VNode))

MCSchemas == { Root(DColumn, s) : s \in GoodSparse } \cup {NullableVarlen} \cup BadSchemas

(* A union of two non-null branches, which the spec rejects.               *)
MCSchemasNoNull ==
  MCSchemas \cup { Root(DColumn, Column("s", UnionNode(<<SNode(DefaultOrder(1)), VNode>>))) }

(* The plain sparse column in both field orders, so that the stream may   *)
(* end in the values array before or after the indices array.             *)
MCSchemasPlain == { Root(DColumn, Column("s", SNode(o))) : o \in {DefaultOrder(1), <<1, 0>>} }

MCVals == {0, 1}
MCOneVal == {0}
MCIdx == {0, 1}
================================================================================
