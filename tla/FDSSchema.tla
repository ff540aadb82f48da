---------------------------------- MODULE FDSSchema ----------------------------------
(***************************************************************************)
(* Avro schema nodes in the dialect the FDS decoder reads (spec section    *)
(* 6), the nodes FDSSchemaBuilder builds for the tests, and the check and  *)
(* construction that bind a carrier node to a feature's metadata.          *)
(*                                                                         *)
(* A node is a record with a kind: "null", "prim" (with its dtype),        *)
(* "array" (with its items), "union" (with its leaves, in branch order) or *)
(* "record" (with its type name and its fields [name |-> n, node |-> m]).  *)
(* Only records are Avro named types here, so only they have a name.       *)
(* Metadata is a record with the feature's type ("dense", "sparse" or      *)
(* "varlen"), name, dtype, rank and its tensor or buffer slots.            *)
(***************************************************************************)
EXTENDS Integers, Sequences, SequencesExt, SparseInternalDecoder

NullNode == [kind |-> "null"]
PrimNode(dtype) == [kind |-> "prim", dtype |-> dtype]
UnionNode(leaves) == [kind |-> "union", leaves |-> leaves]
RecordNode(name, fields) == [kind |-> "record", name |-> name, fields |-> fields]
Column(name, node) == [name |-> name, node |-> node]

(* node->hasName()                                                         *)
HasName(node) == node.kind = "record"

(* FDSSchemaBuilder::GenerateArrayType: rank nested arrays of dtype.       *)
RECURSIVE ArrayNode(_, _)
ArrayNode(dtype, rank) ==
  IF rank = 0 THEN PrimNode(dtype)
  ELSE [kind |-> "array", items |-> ArrayNode(dtype, rank - 1)]

(* FDSSchemaBuilder::AddSparseFeature: the sparse sub-record for a field   *)
(* order, values an array of dtype, every indicesK an array of long.       *)
SparseNode(name, dtype, order) ==
  RecordNode(name,
    [i \in DOMAIN order |->
       LET f == SubRecordFields(order)[i]
       IN  Column(f, IF f = ValuesField THEN ArrayNode(dtype, 1) ELSE ArrayNode("long", 1))])

(***************************************************************************)
(* The rest of FDSSchemaBuilder.  A builder holds the features added so    *)
(* far, in order: the constructor starts the FeaturizedDataset record with *)
(* none, AddFeature puts a feature after them, Build closes the record.    *)
(* The JSON text and its separators are left out.  A feature is a dense    *)
(* (or varlen) feature as rank nested arrays, a sparse feature in the      *)
(* default field order 0..rank (values last), a column of any given type,  *)
(* or a nullable ["null", type] column.                                    *)
(***************************************************************************)
NewBuilder == <<>>

AddFeature(builder, feature) == Append(builder, feature)

Build(builder) == RecordNode("FeaturizedDataset", builder)

(* A test's chain FDSSchemaBuilder().Add...(f1)...Add...(fn).Build().       *)
FDSRecord(columns) == Build(FoldLeft(AddFeature, NewBuilder, columns))

AddDenseFeature(name, dtype, rank) == Column(name, ArrayNode(dtype, rank))

DefaultOrder(rank) == [i \in 1..(rank + 1) |-> i - 1]

AddOpaqueContextualFeature(name, node) == Column(name, node)

BuildNullableFeatureSchema(name, node) == Column(name, UnionNode(<<NullNode, node>>))

(* root_node->nameIndex(name, pos): the field's position, 0 when absent.   *)
NameIndex(root, name) ==
  IF \E p \in DOMAIN root.fields : root.fields[p].name = name
    THEN CHOOSE p \in DOMAIN root.fields : root.fields[p].name = name
    ELSE 0

(***************************************************************************)
(* ValidateSchema (decoder_base.h, not part of this repository; spec       *)
(* section 4.1 step 3): dense and varlen carriers are rank nested arrays   *)
(* of the dtype; a sparse carrier is a record with one "values" field, an  *)
(* array of the dtype, and one array-of-long field "indicesK" for each     *)
(* dimension K.                                                            *)
(***************************************************************************)
SparseFieldsFit(node, md) ==
  /\ node.kind = "record"
  /\ Len(node.fields) = md.rank + 1
  /\ { node.fields[i].name : i \in DOMAIN node.fields }
       = {ValuesField} \cup { IndicesField(k) : k \in 0..(md.rank - 1) }
  /\ \A i \in DOMAIN node.fields :
       node.fields[i].node = IF node.fields[i].name = ValuesField
                               THEN ArrayNode(md.dtype, 1) ELSE ArrayNode("long", 1)

ValidateSchema(node, md) ==
  IF md.type = "sparse" THEN SparseFieldsFit(node, md)
                        ELSE node = ArrayNode(md.dtype, md.rank)

(***************************************************************************)
(* CreateFeatureDecoder (decoder_base.h, not part of this repository; spec *)
(* sections 4.2 to 4.4): a decoder of the metadata's type; a sparse one    *)
(* carries its internal decoders, one per sub-record field in schema       *)
(* order.  The nullable wrapper and the opaque (skip) decoder are the      *)
(* classes of fds_decoder.h and opaque_contextual_feature_decoder.h.       *)
(***************************************************************************)
CreateFeatureDecoder(node, md) ==
  [type   |-> md.type,
   md     |-> md,
   fields |-> IF md.type = "sparse"
                THEN [i \in DOMAIN node.fields |-> node.fields[i].name]
                ELSE <<>>]

NullableFeatureDecoder(inner, nonNullIndex) ==
  [type |-> "nullable", inner |-> inner, non_null_index |-> nonNullIndex]

OpaqueDecoder(datumIndex) == [type |-> "opaque", datum_index |-> datumIndex]

(* An empty std::unique_ptr<DecoderBase> slot.                             *)
NoDecoder == [type |-> "none"]
==================================================================================
