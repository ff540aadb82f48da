---------------------------------- MODULE FDSDecoder ----------------------------------
(***************************************************************************)
(* The FDS decoder (fds_decoder.h, fds_decoder.cc) and the driver that     *)
(* uses it: Initialize binds the declared dense, sparse and varlen         *)
(* features to the schema's columns and installs a skip (opaque) decoder   *)
(* on every other column; DecodeFDSDatum then runs the column decoders in  *)
(* schema order on each record of a batch, at row offsets 0, 1, ...,      *)
(* writing dense tensors, the ValueBuffer and the caller's skipped data.   *)
(* The driver stops at the first error, as spec section 7 requires.        *)
(*                                                                         *)
(* Each column decoder reads its column's value off the wire; which value  *)
(* is chosen from small sets, and the record history keeps it for the      *)
(* properties.  The Initialize loop and the DecodeFDSDatum loop advance    *)
(* one feature, one column, per step, so that an error part-way is seen.   *)
(***************************************************************************)
EXTENDS Integers, Sequences, SequencesExt, FiniteSets, FDSSchema

CONSTANTS
  Schemas,         (* the schemas a driver may hand to Initialize          *)
  DenseFeatures,   (* the dense::Metadata vector                           *)
  SparseFeatures,  (* the sparse::Metadata vector                          *)
  VarlenFeatures,  (* the varlen::Metadata vector                          *)
  Vals,            (* element values on the wire                           *)
  Idx,             (* sparse index values on the wire                      *)
  MaxElems,        (* the most elements of a sparse or varlen array        *)
  MaxRecords,      (* the records in a batch                               *)
  MaxInitialize,   (* the Initialize calls a driver makes                  *)
  StreamFaults     (* whether the byte stream may end inside a column      *)

ASSUME Vals \subseteq Nat /\ MaxElems \in Nat /\ MaxRecords \in Nat \ {0}
       /\ StreamFaults \in BOOLEAN

(* Initialize binds dense, then sparse, then varlen features.              *)
Features == DenseFeatures \o SparseFeatures \o VarlenFeatures

(* A tensor element no record has written yet.                             *)
Unset == -1

(* DecodeFDSDatum has returned no error.                                   *)
NoError == [name |-> "", col |-> 0, branch |-> 0]

VARIABLES
  input,          (* the schema handed to Initialize                       *)
  status,         (* "new", "binding", "ready", "decoding" or "stopped"    *)
  initCalls,      (* Initialize calls made                                 *)
  initResult,     (* the Status the last Initialize returned, or "none"    *)
  nextFeature,    (* the feature Initialize binds next                     *)
  feature_names,  (* FDSDecoder::feature_names_                            *)
  decoder_types,  (* FDSDecoder::decoder_types_                            *)
  decoders,       (* FDSDecoder::decoders_                                 *)
  skipped_data_,  (* FDSDecoder::skipped_data_: one node per skip decoder  *)
  schema_,        (* FDSDecoder::schema_                                   *)
  warned,         (* the column names the unused-column warning named     *)
  offset,         (* the row offset of the record being decoded           *)
  col,            (* the column DecodeFDSDatum runs next                   *)
  record,         (* the values read so far from the current record       *)
  history,        (* the records decoded without error                     *)
  tensors,        (* the dense tensors, each flat over the batch           *)
  buffer,         (* the ValueBuffer                                       *)
  skipped,        (* the caller's skipped_data vector                      *)
  decodeError     (* the FeatureDecodeError returned, or NoError          *)

initVars == <<input, initCalls, initResult, nextFeature, feature_names,
              decoder_types, decoders, skipped_data_, schema_, warned>>
decodeVars == <<offset, col, record, history, tensors, buffer, skipped, decodeError>>
vars == <<status, initVars, decodeVars>>

-----------------------------------------------------------------------------
(* Shapes of the outputs the metadata declares.                            *)
Product(s) == FoldLeft(LAMBDA a, b : a * b, 1, s)

TensorIndices == { md.tensor_index : md \in ToSet(DenseFeatures) }
IndicesSlots == { md.indices_index : md \in ToSet(SparseFeatures \o VarlenFeatures) }
ValueKeys == { <<md.dtype, md.values_index>> : md \in ToSet(SparseFeatures \o VarlenFeatures) }
DenseOf(t) == CHOOSE md \in ToSet(DenseFeatures) : md.tensor_index = t

(* What a writer may put in a column: exact-shape nested arrays for dense, *)
(* nested arrays of up to MaxElems items for varlen, a sparse datum.       *)
RECURSIVE DenseValues(_)
DenseValues(shape) ==
  IF shape = <<>> THEN Vals ELSE [1..Head(shape) -> DenseValues(Tail(shape))]

RECURSIVE VarlenValues(_)
VarlenValues(rank) ==
  IF rank = 0 THEN Vals
  ELSE UNION { [1..n -> VarlenValues(rank - 1)] : n \in 0..MaxElems }

(* A nested array's items in wire order.                                   *)
RECURSIVE Flat(_, _)
Flat(v, rank) ==
  IF rank = 0 THEN <<v>> ELSE FlattenSeq([i \in DOMAIN v |-> Flat(v[i], rank - 1)])

-----------------------------------------------------------------------------
(***************************************************************************)
(* The dense feature decoder (dense_feature_decoder.h, not part of this    *)
(* repository; spec section 4.2): the column's items, in wire order, fill  *)
(* the slice of the flat tensor that starts at offset * prod(shape).       *)
(***************************************************************************)
DenseDecode(ts, md, v, row) ==
  LET P == Product(md.shape)
      items == Flat(v, md.rank)
  IN  [ts EXCEPT ![md.tensor_index] =
         [k \in DOMAIN @ |-> IF k - 1 >= row * P /\ k - 1 < (row + 1) * P
                               THEN items[k - row * P] ELSE @[k]]]

(***************************************************************************)
(* The varlen feature decoder (varlen_feature_decoder.h, not part of this  *)
(* repository; spec section 4.4): walking the nested arrays, every item    *)
(* appends its value and the row (offset, p_0, ..., p_{r-1}) of its       *)
(* position; empty arrays add nothing.                                     *)
(***************************************************************************)
RECURSIVE Positioned(_, _, _)
Positioned(v, rank, prefix) ==
  IF rank = 0 THEN <<[pos |-> prefix, val |-> v]>>
  ELSE FlattenSeq([i \in DOMAIN v |-> Positioned(v[i], rank - 1, Append(prefix, i - 1))])

VarlenDecode(buf, md, v, row) ==
  LET items == Positioned(v, md.rank, <<>>)
      rows  == FlattenSeq([k \in DOMAIN items |-> <<row>> \o items[k].pos])
      key   == <<md.dtype, md.values_index>>
  IN  [buf EXCEPT !.indices[md.indices_index] = @ \o rows,
                  !.values[key] = @ \o [k \in DOMAIN items |-> items[k].val],
                  !.num_of_elements[md.indices_index] = @ + Len(items)]

-----------------------------------------------------------------------------
(* std::vector::resize(n, x) on a vector that may already be sized.        *)
ResizeWith(s, n, x) == [p \in 1..n |-> IF p <= Len(s) THEN s[p] ELSE x]

(***************************************************************************)
(* FDSDecoder::InitializeFeatureDecoder for one metadata item: the column  *)
(* it names, the Status, and the decoder to install.  The feature's type  *)
(* and name are recorded at the column before its node is checked.  For a *)
(* union the non-null branch is 1 when there are two leaves and leaf 0 is *)
(* null, and 0 otherwise; a union of one or two leaves gets the nullable  *)
(* wrapper, any other union is rejected.                                   *)
(***************************************************************************)
(* Bug variant: the null branch looked for at the last leaf.              *)
NonNullIndexLastLeaf(node) ==
  IF Len(node.leaves) = 2 /\ node.leaves[2] = NullNode THEN 1 ELSE 0

NonNullIndex(node) ==
  IF Len(node.leaves) = 2 /\ node.leaves[1] = NullNode THEN 1 ELSE 0

BindFeature(root, md) ==
  LET pos  == NameIndex(root, md.name)
      node == root.fields[pos].node
      nn   == NonNullIndex(node)
  IN  IF pos = 0 THEN [pos |-> 0, error |-> "FeatureNotFound", decoder |-> NoDecoder]
      ELSE IF node.kind = "union"
        THEN IF Len(node.leaves) \in {1, 2}
               THEN IF ValidateSchema(node.leaves[nn + 1], md)
                      THEN [pos |-> pos, error |-> "OK",
                            decoder |-> NullableFeatureDecoder(
                                          CreateFeatureDecoder(node.leaves[nn + 1], md), nn)]
                      ELSE [pos |-> pos, error |-> "SchemaMismatch", decoder |-> NoDecoder]
               ELSE [pos |-> pos, error |-> "InvalidUnionType", decoder |-> NoDecoder]
        ELSE IF ValidateSchema(node, md)
               THEN [pos |-> pos, error |-> "OK", decoder |-> CreateFeatureDecoder(node, md)]
               ELSE [pos |-> pos, error |-> "SchemaMismatch", decoder |-> NoDecoder]

(* The columns left to the skip decoder, in schema order.                  *)
OpaqueColumns(types) == SelectSeq([i \in DOMAIN types |-> i],
                                  LAMBDA i : types[i] = "opaque")

(* opaque_contextual_index when the loop reaches column i: one per earlier *)
(* skipped column.                                                         *)
(* Bug variant: opaque_contextual_index never incremented.                *)
OpaqueIndexNoIncrement(types, i) == 0

OpaqueIndex(types, i) == Cardinality({ k \in 1..(i - 1) : types[k] = "opaque" })

(* FDSDecoder::GetSkippedData.                                             *)
GetSkippedData == skipped_data_

(* FDSDecoder::GetSchema.                                                  *)
GetSchema == schema_

(* The decoder a nullable wrapper delegates to, or the decoder itself.     *)
Carrier(dec) == IF dec.type = "nullable" THEN dec.inner ELSE dec

(* NullableFeatureDecoder: the union index read is the non-null branch.    *)
(* Bug variant: the comparison of the union index inverted.               *)
IsNonNullBranchInverted(dec, branch) == branch # dec.non_null_index

IsNonNullBranch(dec, branch) == branch = dec.non_null_index

(* The union branches a writer may choose for column i.                    *)
Branches(i) == 0..(Len(input.fields[i].node.leaves) - 1)

-----------------------------------------------------------------------------
Init ==
  /\ input \in Schemas
  /\ status = "new"
  /\ initCalls = 0
  /\ initResult = "none"
  /\ nextFeature = 1
  /\ feature_names = <<>>
  /\ decoder_types = <<>>
  /\ decoders = <<>>
  /\ skipped_data_ = <<>>
  /\ schema_ = NullNode
  /\ warned = {}
  /\ offset = 0
  /\ col = 1
  /\ record = <<>>
  /\ history = <<>>
  /\ tensors = [t \in TensorIndices |->
                  [k \in 1..(MaxRecords * Product(DenseOf(t).shape)) |-> Unset]]
  /\ buffer = [indices |-> [s \in IndicesSlots |-> <<>>],
               values |-> [k \in ValueKeys |-> <<>>],
               num_of_elements |-> [s \in IndicesSlots |-> 0]]
  /\ skipped = <<>>
  /\ decodeError = NoError

(* Bug variant: decoders_ is not resized to the root's field count.       *)
InitializeWithoutDecodersResize ==
  /\ status \in {"new", "ready"}
  /\ offset = 0
  /\ initCalls < MaxInitialize
  /\ initCalls' = initCalls + 1
  /\ \/ /\ input.kind # "record"
        /\ status' = "stopped"
        /\ initResult' = "NotRecord"
        /\ UNCHANGED <<nextFeature, feature_names, decoder_types, decoders>>
     \/ /\ input.kind = "record"
        /\ feature_names' = ResizeWith(feature_names, Len(input.fields), "")
        /\ decoder_types' = ResizeWith(decoder_types, Len(input.fields), "opaque")
        /\ UNCHANGED decoders
        /\ nextFeature' = 1
        /\ status' = "binding"
        /\ initResult' = "none"
  /\ UNCHANGED <<input, skipped_data_, schema_, warned, decodeVars>>

(***************************************************************************)
(* FDSDecoder::Initialize, up to the feature loops: a root that is not a   *)
(* record is rejected; otherwise the per-column vectors are resized to the *)
(* root's field count (keeping what an earlier call left in them).  The    *)
(* driver calls it before the batch's first record.                        *)
(***************************************************************************)
Initialize ==
  /\ status \in {"new", "ready"}
  /\ offset = 0
  /\ initCalls < MaxInitialize
  /\ initCalls' = initCalls + 1
  /\ \/ /\ input.kind # "record"
        /\ status' = "stopped"
        /\ initResult' = "NotRecord"
        /\ UNCHANGED <<nextFeature, feature_names, decoder_types, decoders>>
     \/ /\ input.kind = "record"
        /\ feature_names' = ResizeWith(feature_names, Len(input.fields), "")
        /\ decoder_types' = ResizeWith(decoder_types, Len(input.fields), "opaque")
        /\ decoders' = ResizeWith(decoders, Len(input.fields), NoDecoder)
        /\ nextFeature' = 1
        /\ status' = "binding"
        /\ initResult' = "none"
  /\ UNCHANGED <<input, skipped_data_, schema_, warned, decodeVars>>


(***************************************************************************)
(* One InitializeFeatureDecoder call of the dense, sparse and varlen       *)
(* loops, with TF_RETURN_IF_ERROR: a feature that is found records its     *)
(* type and name at its column, and its decoder when its node checks out;  *)
(* any error ends Initialize, and the driver gives up.                     *)
(***************************************************************************)
BindNextFeature ==
  /\ status = "binding"
  /\ nextFeature <= Len(Features)
  /\ LET md == Features[nextFeature]
         b  == BindFeature(input, md)
     IN  /\ \/ /\ b.pos = 0
               /\ UNCHANGED <<feature_names, decoder_types, decoders>>
            \/ /\ b.pos # 0
               /\ feature_names' = [feature_names EXCEPT ![b.pos] = md.name]
               /\ decoder_types' = [decoder_types EXCEPT ![b.pos] = md.type]
               /\ decoders' = IF b.error = "OK"
                                THEN [decoders EXCEPT ![b.pos] = b.decoder]
                                ELSE decoders
         /\ \/ /\ b.error = "OK"
               /\ nextFeature' = nextFeature + 1
               /\ UNCHANGED <<status, initResult>>
            \/ /\ b.error # "OK"
               /\ status' = "stopped"
               /\ initResult' = b.error
               /\ UNCHANGED nextFeature
  /\ UNCHANGED <<input, initCalls, skipped_data_, schema_, warned, decodeVars>>

(***************************************************************************)
(* The rest of Initialize: every column still of the opaque type gets a    *)
(* skip decoder bound to the next slot of skipped_data_, which grows by    *)
(* the column's node; a column whose node has a name takes that name and  *)
(* is named in the unused-column warning.  The schema is kept.             *)
(***************************************************************************)
FinishInitialize ==
  /\ status = "binding"
  /\ nextFeature > Len(Features)
  /\ LET oc   == OpaqueColumns(decoder_types)
         node(i) == input.fields[i].node
     IN  /\ decoders' = [i \in DOMAIN decoders |->
                           IF decoder_types[i] = "opaque"
                             THEN OpaqueDecoder(OpaqueIndex(decoder_types, i))
                             ELSE decoders[i]]
         /\ skipped_data_' = skipped_data_ \o [j \in DOMAIN oc |-> node(oc[j])]
         /\ feature_names' = [i \in DOMAIN feature_names |->
                                IF decoder_types[i] = "opaque" /\ HasName(node(i))
                                  THEN node(i).name ELSE feature_names[i]]
         /\ warned' = warned \cup { node(oc[j]).name : j \in { j \in DOMAIN oc : HasName(node(oc[j])) } }
  /\ schema_' = input
  /\ initResult' = "OK"
  /\ status' = "ready"
  /\ UNCHANGED <<input, initCalls, nextFeature, decoder_types, decodeVars>>

(***************************************************************************)
(* The driver calls DecodeFDSDatum on the batch's next record, at row      *)
(* offset = records decoded so far; before the first it takes its copy of  *)
(* GetSkippedData(), one fresh datum per skip decoder.                     *)
(***************************************************************************)
BeginRecord ==
  /\ status = "ready"
  /\ offset < MaxRecords
  /\ status' = "decoding"
  /\ col' = 1
  /\ record' = <<>>
  /\ skipped' = IF offset = 0 THEN [j \in DOMAIN GetSkippedData |-> Unset] ELSE skipped
  /\ UNCHANGED <<initVars, offset, history, tensors, buffer, decodeError>>

(* One iteration of the DecodeFDSDatum loop whose decoder, or the decoder  *)
(* its nullable wrapper delegates to after reading the non-null branch,    *)
(* is of the given type and returns OK having read value v.                *)
ColumnStep(type) ==
  /\ status = "decoding"
  /\ col <= Len(decoders)
  /\ Carrier(decoders[col]).type = type
  /\ decoders[col].type = "nullable" => \E b \in Branches(col) : IsNonNullBranch(decoders[col], b)
  /\ col' = col + 1

DecodeDense ==
  /\ ColumnStep("dense")
  /\ LET md == Carrier(decoders[col]).md
     IN  \E v \in DenseValues(md.shape) :
           /\ tensors' = DenseDecode(tensors, md, v, offset)
           /\ record' = Append(record, v)
  /\ UNCHANGED <<status, initVars, offset, history, buffer, skipped, decodeError>>

DecodeSparse ==
  /\ ColumnStep("sparse")
  /\ LET dec == Carrier(decoders[col])
     IN  \E d \in SparseDatums(dec.md.rank, Idx, Vals, MaxElems) :
           \E w \in SparseWires(d, dec.fields) :
             /\ buffer' = SparseFeatureDecode(buffer, dec.md, dec.fields, w, offset)
             /\ record' = Append(record, d)
  /\ UNCHANGED <<status, initVars, offset, history, tensors, skipped, decodeError>>

DecodeVarlen ==
  /\ ColumnStep("varlen")
  /\ LET md == Carrier(decoders[col]).md
     IN  \E v \in VarlenValues(md.rank) :
           /\ buffer' = VarlenDecode(buffer, md, v, offset)
           /\ record' = Append(record, v)
  /\ UNCHANGED <<status, initVars, offset, history, tensors, skipped, decodeError>>

(* opaque_contextual::FeatureDecoder: avro::decode into the caller's       *)
(* skipped_data[datum_index_].                                             *)
DecodeOpaque ==
  /\ ColumnStep("opaque")
  /\ \E v \in Vals :
       /\ skipped' = [skipped EXCEPT ![decoders[col].datum_index + 1] = v]
       /\ record' = Append(record, v)
  /\ UNCHANGED <<status, initVars, offset, history, tensors, buffer, decodeError>>

(* NullableFeatureDecoder reads another branch than the non-null one:      *)
(* NullValueError, returned as FeatureDecodeError(feature_names_[i]); the  *)
(* driver abandons the batch.                                              *)
RejectBranch ==
  /\ status = "decoding"
  /\ col <= Len(decoders)
  /\ decoders[col].type = "nullable"
  /\ \E b \in Branches(col) :
       /\ ~IsNonNullBranch(decoders[col], b)
       /\ decodeError' = [name |-> feature_names[col], col |-> col, branch |-> b]
  /\ status' = "stopped"
  /\ UNCHANGED <<initVars, offset, col, record, history, tensors, buffer, skipped>>

(***************************************************************************)
(* The byte stream ends, or cannot be decoded, while the sparse column is  *)
(* read: avro throws out of an internal decoder, out of the sparse decoder *)
(* and out of DecodeFDSDatum's loop, none of which catches it.  What was   *)
(* decoded before the throw stays in the buffer; the error reaches the     *)
(* driver as an exception (UnderlyingDecodeError), not as a Status naming  *)
(* the column, and the driver abandons the batch (spec section 7).         *)
(***************************************************************************)
TruncateSparse ==
  /\ StreamFaults
  /\ status = "decoding"
  /\ col <= Len(decoders)
  /\ Carrier(decoders[col]).type = "sparse"
  /\ decoders[col].type = "nullable" => \E b \in Branches(col) : IsNonNullBranch(decoders[col], b)
  /\ LET dec == Carrier(decoders[col])
     IN  \E d \in SparseDatums(dec.md.rank, Idx, Vals, MaxElems) :
           \E w \in SparseWires(d, dec.fields), k \in DOMAIN dec.fields :
             \E cut \in StreamCuts(w[dec.fields[k]]) :
               buffer' = SparseFeatureDecodeCut(buffer, dec.md, dec.fields, w, k, cut)
  /\ status' = "stopped"
  /\ UNCHANGED <<initVars, offset, col, record, history, tensors, skipped, decodeError>>

(* DecodeFDSDatum returns OK after the last column.                        *)
EndRecord ==
  /\ status = "decoding"
  /\ col > Len(decoders)
  /\ status' = "ready"
  /\ offset' = offset + 1
  /\ history' = Append(history, record)
  /\ UNCHANGED <<initVars, col, record, tensors, buffer, skipped, decodeError>>

(* The driver has stopped on an error, or the batch is complete.           *)
Done ==
  /\ \/ status = "stopped"
     \/ status = "ready" /\ offset = MaxRecords
  /\ UNCHANGED vars

Next ==
  \/ Initialize
  \/ BindNextFeature
  \/ FinishInitialize
  \/ BeginRecord
  \/ DecodeDense
  \/ DecodeSparse
  \/ DecodeVarlen
  \/ DecodeOpaque
  \/ RejectBranch
  \/ TruncateSparse
  \/ EndRecord
  \/ Done

Spec == Init /\ [][Next]_vars

-----------------------------------------------------------------------------
TypeOK ==
  /\ status \in {"new", "binding", "ready", "decoding", "stopped"}
  /\ initCalls \in 0..MaxInitialize
  /\ initResult \in {"none", "OK", "NotRecord", "FeatureNotFound",
                     "InvalidUnionType", "SchemaMismatch"}
  /\ nextFeature \in 1..(Len(Features) + 1)
  /\ decoder_types \in Seq({"dense", "sparse", "varlen", "opaque"})
  /\ Len(feature_names) = Len(decoder_types) /\ Len(decoders) = Len(decoder_types)
  /\ offset \in 0..MaxRecords
  /\ Len(history) = offset
  /\ tensors \in [TensorIndices -> Seq(Vals \cup {Unset})]
  /\ buffer.indices \in [IndicesSlots -> Seq(Idx \cup 0..(MaxRecords - 1))]
  /\ buffer.num_of_elements \in [IndicesSlots -> Nat]
  /\ skipped \in Seq(Vals \cup {Unset})

-----------------------------------------------------------------------------
(***************************************************************************)
(* What spec section 4.1 says Initialize returns for a schema: NotRecord  *)
(* for a root that is not a record; otherwise the error of the first      *)
(* feature, dense then sparse then varlen, that is missing                *)
(* (FeatureNotFound), sits in a union that is neither a single branch nor *)
(* exactly one null branch and one other (InvalidUnionType), or whose     *)
(* carrier does not fit its metadata (SchemaMismatch); OK when none.      *)
(***************************************************************************)
SpecUnionShapeOK(node) ==
  \/ Len(node.leaves) = 1
  \/ Len(node.leaves) = 2 /\ Cardinality({ i \in 1..2 : node.leaves[i] = NullNode }) = 1

SpecCarrier(node) ==
  IF node.kind # "union" THEN node
  ELSE IF Len(node.leaves) = 1 THEN node.leaves[1]
  ELSE CHOOSE l \in ToSet(node.leaves) : l # NullNode

SpecFeatureResult(root, md) ==
  LET p == NameIndex(root, md.name)
  IN  IF p = 0 THEN "FeatureNotFound"
      ELSE IF root.fields[p].node.kind = "union" /\ ~SpecUnionShapeOK(root.fields[p].node)
        THEN "InvalidUnionType"
      ELSE IF ~ValidateSchema(SpecCarrier(root.fields[p].node), md) THEN "SchemaMismatch"
      ELSE "OK"

SpecInitializeResult(root) ==
  IF root.kind # "record" THEN "NotRecord"
  ELSE LET bad == { k \in DOMAIN Features : SpecFeatureResult(root, Features[k]) # "OK" }
       IN  IF bad = {} THEN "OK" ELSE SpecFeatureResult(root, Features[Min(bad)])

(***************************************************************************)
(* Initialize (InitializeFeatureDecoder's union handling and its fail-fast *)
(* loops) returns what the spec says it returns for the schema it is       *)
(* given: it neither accepts a schema the spec rejects nor rejects one,    *)
(* or reports another error, than the spec names.                          *)
(***************************************************************************)
BindingFollowsSpec ==
  initResult # "none" => initResult = SpecInitializeResult(input)

(* The columns no declared feature names, in schema order.                 *)
UnusedColumns ==
  SelectSeq([p \in DOMAIN input.fields |-> p],
            LAMBDA p : \A k \in DOMAIN Features : Features[k].name # input.fields[p].name)

(***************************************************************************)
(* After Initialize returns OK the plan is the schema's (spec 4.1): every  *)
(* column a feature names runs a decoder built from that feature's         *)
(* metadata under the feature's name; the j-th unused column runs the skip *)
(* decoder of skipped slot j - 1; and GetSkippedData() holds exactly one   *)
(* datum per unused column, shaped like its node; GetSchema() returns the  *)
(* schema bound (spec section 3: retained as authoritative).              *)
(***************************************************************************)
PlanMatchesSchema ==
  initResult = "OK" =>
    /\ GetSchema = input
    /\ Len(decoders) = Len(input.fields)
    /\ \A k \in DOMAIN Features :
         LET p == NameIndex(input, Features[k].name)
         IN  /\ Carrier(decoders[p]).md = Features[k]
             /\ feature_names[p] = Features[k].name
    /\ \A j \in DOMAIN UnusedColumns : decoders[UnusedColumns[j]] = OpaqueDecoder(j - 1)
    /\ skipped_data_ = [j \in DOMAIN UnusedColumns |-> input.fields[UnusedColumns[j]].node]

(* Reference for the varlen rows: the positions of the items, in           *)
(* lexicographic order, each prefixed by the row offset.                   *)
RECURSIVE PositionSet(_, _)
PositionSet(v, rank) ==
  IF rank = 0 THEN {<<>>}
  ELSE UNION { { <<i - 1>> \o t : t \in PositionSet(v[i], rank - 1) } : i \in DOMAIN v }

RECURSIVE ItemAt(_, _)
ItemAt(v, pos) == IF pos = <<>> THEN v ELSE ItemAt(v[Head(pos) + 1], Tail(pos))

LexBefore(a, b) ==
  \E k \in DOMAIN a : a[k] < b[k] /\ \A j \in 1..(k - 1) : a[j] = b[j]

SortedPositions(v, rank) == SetToSortSeq(PositionSet(v, rank), LexBefore)

(* The value a record carried in the column feature md names.              *)
Carried(r, md) == r[NameIndex(input, md.name)]

ExpectedRows(md, r, row) ==
  IF md.type = "sparse"
    THEN ExpectedIndices(Carried(r, md).indices, Len(Carried(r, md).values), row)
    ELSE LET ps == SortedPositions(Carried(r, md), md.rank)
         IN  FlattenSeq([k \in DOMAIN ps |-> <<row>> \o ps[k]])

ExpectedValues(md, r) ==
  IF md.type = "sparse" THEN Carried(r, md).values
  ELSE LET ps == SortedPositions(Carried(r, md), md.rank)
       IN  [k \in DOMAIN ps |-> ItemAt(Carried(r, md), ps[k])]

BatchRows == 1..Len(history)

(* Between records an output is exactly what the decoded records account *)
(* for; inside a record, or once the driver has stopped on an error, it  *)
(* may hold more, the current record's columns decoded so far.            *)
Accounts(expected, actual) ==
  IF status = "ready" THEN actual = expected ELSE IsPrefix(expected, actual)

(***************************************************************************)
(* Every output holds what the batch's decoded records carried (spec      *)
(* section 8: round trips, row-offset threading, skipping), and a record  *)
(* abandoned part-way, by a null read (DecodeFDSDatum's early return) or  *)
(* by a stream that ends inside a column (spec section 7), only ever adds *)
(* after them: each dense tensor's slice for row o holds record o's items *)
(* in wire order; each sparse and varlen column's indices and values      *)
(* start with its records' rows and values, record after record, each row *)
(* led by its record's offset, and are exactly those between records;     *)
(* num_of_elements counts the values of the decoded records and of the    *)
(* current record once its column is done, never values a failed column   *)
(* left behind; between records each skipped datum holds the last         *)
(* record's value of its column.                                          *)
(***************************************************************************)
RecordRoundTrip ==
  initResult = "OK" =>
    /\ \A k \in DOMAIN DenseFeatures :
         LET md == DenseFeatures[k]
             P  == Product(md.shape)
         IN  \A o \in BatchRows :
               SubSeq(tensors[md.tensor_index], (o - 1) * P + 1, o * P)
                 = Flat(Carried(history[o], md), md.rank)
    /\ \A k \in DOMAIN (SparseFeatures \o VarlenFeatures) :
         LET md == (SparseFeatures \o VarlenFeatures)[k]
         IN  /\ Accounts(FlattenSeq([o \in BatchRows |-> ExpectedRows(md, history[o], o - 1)]),
                         buffer.indices[md.indices_index])
             /\ Accounts(FlattenSeq([o \in BatchRows |-> ExpectedValues(md, history[o])]),
                         buffer.values[<<md.dtype, md.values_index>>])
             /\ buffer.num_of_elements[md.indices_index]
                  = Len(FlattenSeq([o \in BatchRows |-> ExpectedValues(md, history[o])]))
                    + (IF status # "ready" /\ Len(record) >= NameIndex(input, md.name)
                         THEN Len(ExpectedValues(md, record)) ELSE 0)
    /\ (status = "ready" /\ history # <<>>) =>
         \A j \in DOMAIN UnusedColumns :
           skipped[j] = history[Len(history)][UnusedColumns[j]]

(***************************************************************************)
(* DecodeFDSDatum fails only on a null: an error names the column whose    *)
(* nullable decoder read it (FeatureDecodeError(feature_names_[i])), and   *)
(* the branch that column's union carried on the wire is the null one.     *)
(***************************************************************************)
NullErrorNamesColumn ==
  decodeError # NoError =>
    /\ decodeError.name = input.fields[decodeError.col].name
    /\ input.fields[decodeError.col].node.leaves[decodeError.branch + 1] = NullNode

(***************************************************************************)
(* The unused-column warning of Initialize names every column left to the  *)
(* skip decoder (spec section 4.1: "log a warning naming each skipped      *)
(* column").                                                               *)
(***************************************************************************)
SkippedColumnsWarned ==
  initResult = "OK" =>
    \A j \in DOMAIN UnusedColumns : input.fields[UnusedColumns[j]].name \in warned
==================================================================================
