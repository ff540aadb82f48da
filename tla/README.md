# TLA+ models of the FDS Avro decoder

This directory holds TLA+ models of the featurized-dataset (FDS) decoder in
`src/tensorflow_io/core/kernels/avro/fds/`, and the TLC configurations that check them.

The decoder reads Avro records whose schema is a flat record of named columns. A caller declares
which columns it wants:

- **dense** columns fill a flat tensor;
- **sparse** columns are a sub-record of `values` and `indicesK` arrays;
- **varlen** columns are nested arrays, materialised like sparse ones.

Every other column is still read off the wire and discarded into a "skipped data" sink.

## The system's parts

| Part | Source | What it does |
|---|---|---|
| `FDSDecoder::Initialize` | `fds_decoder.cc` 15-60, `fds_decoder.h` 81-119 | Checks that the root is a record. Resizes the per-column vectors. Binds dense, then sparse, then varlen metadata to columns by name, failing fast. Wraps one- and two-leaf unions in a nullable decoder. Gives every remaining column a skip decoder and a slot of `skipped_data_`, warning about named ones. Keeps the schema. |
| `FDSDecoder::DecodeFDSDatum` | `fds_decoder.h` 55-70 | Runs each column's decoder in schema order. The first failure is returned as `FeatureDecodeError(feature_names_[i])`. |
| `NullableFeatureDecoder` | `fds_decoder.h` 22-43 | Reads the union index. Any branch other than `non_null_index_` is `NullValueError`; otherwise it delegates. |
| `opaque_contextual::FeatureDecoder` | `opaque_contextual_feature_decoder.h` | Decodes the column into `skipped_data[datum_index_]`. |
| Sparse internal decoders | `sparse_feature_internal_decoder.h` | `DecodeVarLenValues` appends values block by block. `IndicesDecoder::Decode` grows the indices vector to `start + m*(rank+1)` and writes coordinate `dim` into column `dim+1` of each row, block after block. |
| Sparse, dense and varlen feature decoders, `ValidateSchema`, `CreateFeatureDecoder` | not in this repository | Modelled from spec sections 4.1 to 4.4. |
| `FDSSchemaBuilder`, tests | `decoder_test_util.cc`, `*_test.cc` | Build the schemas and the expectations the tests use. |

The parts interact in one thread (spec section 5):

1. The driver constructs the decoder and calls `Initialize`.
2. It copies `GetSkippedData()`.
3. It calls `DecodeFDSDatum` once per record, with row offsets 0, 1, ...

All records of a batch share one `ValueBuffer`, the dense tensors and the skipped-data copy.

## Modules

- **`SparseInternalDecoder`**: the internal decoders and the sparse feature decoder, as pure operators.
  - Avro arrays are sequences of non-empty blocks. `Blockings` gives every way to cut an array into blocks.
  - `DecodeVarLenValues`, `GrowTo`/`Resize`, `WriteBlock` and `IndicesDecode` translate the block loops.
  - `ValuesDecode` is `ValuesDecoder<T>::Decode`: it appends to the buffer's values list and returns the count.
  - `SparseFeatureDecode` runs the internal decoders (`FieldDecode`, one per field) in the sub-record's field order:
    - it reads `indices_start` before the record;
    - it fills the row-offset column;
    - it adds the values count to `num_of_elements`.
  - `SubRecordFields` is `AddSparseFeature`'s field order.
  - `ExpectedIndices` is the sparse test's expected indices (the reference).
  - The stream may end, or fail to decode, inside an array. `StreamCuts` lists where avro can throw: at a block count (`arrayStart`/`arrayNext`) or at an item. `ValuesDecodeCut` and `IndicesDecodeCut` give what the internal decoders leave behind at a throw:
    - the items decoded so far stay appended;
    - the string specialisation also leaves the `""` it pushed before `decodeString` (`EmptyString`);
    - `IndicesDecoder<long>` leaves the vector resized to the block's end.

    `SparseFeatureDecodeCut` stops the sparse decoder in its k-th field, before the row offsets are filled and `num_of_elements` is counted.
- **`SparseColumn`**: the abstract sparse column. Each record appends its `ExpectedIndices` rows, its values and its count, and leaves everything already there alone.
- **`SparseFeatureDecoder`**: one sparse column over a batch.
  - The field order is fixed at `Init`, as any permutation the schema builder can produce.
  - Each step decodes one record cut into blocks in any way.
  - It refines `SparseColumn` through `INSTANCE ... WITH` (`ImplementsSparseColumn`).
  - `MCSparseFeatureDecoder` instantiates it.
- **`FDSSchema`**: schema nodes and metadata checks.
  - Nodes: null, primitive, array, union, record; only records have names.
  - The builder's shapes: `ArrayNode` and `SparseNode`. The builder itself is the sequence of features added: `NewBuilder`, `AddFeature` and `Build`, with `FDSRecord` for a test's chain of calls. Also the `FDSSchemaBuilder` methods `AddDenseFeature`, `DefaultOrder` (the sparse field order of `AddSparseFeature`), `AddOpaqueContextualFeature` and `BuildNullableFeatureSchema`. The MC schemas are built from these.
  - `NameIndex`, and the spec-modelled `ValidateSchema` and `CreateFeatureDecoder`.
  - The nullable and opaque decoder records.
- **`FDSDecoder`**: the decoder and its driver.
  - Its variables are the members `feature_names_`, `decoder_types_`, `decoders_`, `skipped_data_` and `schema_`. The driver's state is the row offset, the tensors, the buffer, the skipped copy and the record history.
  - The actions are:
    - `Initialize`: root check and resizes;
    - `BindNextFeature`: one `InitializeFeatureDecoder` of the three loops;
    - `FinishInitialize`: the opaque loop and `schema_`;
    - `BeginRecord`: the driver's call, with the copy of `GetSkippedData()` before the first record;
    - one action per column-decoder kind: `DecodeDense`, `DecodeSparse`, `DecodeVarlen`, `DecodeOpaque`;
    - `RejectBranch`: the nullable decoder reads a non-carrier branch and the loop returns the error;
    - `TruncateSparse`: only when `StreamFaults` is TRUE. The byte decoder throws inside the sparse column, the exception passes through `DecodeFDSDatum`'s loop uncaught, and the driver stops;
    - `EndRecord`;
    - `Done`: the driver stops after an error or a full batch.

    The loops advance one feature, or one column, per step, so an error part-way is a reachable state.
  - `MCFDSDecoder` instantiates it over the schemas below.
  - `MCFDSDecoderMixed` instantiates it over the schema and the tensor, indices and values slots of `TestMixedFeatures`.
  - `GetSchema` is `schema_`.

The wire data is abstracted to small sets: element values `{0,1}`, sparse indices `{0,1}`, at most
`MaxElems` items per array, and skipped values drawn from the same set. Formatting, error messages
and logging text are left out. The warning is kept as the set of names it mentions.

## Runs

| Run | Config | Checks | Result |
|---|---|---|---|
| `sparse_refinement` | `MCSparseFeatureDecoder.cfg` | `TypeOK`, `ImplementsSparseColumn` | pass, 32 418 states |
| `fds_batch` | `MCFDSDecoder.cfg` | `TypeOK`, `BindingFollowsSpec`, `PlanMatchesSchema`, `RecordRoundTrip`, `NullErrorNamesColumn` | pass, 957 784 states |
| `fds_truncated_stream` | `MCFDSDecoderTruncated.cfg` | `RecordRoundTrip` with `StreamFaults` | pass, 86 130 states |
| `fds_mixed_features` | `MCFDSDecoderMixed.cfg` | `RecordRoundTrip` | pass, 24 456 states |
| `union_without_null` | `MCFDSDecoderNoNullUnion.cfg` | `BindingFollowsSpec` | violation |
| `initialize_twice` | `MCFDSDecoderReinitialize.cfg` | `PlanMatchesSchema` | violation |
| `unused_column_warning` | `MCFDSDecoderWarning.cfg` | `SkippedColumnsWarned` | violation |

What the properties say:

- **`ImplementsSparseColumn`** covers every field order and every block cut. Under both, the indices decoders write exactly the rows the sparse test expects, after the earlier records' rows and without disturbing them. This covers three things the unit tests never vary: the stale `indices_start`, the resize guard, and `start = end` across blocks.
- **`BindingFollowsSpec`**: `Initialize` returns what spec section 4.1 says for the schema: NotRecord, or the first failing feature's FeatureNotFound, InvalidUnionType or SchemaMismatch, or OK.
- **`PlanMatchesSchema`** holds after an OK:
  - each declared column's decoder carries its own metadata and name;
  - the j-th unused column has skip slot j-1;
  - `skipped_data_` has exactly one datum per unused column;
  - `GetSchema()` returns the schema that was bound.
- **`RecordRoundTrip`** holds between records, and after the driver stops:
  - dense slices, sparse and varlen indices, values and counts, and skipped values equal what the decoded records carried, row offsets included;
  - when a record is abandoned part-way (spec section 7), the finished records' rows are still intact, and the abandoned record's partial writes only come after them (a prefix). A record can be abandoned by a null error or, in `fds_truncated_stream`, by a stream that ends inside the sparse column;
  - `num_of_elements` counts the values of the decoded records, plus the current record's once its column has finished. It never counts values that a torn array left behind;
  - the varlen reference is computed independently, from positions sorted lexicographically.
- **`NullErrorNamesColumn`**: a decode error names the column that read it, and the branch read is the null one.

The violation runs are findings, listed in `PROJECT.json`:

- A two-branch union with no null branch is accepted.
- A second `Initialize` with the same schema doubles `skipped_data_`.
- The unused-column warning skips unnamed types and uses the type name.

Each passing property has a mutant in `PROJECT.json`: a plausible bug in a mapped definition that TLC catches.

## Bounds

**`MCSparseFeatureDecoder`**:

- Rank 2, so three sub-record fields and six orders.
- Two records, so the second record starts at a non-zero `indices_start`.
- Up to two elements, so an array can be cut into two blocks and the block loop runs twice.
- Indices and values in `{0,1}`.

These are the smallest bounds at which every hazard above can occur.

`MCFDSDecoderMixed.cfg` has the following bounds:

- The test's nine columns, with the rank-2 sparse column in two field orders: the default one, and `[indices1, values, indices0]` of spec scenario 3.
- Arrays have up to two items. So two indices decoders of one record meet a vector that is already grown, across two blocks, and a rank-2 varlen array can hold an empty inner array before a full one.
- One record, as in the test. Rows across records are covered by the other runs; two records here are beyond reach.
- One element value. The properties are about positions, slots and counts.

`MCFDSDecoderTruncated.cfg` has the following bounds:

- It uses the plain sparse column in both field orders, so that the stream can end in the values array before or after the indices array.
- Arrays have up to two items, so a throw can fall between two blocks, after a block count, or after an item.
- Batches have three records.
- There is one element value. Indices keep two values. With two element values the state space is beyond reach, and the property is about positions and counts, which the indices still tell apart.

**`MCFDSDecoder`**:

- Five columns, in the layout of the mixed-features test: dense `d`, unused primitive `u`, sparse `s`, varlen `v` and unused record `r`. So declared and skipped columns interleave, and both a named and an unnamed skipped column exist.
- The sparse column appears in five forms:
  - in both field orders;
  - as `[null,S]`, `[S,null]` and `[S]`.
- A nullable varlen column `v` after the sparse column. A null there abandons a record after `s` has written its rows for it.
- Four schemas each break `Initialize` in a different way. Together they fire every error path:
  - a root that is not a record;
  - a missing feature;
  - a dense column of the wrong rank;
  - a three-leaf union.
- Two records per batch and one element per array. Block cutting is covered by the sparse run.
- `MaxInitialize` is 1, and 2 in the re-initialise run.

## Fairness

Every run checks safety under `Spec`, with no fairness. No liveness property is checked. The decoder's loops are bounded
for-loops in one thread that never waits (spec section 5), so their termination does not depend on the
code's choices. The terminal states, a stopped driver or a full batch, stutter through `Done`, so deadlock
checking stays on.

## Not modelled

- The Avro byte decoder, the schema compiler, `GenericDatum`, tensors and logging are external (spec section 1).
- Avro exceptions (UnderlyingDecodeError) are modelled only inside the sparse column, where the code in this repository leaves partial state in the ValueBuffer. In the dense, varlen and skip decoders, a throw leaves only the abandoned row's data. `RecordRoundTrip` does not look at that data.
- `reserve` only changes capacity.
- The warning text is not modelled.
- The decoders not in this repository are spec-modelled at the level of what they write.

- Duplicate feature names and columns sharing an indices or values slot. The spec defines no behaviour for either (section 9), so they are listed as hazards without a property.
- A driver that calls `DecodeFDSDatum` after a failed `Initialize` (`fds_decoder.h:89`). Spec section 7 says the decoder is abandoned.
- The dense test (`dense_feature_decoder_test.cc`). It exercises only the dense feature decoder, which is not in this repository. A round trip over the spec-modelled `DenseDecode` would restate that definition.
- Index arrays of a sparse record whose lengths differ from the values array. Whether that is an error is decided in `sparse_feature_decoder.h`, which is not in this repository, so no behaviour of the code can be checked.

## Possible extensions

- A driver that retries `Initialize` with another schema after a failure. Spec section 6 makes `Initialize` idempotent only with an identical schema, and section 7 has the driver abandon the decoder, so no stated behaviour can be checked.
