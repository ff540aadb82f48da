------------------------- MODULE SparseInternalDecoder -------------------------
(***************************************************************************)
(* The internal decoders of a sparse feature                               *)
(* (sparse_feature_internal_decoder.h), the sparse feature decoder that    *)
(* runs them in the order of the sparse sub-record's fields, and the       *)
(* expectation the unit tests hold them to.                                *)
(*                                                                         *)
(* An Avro array on the wire is a sequence of blocks, each a non-empty     *)
(* sequence of items; the zero-count block that ends it is implicit.  The  *)
(* ValueBuffer is a record                                                 *)
(*   [indices         |-> [slot -> Seq(Int)],                              *)
(*    values          |-> [<<dtype, values_index>> -> Seq(value)],         *)
(*    num_of_elements |-> [slot -> Nat]]                                   *)
(* and positions in it are counted from 0 as in the C++ code.              *)
(***************************************************************************)
EXTENDS Integers, Sequences, SequencesExt

(* Every way an encoder may cut the items of s into array blocks.          *)
RECURSIVE Blockings(_)
Blockings(s) ==
  IF s = <<>> THEN {<<>>}
  ELSE UNION { { <<SubSeq(s, 1, k)>> \o b : b \in Blockings(SubSeq(s, k + 1, Len(s))) }
               : k \in 1..Len(s) }

(***************************************************************************)
(* DecodeVarLenValues<T> and its string specialisation: every item of     *)
(* every block is appended to v; the result carries the new vector and    *)
(* the item count, accumulated block by block.                             *)
(***************************************************************************)
(* Bug variant: count += m inside the per-item loop.                     *)
RECURSIVE DecodeVarLenValuesCountPerItem(_, _)
DecodeVarLenValuesCountPerItem(v, blocks) ==
  IF blocks = <<>> THEN [v |-> v, count |-> 0]
  ELSE LET rest == DecodeVarLenValuesCountPerItem(v \o Head(blocks), Tail(blocks))
       IN  [v |-> rest.v, count |-> Len(Head(blocks)) * Len(Head(blocks)) + rest.count]

RECURSIVE DecodeVarLenValues(_, _)
DecodeVarLenValues(v, blocks) ==
  IF blocks = <<>> THEN [v |-> v, count |-> 0]
  ELSE LET rest == DecodeVarLenValues(v \o Head(blocks), Tail(blocks))
       IN  [v |-> rest.v, count |-> Len(Head(blocks)) + rest.count]

(* ValuesDecoder<T>::Decode: the values are appended to the dtype's value *)
(* vector at values_index (GetValueVector<T>); the result carries the      *)
(* buffer and the count.                                                   *)
ValuesDecode(buf, key, blocks) ==
  LET r == DecodeVarLenValues(buf.values[key], blocks)
  IN  [buf |-> [buf EXCEPT !.values[key] = r.v], count |-> r.count]

(* std::vector<long>::resize: new slots are value-initialised to 0.        *)
Resize(v, n) ==
  IF n > Len(v) THEN v \o [i \in 1..(n - Len(v)) |-> 0] ELSE SubSeq(v, 1, n)

(***************************************************************************)
(* One block of IndicesDecoder::Decode: grow v to end = start + m * R      *)
(* longs when it is shorter (the reserve before it only sizes capacity),   *)
(* then write item k of the block into column dim + 1 of row k, that is at *)
(* position start + dim + 1 + k * R.                                       *)
(***************************************************************************)
(* Bug variant: the end > v.size() guard dropped, so a block ending before *)
(* the vector's end shrinks it.                                            *)
GrowToUnguarded(v, end) == Resize(v, end)

GrowTo(v, end) == IF end > Len(v) THEN Resize(v, end) ELSE v

(* Bug variant: item k written into column dim instead of dim + 1.         *)
WriteBlockAtDim(v, block, dim, start, R) ==
  LET grown == GrowTo(v, start + Len(block) * R)
  IN  [i \in DOMAIN grown |->
         LET k == (i - 1) - start - dim
         IN  IF k >= 0 /\ k % R = 0 /\ k \div R < Len(block)
               THEN block[k \div R + 1]
               ELSE grown[i]]

WriteBlock(v, block, dim, start, R) ==
  LET grown == GrowTo(v, start + Len(block) * R)
  IN  [i \in DOMAIN grown |->
         LET k == (i - 1) - start - (dim + 1)
         IN  IF k >= 0 /\ k % R = 0 /\ k \div R < Len(block)
               THEN block[k \div R + 1]
               ELSE grown[i]]

(***************************************************************************)
(* IndicesDecoder<T>::Decode (and its long specialisation): blocks are     *)
(* written one after the other, each block's rows starting where the      *)
(* previous block's ended; the result carries the count of items.         *)
(***************************************************************************)
(* Bug variant: every block written from indices_start (no start = end).  *)
RECURSIVE IndicesDecodeNoAdvance(_, _, _, _, _)
IndicesDecodeNoAdvance(v, blocks, dim, start, R) ==
  IF blocks = <<>> THEN [v |-> v, count |-> 0]
  ELSE LET rest == IndicesDecodeNoAdvance(WriteBlock(v, Head(blocks), dim, start, R),
                                          Tail(blocks), dim, start, R)
       IN  [v |-> rest.v, count |-> Len(Head(blocks)) + rest.count]

RECURSIVE IndicesDecode(_, _, _, _, _)
IndicesDecode(v, blocks, dim, start, R) ==
  IF blocks = <<>> THEN [v |-> v, count |-> 0]
  ELSE LET end  == start + Len(Head(blocks)) * R
           rest == IndicesDecode(WriteBlock(v, Head(blocks), dim, start, R),
                                 Tail(blocks), dim, end, R)
       IN  [v |-> rest.v, count |-> Len(Head(blocks)) + rest.count]

(***************************************************************************)
(* The sparse feature decoder (sparse_feature_decoder.h, which is not part *)
(* of this repository; spec section 4.3).  Before the record,              *)
(* indices_start is the length of the column's indices vector.  The        *)
(* internal decoders run in the order of the sub-record's fields: a        *)
(* "values" field appends to the dtype's value vector, an "indicesK" field *)
(* fills column K + 1 of the record's rows.  Afterwards column 0 of every  *)
(* new row holds the row offset and num_of_elements grows by the count of  *)
(* values.  order is the sequence of the sub-record's fields and wire maps *)
(* each field to the blocks its array arrives in.                          *)
(***************************************************************************)
FillRowOffset(v, start, offset, R) ==
  [i \in DOMAIN v |-> IF i - 1 >= start /\ (i - 1 - start) % R = 0
                        THEN offset ELSE v[i]]

(* One internal decoder of the record, for the field f whose array       *)
(* arrives in blocks; acc carries the buffer and the values count.         *)
FieldDecode(acc, md, f, blocks, start) ==
  IF f.name = "values"
    THEN ValuesDecode(acc.buf, <<md.dtype, md.values_index>>, blocks)
    ELSE [acc EXCEPT !.buf.indices[md.indices_index] =
            IndicesDecode(@, blocks, f.dim, start, md.rank + 1).v]

SparseFeatureDecode(buf, md, order, wire, offset) ==
  LET ii    == md.indices_index
      start == Len(buf.indices[ii])
      done  == FoldLeft(LAMBDA acc, f : FieldDecode(acc, md, f, wire[f], start),
                        [buf |-> buf, count |-> 0], order)
  IN  [done.buf EXCEPT !.indices[ii] = FillRowOffset(@, start, offset, md.rank + 1),
                       !.num_of_elements[ii] = @ + done.count]

(***************************************************************************)
(* The byte stream ending, or failing to decode, inside an array: avro's  *)
(* arrayStart/arrayNext or the item's decode throws.  A cut <<b, -1>> is  *)
(* a throw while reading the count of block b (b = Len(blocks) + 1 is the *)
(* zero count that ends the array), <<b, j>> one after the count of block *)
(* b and j of its items.                                                   *)
(***************************************************************************)
StreamCuts(blocks) ==
  { <<b, -1>> : b \in 1..(Len(blocks) + 1) }
  \cup UNION { { <<b, j>> : j \in 0..(Len(blocks[b]) - 1) } : b \in DOMAIN blocks }

(* A string push_back("") added and decodeString did not finish, kept     *)
(* apart from the values a writer sends.                                   *)
EmptyString == -2

(* DecodeVarLenValues up to the throw: the items decoded stay appended.    *)
(* The generic template emplaces an item only once it is decoded; the     *)
(* string specialisation pushes "" first and decodes into it, so a throw  *)
(* inside an item leaves that string, empty or part-read, behind.         *)
ValuesDecodeCut(buf, key, blocks, cut) ==
  LET done == DecodeVarLenValues(buf.values[key], SubSeq(blocks, 1, cut[1] - 1)).v
      read == IF cut[2] >= 0 THEN SubSeq(blocks[cut[1]], 1, cut[2]) ELSE <<>>
      torn == IF cut[2] >= 0 /\ key[1] = "string" THEN <<EmptyString>> ELSE <<>>
  IN  [buf EXCEPT !.values[key] = done \o read \o torn]

(* IndicesDecoder<long>::Decode up to the throw: the earlier blocks are    *)
(* written; once block b's count is read the vector is already resized to *)
(* its end, and only its first j coordinates are written.                  *)
IndicesDecodeCut(v, blocks, dim, start, R, cut) ==
  LET before == SubSeq(blocks, 1, cut[1] - 1)
      done   == IndicesDecode(v, before, dim, start, R).v
      s      == start + Len(FlattenSeq(before)) * R
  IN  IF cut[2] < 0 THEN done
      ELSE WriteBlock(GrowTo(done, s + Len(blocks[cut[1]]) * R),
                      SubSeq(blocks[cut[1]], 1, cut[2]), dim, s, R)

(* The sparse feature decoder when the throw comes in its k-th field: the *)
(* earlier fields are decoded, the k-th up to the cut, and the exception   *)
(* leaves before the row offsets are filled and num_of_elements counted.  *)
SparseFeatureDecodeCut(buf, md, order, wire, k, cut) ==
  LET ii    == md.indices_index
      start == Len(buf.indices[ii])
      f     == order[k]
      done  == FoldLeft(LAMBDA acc, g : FieldDecode(acc, md, g, wire[g], start),
                        [buf |-> buf, count |-> 0], SubSeq(order, 1, k - 1)).buf
  IN  IF f.name = "values"
        THEN ValuesDecodeCut(done, <<md.dtype, md.values_index>>, wire[f], cut)
        ELSE [done EXCEPT !.indices[ii] =
                IndicesDecodeCut(@, wire[f], f.dim, start, md.rank + 1, cut)]

(***************************************************************************)
(* The sub-record FDSSchemaBuilder::AddSparseFeature builds for a field    *)
(* order: position i holds "values" when order[i] is the rank, and         *)
(* indices{order[i]} otherwise.  A field "indicesK" is written             *)
(* [name |-> "indices", dim |-> K].                                        *)
(***************************************************************************)
ValuesField == [name |-> "values", dim |-> 0]
IndicesField(k) == [name |-> "indices", dim |-> k]

SubRecordFields(order) ==
  [i \in DOMAIN order |-> IF order[i] = Len(order) - 1 THEN ValuesField
                                                       ELSE IndicesField(order[i])]

(***************************************************************************)
(* What a writer may put on the wire for a sparse column of the given rank *)
(* (the test's AddSparseValue): one index array per dimension and a values *)
(* array, all of the same length n <= maxElems; and every way each field's *)
(* array may be cut into blocks.                                           *)
(***************************************************************************)
SparseDatums(rank, idx, vals, maxElems) ==
  UNION { [indices : [1..rank -> [1..n -> idx]], values : [1..n -> vals]]
          : n \in 0..maxElems }

FieldItems(d, f) == IF f = ValuesField THEN d.values ELSE d.indices[f.dim + 1]

SparseWires(d, fields) ==
  LET F == { fields[i] : i \in DOMAIN fields }
  IN  { w \in [F -> UNION { Blockings(FieldItems(d, f)) : f \in F }] :
          \A f \in F : w[f] \in Blockings(FieldItems(d, f)) }

(***************************************************************************)
(* The indices SparseDecoderTest expects for one record: (rank + 1) * n    *)
(* longs, all the row offset, with indices[d][j] at position d + j*(rank+1)*)
(* (indices is the test's vector of per-dimension index vectors).          *)
(***************************************************************************)
ExpectedIndices(indices, numElem, offset) ==
  LET R == Len(indices) + 1
  IN  [p \in 1..(R * numElem) |->
         LET d == (p - 1) % R
             j == (p - 1) \div R
         IN  IF d # 0 /\ j < Len(indices[d]) THEN indices[d][j + 1] ELSE offset]
================================================================================
