--------------------------- MODULE SparseFeatureDecoder ---------------------------
(***************************************************************************)
(* One sparse column decoded record after record into its ValueBuffer      *)
(* slot, as FDSDecoder::DecodeFDSDatum drives it over a batch.  The        *)
(* schema fixes, once, the order of the sub-record's fields (any           *)
(* permutation of "values" and indices0..indices{Rank-1}, built the way    *)
(* FDSSchemaBuilder::AddSparseFeature builds it); every record's arrays    *)
(* may arrive cut into blocks in any way the Avro encoding allows.         *)
(*                                                                         *)
(* The column implements SparseColumn: its buffer, seen record by record,  *)
(* is the one the abstract column promises.                                *)
(***************************************************************************)
EXTENDS Integers, Sequences, SequencesExt, SparseInternalDecoder

CONSTANTS
  Rank,        (* rank of the sparse tensor (without the batch dimension) *)
  Idx,         (* index values a writer may use                           *)
  Vals,        (* element values a writer may use                         *)
  MaxElems,    (* the most elements one record carries                    *)
  MaxRecords   (* the records in a batch                                  *)

ASSUME Rank \in Nat \ {0} /\ MaxElems \in Nat /\ MaxRecords \in Nat

VARIABLES
  buffer,      (* the ValueBuffer, with the column's one indices slot 0   *)
  order,       (* the sub-record's fields in schema order                 *)
  decoded      (* history: the records decoded so far                     *)

vars == <<buffer, order, decoded>>

(* The column's metadata: indices_index 0, values_index 0.                 *)
Md == [indices_index |-> 0, values_index |-> 0, dtype |-> "long", rank |-> Rank]
Key == <<Md.dtype, Md.values_index>>

Fields == {ValuesField} \cup { IndicesField(k) : k \in 0..(Rank - 1) }

Datums == SparseDatums(Rank, Idx, Vals, MaxElems)

(* Every long of the indices vector is an index or a row of the batch, and *)
(* no more elements are counted than the batch's records can carry.        *)
TypeOK ==
  /\ buffer \in [indices : [{0} -> Seq(Idx \cup 0..(MaxRecords - 1))], values : [{Key} -> Seq(Vals)],
                 num_of_elements : [{0} -> 0..(MaxRecords * MaxElems)]]
  /\ order \in Seq(Fields)
  /\ decoded \in Seq(Datums)

Init ==
  /\ buffer = [indices |-> [s \in {0} |-> <<>>], values |-> [k \in {Key} |-> <<>>],
               num_of_elements |-> [s \in {0} |-> 0]]
  /\ order \in { SubRecordFields(o) : o \in SetToSeqs(0..Rank) }
  /\ decoded = <<>>

(* The sparse feature decoder decodes the next record at row offset        *)
(* Len(decoded).                                                           *)
DecodeRecord ==
  /\ Len(decoded) < MaxRecords
  /\ \E d \in Datums : \E w \in SparseWires(d, order) :
       /\ buffer' = SparseFeatureDecode(buffer, Md, order, w, Len(decoded))
       /\ decoded' = Append(decoded, d)
  /\ UNCHANGED order

(* The batch is full: the driver hands the buffer over and stops.          *)
BatchDone ==
  /\ Len(decoded) = MaxRecords
  /\ UNCHANGED vars

Next == DecodeRecord \/ BatchDone

Spec == Init /\ [][Next]_vars

-----------------------------------------------------------------------------
Abstract == INSTANCE SparseColumn
            WITH indices <- buffer.indices[0], values <- buffer.values[Key],
                 num_of_elements <- buffer.num_of_elements[0]

(***************************************************************************)
(* Refinement: whatever the schema's field order and however the arrays    *)
(* are cut into blocks, each record decoded by the internal decoders       *)
(* appends exactly the rows (offset, i_0, ..., i_{r-1}) and values the     *)
(* record carries, in order, and leaves earlier records' rows alone        *)
(* (IndicesDecoder::Decode, the indices_start it is given, and the row-    *)
(* offset fill of the sparse feature decoder).                             *)
(***************************************************************************)
ImplementsSparseColumn == Abstract!Spec

================================================================================
