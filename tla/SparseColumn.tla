------------------------------ MODULE SparseColumn ------------------------------
(***************************************************************************)
(* What one sparse column of the ValueBuffer promises across a batch       *)
(* (spec sections 3 and 8): the record decoded at row offset o appends     *)
(* its values to the value vector, one row (o, i_0, ..., i_{r-1}) per      *)
(* value to the indices vector, in the order the values came, and its      *)
(* value count to num_of_elements.  Nothing already there changes.         *)
(* decoded is the sequence of records decoded so far; the row offset of a  *)
(* record is its position in the batch, counted from 0.                    *)
(***************************************************************************)
EXTENDS Integers, Sequences, SparseInternalDecoder

CONSTANTS
  Datums,      (* the records a writer may produce for the column:        *)
               (* [indices |-> <<idx_0, ..., idx_{r-1}>>, values |-> vs]  *)
  MaxRecords   (* the records in a batch                                  *)

VARIABLES indices, values, num_of_elements, decoded

vars == <<indices, values, num_of_elements, decoded>>

Init ==
  /\ indices = <<>>
  /\ values = <<>>
  /\ num_of_elements = 0
  /\ decoded = <<>>

AppendRecord(d) ==
  /\ Len(decoded) < MaxRecords
  /\ indices' = indices \o ExpectedIndices(d.indices, Len(d.values), Len(decoded))
  /\ values' = values \o d.values
  /\ num_of_elements' = num_of_elements + Len(d.values)
  /\ decoded' = Append(decoded, d)

Next == \E d \in Datums : AppendRecord(d)

Spec == Init /\ [][Next]_vars
================================================================================
