--------------------------- MODULE RelationEntries ---------------------------
(***************************************************************************)
(* The entries of the three relation trees and the arguments of a          *)
(* deletion: what RelationTrees, RelationDelete, RelationRead and          *)
(* RelationRebuild share.                                                  *)
(*    lr : left label  -> ordinal right                                    *)
(*    rl : right label -> left                                             *)
(*    ll : label       -> left                                             *)
(***************************************************************************)
EXTENDS Integers

CONSTANTS Left, Label, Right,   \* the record ids that occur at each position
          Ordinal,              \* the values of db_ordinal_t that occur
          Null                  \* the null pointer: no filter for a position

(* An entry is a key and one of its data values. *)
LrEntry == [key: Left \X Label, data: Ordinal \X Right]
RlEntry == [key: Right \X Label, data: Left]
LlEntry == [key: Label, data: Left]

Lr(left, label, ordinal, right) == [key |-> <<left, label>>, data |-> <<ordinal, right>>]
Rl(right, label, left) == [key |-> <<right, label>>, data |-> left]
Ll_Swapped(label, left) == [key |-> left, data |-> label]
Ll(label, left) == [key |-> label, data |-> left]
(* The entries of rl and ll that belong to an entry of lr. *)
RlOf(e) == Rl(e.data[2], e.key[2], e.key[1])
LlOf(e) == Ll(e.key[2], e.key[1])

Trees == [lr: SUBSET LrEntry, rl: SUBSET RlEntry, ll: SUBSET LlEntry]

NonEmpty(S) == (SUBSET S) \ {{}}
OrdinalCondition == [min: Ordinal, max: Ordinal]
Filter == [left: {Null} \cup NonEmpty(Left), right: {Null} \cup NonEmpty(Right),
           label: {Null} \cup NonEmpty(Label), ordinal: {Null} \cup OrdinalCondition]

ASSUME OrdinalAssumption == Ordinal \subseteq Nat
ASSUME NullAssumption ==
  /\ \A ids \in SUBSET (Left \cup Label \cup Right) : ids # Null
  /\ \A condition \in OrdinalCondition : condition # Null

Selects(ids, id) == ids = Null \/ id \in ids

(* Does lr have any data for the key?  The MDB_SET of                      *)
(* db_relation_internal_delete_relation_ll_conditional.                    *)
HasKey(lr, left, label) == \E e \in lr : e.key = <<left, label>>

(* relation_data is an array of bytes: "relation_data[0] = ordinal_min"    *)
(* stores the low byte of the minimum, where the range scan then starts.   *)
ScanStart(ordinal) == ordinal % 256
=============================================================================
