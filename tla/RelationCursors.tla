--------------------------- MODULE RelationCursors ---------------------------
(***************************************************************************)
(* Cursors over the three relation trees, and the id arrays that drive     *)
(* them: what RelationDelete and RelationRead share.                       *)
(***************************************************************************)
EXTENDS RelationEntries, Sequences, Functions

(* Ids are what db_id_less compares: unsigned integers.                    *)
ASSUME IdsAssumption == Left \cup Label \cup Right \subseteq Nat

(* A db_ids_t is walked forward with its field current.  An array in a     *)
(* state is what is left of it, so that its head is the current id.        *)
ArrayOf(S) == Seq(S) \ {<<>>}
Call == [left: {Null} \cup ArrayOf(Left), right: {Null} \cup ArrayOf(Right),
         label: {Null} \cup ArrayOf(Label), ordinal: {Null} \cup OrdinalCondition]

Ids(array) == IF array = Null THEN Null ELSE Range(array)
FilterOf(c) == [left |-> Ids(c.left), right |-> Ids(c.right), label |-> Ids(c.label),
                ordinal |-> c.ordinal]

(* The comparison functions of lmdb.c.                                     *)
IdBefore(a, b) == a < b
RelationKeyBefore(a, b) == a[1] < b[1] \/ (a[1] = b[1] /\ a[2] < b[2])
RelationDataBefore(a, b) == a[1] < b[1] \/ (a[1] = b[1] /\ a[2] < b[2])

LR == INSTANCE Cursor WITH KeyBefore <- RelationKeyBefore, DataBefore <- RelationDataBefore
RL == INSTANCE Cursor WITH KeyBefore <- RelationKeyBefore, DataBefore <- IdBefore
LL == INSTANCE Cursor WITH KeyBefore <- IdBefore, DataBefore <- IdBefore

(* An array is null when its filter is not given.                          *)
ArrayIn(array) == IF array = Null THEN <<>> ELSE array

(* Two arrays nested, sph_array_current_forward on the inner one and, with *)
(* a rewind of it, on the outer one: what is left of both, inner first.  (And  *)
(* a mutant without the rewind.)                                           *)
AfterForward_NoRewind(inner, rewound, outer) ==
  IF Tail(inner) # <<>> THEN <<Tail(inner), outer>> ELSE <<inner, Tail(outer)>>
AfterForward(inner, rewound, outer) ==
  IF Tail(inner) # <<>> THEN <<Tail(inner), outer>> ELSE <<rewound, Tail(outer)>>
=============================================================================
