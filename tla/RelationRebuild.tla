--------------------------- MODULE RelationRebuild ---------------------------
(***************************************************************************)
(* db_relation_index_rebuild (relation.c) among the write transactions of  *)
(* other threads.  It drops rl and ll in one transaction and fills them    *)
(* from lr in a second: in between anybody may write, or the process may   *)
(* end.  A step is one committed write transaction.                        *)
(***************************************************************************)
EXTENDS RelationEntries

VARIABLES trees,     \* [lr, rl, ll]
          rebuild    \* "no", or "dropped" between the two transactions

vars == <<trees, rebuild>>

AnyFilter == {f \in Filter : f.ordinal = Null}
T == INSTANCE RelationTrees WITH Filters <- AnyFilter

(* db_pointer_to_id of the relation data: the 8 bytes that start with the  *)
(* 2 of the ordinal.  The top 16 bits of the right id fall off: ids are    *)
(* below 2^48 here.                                                        *)
IdRead(data) == data[1] + 65536 * data[2]

RlFilled(lr) == {Rl(IdRead(e.data), e.key[2], e.key[1]) : e \in lr}
LlFilled(lr) == {Ll(e.key[2], e.key[1]) : e \in lr}
-----------------------------------------------------------------------------
Init == trees = [lr |-> {}, rl |-> {}, ll |-> {}] /\ rebuild = "no"

Drop == /\ rebuild = "no" /\ rebuild' = "dropped"
        /\ trees' = [trees EXCEPT !.rl = {}, !.ll = {}]

Fill == /\ rebuild = "dropped" /\ rebuild' = "no"
        /\ trees' = [trees EXCEPT !.rl = RlFilled(trees.lr) \cup @,
                                  !.ll = LlFilled(trees.lr) \cup @]

(* The process ends between the transactions, or the second one fails.     *)
Interrupted == rebuild = "dropped" /\ rebuild' = "no" /\ UNCHANGED trees

Ensure == /\ \E left \in Left, label \in Label, right \in Right :
               T!Ensure({left}, {label}, {right})
          /\ UNCHANGED rebuild

Delete == (\E f \in AnyFilter : T!Delete(f)) /\ UNCHANGED rebuild

Next == Drop \/ Fill \/ Interrupted \/ Ensure \/ Delete

Spec == Init /\ [][Next]_vars
-----------------------------------------------------------------------------
(* "rebuild relation-rl and relation-ll based on relation-lr" (relation.c).*)
RebuildMirrorsLr == [][Fill => T!Mirrored(trees')]_vars

(* "there can only be one relation for every combination of left, label    *)
(* and right" (internals.md).                                              *)
OneRelation == T!Unique(trees)
=============================================================================
