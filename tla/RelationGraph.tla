---------------------------- MODULE RelationGraph ----------------------------
(***************************************************************************)
(* What sph-db promises about relations, without any b+tree: a set of      *)
(* directed, labelled edges between record ids, at most one for every      *)
(* left, label and right, each with the ordinal it was created with.       *)
(* RelationTrees implements this with the three trees the code keeps.      *)
(***************************************************************************)
EXTENDS Integers

CONSTANTS Left, Label, Right,   \* the record ids that occur at each position
          Ordinal,              \* the values of db_ordinal_t that occur
          Null                  \* the null pointer: no filter for a position

VARIABLE graph

Relation == [left: Left, label: Label, ordinal: Ordinal, right: Right]

Triple(e) == <<e.left, e.label, e.right>>

NonEmpty(S) == (SUBSET S) \ {{}}

(* A condition on ordinals: maximum 0 stands for no maximum. *)
OrdinalCondition == [min: Ordinal, max: Ordinal]

(* The arguments left, right, label, ordinal of db_relation_delete.        *)
Filter == [left: {Null} \cup NonEmpty(Left), right: {Null} \cup NonEmpty(Right),
           label: {Null} \cup NonEmpty(Label), ordinal: {Null} \cup OrdinalCondition]

Selects(ids, id) == ids = Null \/ id \in ids

InRange(condition, ordinal) ==
  condition = Null \/ /\ condition.min <= ordinal
                      /\ condition.max = 0 \/ ordinal <= condition.max

Matches(f, e) == /\ Selects(f.left, e.left)
                 /\ Selects(f.label, e.label)
                 /\ Selects(f.right, e.right)
                 /\ InRange(f.ordinal, e.ordinal)
-----------------------------------------------------------------------------
Init == graph = {}

(* Every missing combination is added, with an ordinal the caller's        *)
(* generator returns for it; a relation that exists keeps its ordinal.     *)
Ensure(left, label, right, generator) ==
  LET missing == (left \X label \X right) \ {Triple(e) : e \in graph}
  IN graph' = graph \cup {[left |-> t[1], label |-> t[2], ordinal |-> generator[t],
                           right |-> t[3]] : t \in missing}

Delete(f) == graph' = {e \in graph : ~Matches(f, e)}

DeleteRecords(ids) ==
  graph' = {e \in graph : e.left \notin ids /\ e.label \notin ids /\ e.right \notin ids}

Next ==
  \/ \E left \in NonEmpty(Left), label \in NonEmpty(Label), right \in NonEmpty(Right) :
       \E generator \in [left \X label \X right -> Ordinal] :
         Ensure(left, label, right, generator)
  \/ \E f \in Filter : Delete(f)
  \/ \E ids \in NonEmpty(Left \cup Label \cup Right) : DeleteRecords(ids)

Spec == Init /\ [][Next]_graph
=============================================================================
