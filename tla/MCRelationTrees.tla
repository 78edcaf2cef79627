--------------------------- MODULE MCRelationTrees ---------------------------
(***************************************************************************)
(* Instances of RelationTrees for TLC: which ids, ordinals and deletions.  *)
(***************************************************************************)
EXTENDS RelationTrees

(* All that is heeded and keeps ll complete; ordinal conditions with some  *)
(* of the ids only.                                                        *)
SoundFilters ==
  {f \in Filter : /\ KeepsLabels(f) /\ Heeded(f)
                  /\ f.ordinal # Null => f.left \in {{1}, {1, 2}} /\ f.right # {1}}

(* Right and label without left, the reader pattern 0110.                  *)
RightAndLabel == {f \in Filter : /\ f.ordinal = Null
                                 /\ f.left = Null /\ f.right # Null /\ f.label # Null}
=============================================================================
