---------------------------- MODULE RelationTrees ----------------------------
(***************************************************************************)
(* The relations of sph-db as the code stores them, in three b+trees with  *)
(* sorted duplicates (relation.c, relation-delete.c, record.c):            *)
(*    lr : left label  -> ordinal right                                    *)
(*    rl : right label -> left                                             *)
(*    ll : label       -> left                                             *)
(* rl and ll are redundant.  They are maintained by hand, entry by entry,  *)
(* and every operation trusts one of them to find what it works on:        *)
(* ensure looks in rl, a deletion by label in ll, a deletion by right in   *)
(* rl.  An action here is a whole call; RelationDelete has the cursor      *)
(* steps of a deletion.  The calls of one write transaction are seen by    *)
(* nobody else before its commit and LMDB has one writer, so trees is the  *)
(* content in the sequence of write transactions.                          *)
(***************************************************************************)
EXTENDS RelationEntries

CONSTANT Filters         \* the deletions that are called, a subset of Filter

VARIABLE trees           \* [lr, rl, ll]

ASSUME FiltersAssumption == Filters \subseteq Filter
-----------------------------------------------------------------------------
(* A mutant: no lookup in rl before the puts.                              *)
Ensured_Unchecked(t, left, label, right, generator) ==
  LET missing == left \X label \X right
  IN [lr |-> t.lr \cup {Lr(x[1], x[2], generator[x], x[3]) : x \in missing},
      rl |-> t.rl \cup {Rl(x[3], x[2], x[1]) : x \in missing},
      ll |-> t.ll \cup {Ll(x[2], x[1]) : x \in missing}]

(* A mutant: a relation that exists gets the new ordinal.                  *)
Ensured_Replaces(t, left, label, right, generator) ==
  LET given == left \X label \X right
  IN [lr |-> {e \in t.lr : <<e.key[1], e.key[2], e.data[2]>> \notin given}
             \cup {Lr(x[1], x[2], generator[x], x[3]) : x \in given},
      rl |-> t.rl \cup {Rl(x[3], x[2], x[1]) : x \in given},
      ll |-> t.ll \cup {Ll(x[2], x[1]) : x \in given}]
(* db_relation_ensure.  A combination counts as existing when rl has it.   *)
(* The ordinals are what the caller's generator returns.                   *)
Ensured(t, left, label, right, generator) ==
  LET missing == {x \in left \X label \X right : Rl(x[3], x[2], x[1]) \notin t.rl}
  IN [lr |-> t.lr \cup {Lr(x[1], x[2], generator[x], x[3]) : x \in missing},
      rl |-> t.rl \cup {Rl(x[3], x[2], x[1]) : x \in missing},
      ll |-> t.ll \cup {Ll(x[2], x[1]) : x \in missing}]

InScan_Below(condition, ordinal) ==
  condition = Null \/ /\ ScanStart(condition.min) <= ordinal
                      /\ condition.max = 0 \/ ordinal < condition.max

InScan(condition, ordinal) ==
  condition = Null \/ /\ ScanStart(condition.min) <= ordinal
                      /\ condition.max = 0 \/ ordinal <= condition.max

(* Mutants: rl, or ll, is forgotten.                                       *)
DeletedByLeft_KeepsRl(t, f) ==
  [lr |-> {e \in t.lr : ~(/\ e.key[1] \in f.left
                         /\ Selects(f.label, e.key[2])
                         /\ Selects(f.right, e.data[2]))},
   rl |-> t.rl, ll |-> t.ll]
DeletedByLeft_KeepsLl(t, f) ==
  LET gone == {e \in t.lr : /\ e.key[1] \in f.left
                            /\ Selects(f.label, e.key[2])
                            /\ Selects(f.right, e.data[2])}
  IN [lr |-> t.lr \ gone, rl |-> t.rl \ {RlOf(e) : e \in gone}, ll |-> t.ll]

(* 1000, 1010, 1100, 1110, 1001_1101 and 1011_1111: walk lr.  The ll entry *)
(* of a visited key goes when lr has no data for the key any more.         *)
DeletedByLeft(t, f) ==
  LET gone == {e \in t.lr : /\ e.key[1] \in f.left
                            /\ Selects(f.label, e.key[2])
                            /\ Selects(f.right, e.data[2])
                            /\ InScan(f.ordinal, e.data[1])}
      lr == t.lr \ gone
  IN [lr |-> lr,
      rl |-> t.rl \ {RlOf(e) : e \in gone},
      ll |-> {x \in t.ll : x.data \in f.left /\ Selects(f.label, x.key)
                             => HasKey(lr, x.data, x.key)}]

(* A mutant: the unconditional ll deletion of the walk 0110.               *)
DeletedByRight_Unconditional(t, f) ==
  LET found == {x \in t.rl : x.key[1] \in f.right}
  IN [lr |-> {e \in t.lr : RlOf(e) \notin found},
      rl |-> t.rl \ found,
      ll |-> t.ll \ {Ll(x.key[2], x.data) : x \in found}]

(* 0100: walk rl, take each relation out of lr, then out of ll if it was   *)
(* the last one of its left and label.                                     *)
DeletedByRight(t, f) ==
  LET found == {x \in t.rl : x.key[1] \in f.right}
      lr == {e \in t.lr : RlOf(e) \notin found}
  IN [lr |-> lr,
      rl |-> t.rl \ found,
      ll |-> t.ll \ {Ll(x.key[2], x.data) :
                       x \in {y \in found : ~HasKey(lr, y.data, y.key[2])}}]

(* 0110: walk rl, take each relation out of lr and ll; ll is not asked     *)
(* whether other relations need the entry.                                 *)
DeletedByRightAndLabel(t, f) ==
  LET found == {x \in t.rl : x.key[1] \in f.right /\ x.key[2] \in f.label}
  IN [lr |-> {e \in t.lr : RlOf(e) \notin found},
      rl |-> t.rl \ found,
      ll |-> t.ll \ {Ll(x.key[2], x.data) : x \in found}]

(* 0010: walk ll, delete all data of the lr keys it names.                 *)
DeletedByLabel(t, f) ==
  LET found == {x \in t.ll : x.key \in f.label}
      gone == {e \in t.lr : LlOf(e) \in found}
  IN [lr |-> t.lr \ gone,
      rl |-> t.rl \ {RlOf(e) : e \in gone},
      ll |-> t.ll \ found]

(* db_relation_internal_delete: which walk.  The ordinal condition is only *)
(* looked at when left is given; without any ids the call is refused with  *)
(* not_implemented.                                                        *)
Deleted(t, f) ==
  CASE f.left # Null -> DeletedByLeft(t, f)
    [] f.left = Null /\ f.right # Null /\ f.label # Null -> DeletedByRightAndLabel(t, f)
    [] f.left = Null /\ f.right # Null /\ f.label = Null -> DeletedByRight(t, f)
    [] f.left = Null /\ f.right = Null /\ f.label # Null -> DeletedByLabel(t, f)
    [] OTHER -> t

ByLeft(ids) == [left |-> ids, right |-> Null, label |-> Null, ordinal |-> Null]
ByRight(ids) == [left |-> Null, right |-> ids, label |-> Null, ordinal |-> Null]
ByLabel(ids) == [left |-> Null, right |-> Null, label |-> ids, ordinal |-> Null]

(* A mutant: relations that have the record as label are forgotten.        *)
WithoutRecords_LabelKept(t, ids) == Deleted(Deleted(t, ByLeft(ids)), ByRight(ids))

(* The three calls with which db_record_delete removes "references".       *)
WithoutRecords(t, ids) ==
  Deleted(Deleted(Deleted(t, ByLeft(ids)), ByRight(ids)), ByLabel(ids))
-----------------------------------------------------------------------------
Init == trees = [lr |-> {}, rl |-> {}, ll |-> {}]

Ensure(left, label, right) ==
  \E generator \in [left \X label \X right -> Ordinal] :
    trees' = Ensured(trees, left, label, right, generator)

Delete(f) == trees' = Deleted(trees, f)

DeleteRecords(ids) == trees' = WithoutRecords(trees, ids)

Next ==
  \/ \E left \in NonEmpty(Left), label \in NonEmpty(Label), right \in NonEmpty(Right) :
       Ensure(left, label, right)
  \/ \E f \in Filters : Delete(f)
  \/ \E ids \in NonEmpty(Left \cup Label \cup Right) : DeleteRecords(ids)

Spec == Init /\ [][Next]_trees
-----------------------------------------------------------------------------
(* At most one ordinal for a left, label and right.                        *)
Unique(t) == \A d, e \in t.lr : d.key = e.key /\ d.data[2] = e.data[2] => d = e
Mirrored(t) == t.rl = {RlOf(e) : e \in t.lr}
NoStrayLabel(t) == \A x \in t.ll : HasKey(t.lr, x.data, x.key)
NoLostLabel(t) == \A e \in t.lr : LlOf(e) \in t.ll

(* The three trees hold entries of their own kind.                         *)
TypeOK == trees \in Trees

(* "there can only be one relation for every combination of left, label    *)
(* and right" (internals.md).  lr alone does not rule two out, its data    *)
(* starts with the ordinal: db_relation_ensure keeps it by asking rl.      *)
OneRelation == Unique(trees)

(* rl has exactly the relations of lr: what db_relation_ensure and every   *)
(* deletion by right rely on.                                              *)
RlMirrorsLr == Mirrored(trees)

(* ll names no left for a label that has no such relation in lr: readers   *)
(* by label stop at the first one they do not find.                        *)
LlSound == NoStrayLabel(trees)

(* ll names every left that has a relation with the label: what a deletion *)
(* by label relies on.  Not kept by a deletion with right and label only.  *)
LlComplete == NoLostLabel(trees)

(* The deletions after which ll is still complete: all but the walk 0110.  *)
KeepsLabels(f) == f.left = Null => f.right = Null \/ f.label = Null

(* The deletions whose arguments the code looks at in full: some ids, an   *)
(* ordinal condition only with left, and a minimum that fits one byte.     *)
Heeded(f) == /\ ~(f.left = Null /\ f.right = Null /\ f.label = Null)
             /\ f.ordinal # Null => f.left # Null /\ f.ordinal.min < 256

(* "when a record is deleted then all relations that contain its id are    *)
(* deleted with it" (internals.md).                                        *)
DeletedRecordsLeaveNoRelation ==
  [][\A ids \in NonEmpty(Left \cup Label \cup Right) :
       DeleteRecords(ids) =>
         \A e \in trees'.lr : {e.key[1], e.key[2], e.data[2]} \cap ids = {}]_trees

(* The relations the trees stand for.                                      *)
AbstractGraph == {[left |-> e.key[1], label |-> e.key[2], ordinal |-> e.data[1],
                   right |-> e.data[2]] : e \in trees.lr}

G == INSTANCE RelationGraph WITH graph <- AbstractGraph

(* "delete all relations with any of the given ids at the corresponding    *)
(* position" (relation-delete.c): a deletion takes out the relations that  *)
(* match its arguments, the ordinal condition included, and no others.     *)
DeleteIsExact == [][\A f \in Filters : Delete(f) => G!Delete(f)]_trees

(* The trees implement the graph.                                          *)
ImplementsGraph == G!Spec
=============================================================================
