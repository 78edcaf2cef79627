------------------------- MODULE RelationTreesProofs -------------------------
(***************************************************************************)
(* That the three trees stay in step, for any ids, ordinals and deletions, *)
(* and that they implement the graph of RelationGraph.                     *)
(*                                                                         *)
(* Each operation is an operator from trees to trees, so the invariance    *)
(* proofs rest on one lemma per operation: it takes trees that are in step *)
(* to trees that are in step.  db_record_delete, three deletions in a row, *)
(* then needs no proof of its own.                                         *)
(***************************************************************************)
EXTENDS RelationTrees, TLAPS

(* The inductive invariant: uniqueness needs rl to mirror lr (ensure looks *)
(* for a relation in rl), and the mirror needs uniqueness (taking one      *)
(* entry from lr takes the only one that rl has an entry for).             *)
InStep(t) == t \in Trees /\ Unique(t) /\ Mirrored(t) /\ NoStrayLabel(t)

(* Two entries with the same mirror image are the same.                    *)
LEMMA RlOfInjective ==
  ASSUME NEW t, t \in Trees, Unique(t), NEW d \in t.lr, NEW e \in t.lr, RlOf(d) = RlOf(e)
  PROVE  d = e
<1>1. /\ d.key[1] \in Left /\ d.key[2] \in Label /\ d.key = <<d.key[1], d.key[2]>>
      /\ e.key[1] \in Left /\ e.key[2] \in Label /\ e.key = <<e.key[1], e.key[2]>>
  BY DEF Trees, LrEntry
<1>2. d.key[1] = e.key[1] /\ d.key[2] = e.key[2] /\ d.data[2] = e.data[2]
  BY <1>1 DEF RlOf, Rl
<1>3. QED
  BY <1>1, <1>2 DEF Unique

(* The mirror images of typed entries are typed.                           *)
LEMMA ImagesTyped ==
  ASSUME NEW e \in LrEntry
  PROVE  RlOf(e) \in RlEntry /\ LlOf(e) \in LlEntry
BY DEF LrEntry, RlEntry, LlEntry, RlOf, Rl, LlOf, Ll

(* Taking entries from lr together with their images from rl keeps the     *)
(* trees in step, whatever of ll goes, as long as ll stays sound.          *)
LEMMA RemovalKeepsStep ==
  ASSUME NEW t, InStep(t), NEW gone \in SUBSET t.lr, NEW ll \in SUBSET t.ll,
         \A x \in ll : HasKey(t.lr \ gone, x.data, x.key)
  PROVE  InStep([lr |-> t.lr \ gone, rl |-> t.rl \ {RlOf(e) : e \in gone}, ll |-> ll])
<1> DEFINE u == [lr |-> t.lr \ gone, rl |-> t.rl \ {RlOf(e) : e \in gone}, ll |-> ll]
<1>1. t \in Trees /\ Unique(t) /\ Mirrored(t)
  BY DEF InStep
<1>2. u \in Trees
  BY <1>1 DEF Trees
<1>3. Unique(u)
  BY <1>1 DEF Unique
<1>4. Mirrored(u)
  <2>1. \A d \in t.lr \ gone : \A e \in gone : RlOf(d) # RlOf(e)
    BY <1>1, RlOfInjective
  <2>2. {RlOf(e) : e \in t.lr} \ {RlOf(e) : e \in gone} = {RlOf(e) : e \in t.lr \ gone}
    BY <2>1
  <2>3. QED
    BY <1>1, <2>2 DEF Mirrored
<1>5. NoStrayLabel(u)
  BY DEF NoStrayLabel
<1>6. QED
  BY <1>2, <1>3, <1>4, <1>5 DEF InStep
-----------------------------------------------------------------------------
(* The deletions.                                                          *)

LEMMA DeletedByLeftInStep ==
  ASSUME NEW t, InStep(t), NEW f
  PROVE  InStep(DeletedByLeft(t, f))
<1> DEFINE gone == {e \in t.lr : /\ e.key[1] \in f.left
                                 /\ Selects(f.label, e.key[2])
                                 /\ Selects(f.right, e.data[2])
                                 /\ InScan(f.ordinal, e.data[1])}
           ll == {x \in t.ll : x.data \in f.left /\ Selects(f.label, x.key)
                                 => HasKey(t.lr \ gone, x.data, x.key)}
<1>1. \A x \in ll : HasKey(t.lr \ gone, x.data, x.key)
  <2> SUFFICES ASSUME NEW x \in ll, ~(x.data \in f.left /\ Selects(f.label, x.key))
               PROVE  HasKey(t.lr \ gone, x.data, x.key)
    OBVIOUS
  <2>1. PICK e \in t.lr : e.key = <<x.data, x.key>>
    BY DEF InStep, NoStrayLabel, HasKey
  <2>2. e \notin gone
    BY <2>1
  <2>3. QED
    BY <2>1, <2>2 DEF HasKey
<1>2. gone \in SUBSET t.lr /\ ll \in SUBSET t.ll
  OBVIOUS
<1>3. DeletedByLeft(t, f) =
        [lr |-> t.lr \ gone, rl |-> t.rl \ {RlOf(e) : e \in gone}, ll |-> ll]
  BY DEF DeletedByLeft
<1> HIDE DEF gone, ll
<1>4. QED
  BY <1>1, <1>2, <1>3, RemovalKeepsStep

(* A set of rl entries is the image of the lr entries it is taken from.    *)
LEMMA FoundInLr ==
  ASSUME NEW t, InStep(t), NEW found \in SUBSET t.rl
  PROVE  /\ {e \in t.lr : RlOf(e) \notin found} = t.lr \ {e \in t.lr : RlOf(e) \in found}
         /\ found = {RlOf(e) : e \in {d \in t.lr : RlOf(d) \in found}}
BY DEF InStep, Mirrored

LEMMA DeletedByRightInStep ==
  ASSUME NEW t, InStep(t), NEW f
  PROVE  InStep(DeletedByRight(t, f))
<1> DEFINE found == {x \in t.rl : x.key[1] \in f.right}
           lr == {e \in t.lr : RlOf(e) \notin found}
           gone == {e \in t.lr : RlOf(e) \in found}
           ll == t.ll \ {Ll(x.key[2], x.data) :
                           x \in {y \in found : ~HasKey(lr, y.data, y.key[2])}}
<1>1. \A x \in ll : HasKey(lr, x.data, x.key)
  <2> SUFFICES ASSUME NEW x \in ll, ~HasKey(lr, x.data, x.key)
               PROVE  FALSE
    OBVIOUS
  <2>1. PICK e \in t.lr : e.key = <<x.data, x.key>>
    BY DEF InStep, NoStrayLabel, HasKey
  <2>2. RlOf(e) \in found
    BY <2>1 DEF HasKey
  <2>3. RlOf(e).data = x.data /\ RlOf(e).key[2] = x.key
    BY <2>1 DEF RlOf, Rl
  <2>4. x = Ll(x.key, x.data)
    BY DEF InStep, Trees, LlEntry, Ll
  <2>5. QED
    BY <2>2, <2>3, <2>4
<1>2. found \in SUBSET t.rl /\ gone \in SUBSET t.lr /\ ll \in SUBSET t.ll
  OBVIOUS
<1>3. DeletedByRight(t, f) = [lr |-> lr, rl |-> t.rl \ found, ll |-> ll]
  BY DEF DeletedByRight
<1> HIDE DEF found, ll
<1>4. lr = t.lr \ gone /\ found = {RlOf(e) : e \in gone}
  BY <1>2, FoundInLr
<1> HIDE DEF lr, gone
<1>5. QED
  BY <1>1, <1>2, <1>3, <1>4, RemovalKeepsStep

LEMMA DeletedByRightAndLabelInStep ==
  ASSUME NEW t, InStep(t), NEW f
  PROVE  InStep(DeletedByRightAndLabel(t, f))
<1> DEFINE found == {x \in t.rl : x.key[1] \in f.right /\ x.key[2] \in f.label}
           lr == {e \in t.lr : RlOf(e) \notin found}
           gone == {e \in t.lr : RlOf(e) \in found}
           ll == t.ll \ {Ll(x.key[2], x.data) : x \in found}
<1>1. \A x \in ll : HasKey(lr, x.data, x.key)
  <2> SUFFICES ASSUME NEW x \in ll, ~HasKey(lr, x.data, x.key)
               PROVE  FALSE
    OBVIOUS
  <2>1. PICK e \in t.lr : e.key = <<x.data, x.key>>
    BY DEF InStep, NoStrayLabel, HasKey
  <2>2. RlOf(e) \in found
    BY <2>1 DEF HasKey
  <2>3. RlOf(e).data = x.data /\ RlOf(e).key[2] = x.key
    BY <2>1 DEF RlOf, Rl
  <2>4. x = Ll(x.key, x.data)
    BY DEF InStep, Trees, LlEntry, Ll
  <2>5. QED
    BY <2>2, <2>3, <2>4
<1>2. found \in SUBSET t.rl /\ gone \in SUBSET t.lr /\ ll \in SUBSET t.ll
  OBVIOUS
<1>3. DeletedByRightAndLabel(t, f) = [lr |-> lr, rl |-> t.rl \ found, ll |-> ll]
  BY DEF DeletedByRightAndLabel
<1> HIDE DEF found, ll
<1>4. lr = t.lr \ gone /\ found = {RlOf(e) : e \in gone}
  BY <1>2, FoundInLr
<1> HIDE DEF lr, gone
<1>5. QED
  BY <1>1, <1>2, <1>3, <1>4, RemovalKeepsStep

LEMMA DeletedByLabelInStep ==
  ASSUME NEW t, InStep(t), NEW f
  PROVE  InStep(DeletedByLabel(t, f))
<1> DEFINE found == {x \in t.ll : x.key \in f.label}
           gone == {e \in t.lr : LlOf(e) \in found}
           ll == t.ll \ found
<1>1. \A x \in ll : HasKey(t.lr \ gone, x.data, x.key)
  <2> SUFFICES ASSUME NEW x \in ll
               PROVE  HasKey(t.lr \ gone, x.data, x.key)
    OBVIOUS
  <2>1. PICK e \in t.lr : e.key = <<x.data, x.key>>
    BY DEF InStep, NoStrayLabel, HasKey
  <2>2. LlOf(e) = x
    BY <2>1 DEF InStep, Trees, LlEntry, LlOf, Ll
  <2>3. QED
    BY <2>1, <2>2 DEF HasKey
<1>2. gone \in SUBSET t.lr /\ ll \in SUBSET t.ll
  OBVIOUS
<1>3. DeletedByLabel(t, f) =
        [lr |-> t.lr \ gone, rl |-> t.rl \ {RlOf(e) : e \in gone}, ll |-> ll]
  BY DEF DeletedByLabel
<1> HIDE DEF gone, ll
<1>4. QED
  BY <1>1, <1>2, <1>3, RemovalKeepsStep

LEMMA DeletedInStep ==
  ASSUME NEW t, InStep(t), NEW f
  PROVE  InStep(Deleted(t, f))
BY DeletedByLeftInStep, DeletedByRightInStep, DeletedByRightAndLabelInStep,
   DeletedByLabelInStep DEF Deleted

LEMMA WithoutRecordsInStep ==
  ASSUME NEW t, InStep(t), NEW ids
  PROVE  InStep(WithoutRecords(t, ids))
BY DeletedInStep DEF WithoutRecords
-----------------------------------------------------------------------------
(* db_relation_ensure.                                                     *)

LEMMA EnsuredInStep ==
  ASSUME NEW t, InStep(t),
         NEW left \in SUBSET Left, NEW label \in SUBSET Label, NEW right \in SUBSET Right,
         NEW generator \in [left \X label \X right -> Ordinal]
  PROVE  InStep(Ensured(t, left, label, right, generator))
<1> DEFINE missing == {x \in left \X label \X right : Rl(x[3], x[2], x[1]) \notin t.rl}
           new(x) == Lr(x[1], x[2], generator[x], x[3])
           u == Ensured(t, left, label, right, generator)
<1>1. t \in Trees /\ Unique(t) /\ Mirrored(t) /\ NoStrayLabel(t)
  BY DEF InStep
<1>2. u = [lr |-> t.lr \cup {new(x) : x \in missing},
           rl |-> t.rl \cup {Rl(x[3], x[2], x[1]) : x \in missing},
           ll |-> t.ll \cup {Ll(x[2], x[1]) : x \in missing}]
  BY DEF Ensured
<1>3. \A x \in missing : /\ x[1] \in Left /\ x[2] \in Label /\ x[3] \in Right
                         /\ generator[x] \in Ordinal
                         /\ x = <<x[1], x[2], x[3]>>
  OBVIOUS
<1>4. \A x \in missing : /\ new(x) \in LrEntry
                         /\ RlOf(new(x)) = Rl(x[3], x[2], x[1])
                         /\ LlOf(new(x)) = Ll(x[2], x[1])
                         /\ new(x).key = <<x[1], x[2]>>
                         /\ new(x).data[2] = x[3]
  BY <1>3 DEF LrEntry, Lr, RlOf, LlOf
<1>5. \A x \in missing : Rl(x[3], x[2], x[1]) \in RlEntry /\ Ll(x[2], x[1]) \in LlEntry
  BY <1>3 DEF RlEntry, LlEntry, Rl, Ll
<1>6. \A x \in missing : \A e \in t.lr : RlOf(e) # RlOf(new(x))
  BY <1>1, <1>4 DEF Mirrored
<1> HIDE DEF missing, u
<1>7. u \in Trees
  BY <1>1, <1>2, <1>4, <1>5 DEF Trees
<1>8. Unique(u)
  <2> SUFFICES ASSUME NEW d \in u.lr, NEW e \in u.lr, d.key = e.key, d.data[2] = e.data[2]
               PROVE  d = e
    BY DEF Unique
  <2>1. RlOf(d) = RlOf(e)
    BY DEF RlOf
  <2>2. CASE d \in t.lr /\ e \in t.lr
    BY <1>1, <2>2 DEF Unique
  <2>3. CASE d \notin t.lr /\ e \notin t.lr
    <3>1. PICK x \in missing : d = new(x)
      BY <1>2, <2>3
    <3>2. PICK y \in missing : e = new(y)
      BY <1>2, <2>3
    <3>3. <<x[1], x[2]>> = <<y[1], y[2]>> /\ x[3] = y[3]
      BY <1>4, <3>1, <3>2
    <3>4. x = y
      BY <1>3, <3>3
    <3>5. QED
      BY <3>1, <3>2, <3>4
  <2>4. QED
    BY <1>2, <1>6, <2>1, <2>2, <2>3
<1>9. Mirrored(u)
  <2>1. {RlOf(e) : e \in u.lr} =
          {RlOf(e) : e \in t.lr} \cup {RlOf(new(x)) : x \in missing}
    BY <1>2
  <2>2. QED
    BY <1>1, <1>2, <1>4, <2>1 DEF Mirrored
<1>10. NoStrayLabel(u)
  <2> SUFFICES ASSUME NEW z \in u.ll
               PROVE  HasKey(u.lr, z.data, z.key)
    BY DEF NoStrayLabel
  <2>1. CASE z \in t.ll
    BY <1>1, <1>2, <2>1 DEF NoStrayLabel, HasKey
  <2>2. CASE z \notin t.ll
    <3>1. PICK x \in missing : z = Ll(x[2], x[1])
      BY <1>2, <2>2
    <3>2. new(x) \in u.lr /\ new(x).key = <<z.data, z.key>>
      BY <1>2, <1>4, <3>1 DEF Ll
    <3>3. QED
      BY <3>2 DEF HasKey
  <2>3. QED
    BY <2>1, <2>2
<1>11. QED
  BY <1>7, <1>8, <1>9, <1>10 DEF InStep, u
-----------------------------------------------------------------------------
(* The trees are in step in every reachable state, whatever deletions are  *)
(* called: db_relation_ensure, every walk of db_relation_delete and        *)
(* db_record_delete leave rl the mirror of lr, at most one relation for a  *)
(* left, label and right, and no stray entry in ll.                        *)
THEOREM TreesInStep == Spec => []InStep(trees)
<1>1. Init => InStep(trees)
  BY DEF Init, InStep, Trees, Unique, Mirrored, NoStrayLabel
<1>2. InStep(trees) /\ [Next]_trees => InStep(trees)'
  <2> SUFFICES ASSUME InStep(trees), [Next]_trees
               PROVE  InStep(trees')
    OBVIOUS
  <2>1. ASSUME NEW left \in NonEmpty(Left), NEW label \in NonEmpty(Label),
               NEW right \in NonEmpty(Right), Ensure(left, label, right)
        PROVE  InStep(trees')
    BY <2>1, EnsuredInStep DEF Ensure, NonEmpty
  <2>2. ASSUME NEW f \in Filters, Delete(f)
        PROVE  InStep(trees')
    BY <2>2, DeletedInStep DEF Delete
  <2>3. ASSUME NEW ids, DeleteRecords(ids)
        PROVE  InStep(trees')
    BY <2>3, WithoutRecordsInStep DEF DeleteRecords
  <2>4. QED
    BY <2>1, <2>2, <2>3 DEF Next
<1>3. QED
  BY <1>1, <1>2, PTL DEF Spec

(* The content of the trees keeps its type.                                *)
THEOREM TypeCorrect == Spec => []TypeOK
<1>1. InStep(trees) => TypeOK
  BY DEF InStep, TypeOK
<1>2. QED
  BY <1>1, TreesInStep, PTL

(* "there can only be one relation for every combination of left, label    *)
(* and right" (internals.md), after any sequence of calls.                 *)
THEOREM AtMostOneRelation == Spec => []OneRelation
<1>1. InStep(trees) => OneRelation
  BY DEF InStep, OneRelation
<1>2. QED
  BY <1>1, TreesInStep, PTL

(* What ensure and the deletions by right look up in rl is what lr has.    *)
THEOREM RlAgreesWithLr == Spec => []RlMirrorsLr
<1>1. InStep(trees) => RlMirrorsLr
  BY DEF InStep, RlMirrorsLr
<1>2. QED
  BY <1>1, TreesInStep, PTL

(* Every label entry of ll has a relation in lr.                           *)
THEOREM NoStrayLabels == Spec => []LlSound
<1>1. InStep(trees) => LlSound
  BY DEF InStep, LlSound
<1>2. QED
  BY <1>1, TreesInStep, PTL
-----------------------------------------------------------------------------
(* The completeness of ll, which a deletion with right and label but not   *)
(* left does not keep: the theorems on it are for callers without those.   *)
OnlyKeepingLabels == \A f \in Filters : KeepsLabels(f)

InFullStep(t) == InStep(t) /\ NoLostLabel(t)

LEMMA DeletedKeepsLabels ==
  ASSUME NEW t, InFullStep(t), NEW f, KeepsLabels(f)
  PROVE  InFullStep(Deleted(t, f))
<1>1. \A e \in t.lr : /\ LlOf(e).data = e.key[1]
                      /\ LlOf(e).key = e.key[2]
                      /\ e.key = <<e.key[1], e.key[2]>>
  BY DEF InFullStep, InStep, Trees, LrEntry, LlOf, Ll
<1>2. \A e \in t.lr : LlOf(e) \in t.ll
  BY DEF InFullStep, NoLostLabel
<1>3. NoLostLabel(DeletedByLeft(t, f))
  BY <1>1, <1>2 DEF DeletedByLeft, HasKey, NoLostLabel
<1>4. NoLostLabel(DeletedByRight(t, f))
  BY <1>1, <1>2 DEF DeletedByRight, HasKey, Ll, NoLostLabel
<1>5. NoLostLabel(DeletedByLabel(t, f))
  BY <1>1, <1>2 DEF DeletedByLabel, NoLostLabel
<1>6. InStep(Deleted(t, f))
  BY DeletedInStep DEF InFullStep
<1>7. QED
  BY <1>3, <1>4, <1>5, <1>6 DEF Deleted, KeepsLabels, InFullStep

LEMMA WithoutRecordsKeepsLabels ==
  ASSUME NEW t, InFullStep(t), NEW ids
  PROVE  InFullStep(WithoutRecords(t, ids))
<1>1. KeepsLabels(ByLeft(ids)) /\ KeepsLabels(ByRight(ids)) /\ KeepsLabels(ByLabel(ids))
  BY DEF KeepsLabels, ByLeft, ByRight, ByLabel
<1>2. QED
  BY <1>1, DeletedKeepsLabels DEF WithoutRecords

LEMMA EnsuredKeepsLabels ==
  ASSUME NEW t, InFullStep(t),
         NEW left \in SUBSET Left, NEW label \in SUBSET Label, NEW right \in SUBSET Right,
         NEW generator \in [left \X label \X right -> Ordinal]
  PROVE  InFullStep(Ensured(t, left, label, right, generator))
<1> DEFINE u == Ensured(t, left, label, right, generator)
           missing == {x \in left \X label \X right : Rl(x[3], x[2], x[1]) \notin t.rl}
<1>1. /\ u.lr = t.lr \cup {Lr(x[1], x[2], generator[x], x[3]) : x \in missing}
      /\ u.ll = t.ll \cup {Ll(x[2], x[1]) : x \in missing}
  BY DEF Ensured
<1>2. \A x \in missing : LlOf(Lr(x[1], x[2], generator[x], x[3])) = Ll(x[2], x[1])
  BY DEF LlOf, Lr
<1>3. \A e \in t.lr : LlOf(e) \in t.ll
  BY DEF InFullStep, NoLostLabel
<1> HIDE DEF u, missing
<1>4. NoLostLabel(u)
  BY <1>1, <1>2, <1>3 DEF NoLostLabel
<1>5. QED
  BY <1>4, EnsuredInStep DEF InFullStep, u

LEMMA FullStepInvariant == OnlyKeepingLabels => (Spec => []InFullStep(trees))
<1> SUFFICES ASSUME OnlyKeepingLabels
             PROVE  Spec => []InFullStep(trees)
  OBVIOUS
<1>1. Init => InFullStep(trees)
  BY DEF Init, InFullStep, InStep, Trees, Unique, Mirrored, NoStrayLabel, NoLostLabel
<1>2. InFullStep(trees) /\ [Next]_trees => InFullStep(trees)'
  <2> SUFFICES ASSUME InFullStep(trees), [Next]_trees
               PROVE  InFullStep(trees')
    OBVIOUS
  <2>1. ASSUME NEW left \in NonEmpty(Left), NEW label \in NonEmpty(Label),
               NEW right \in NonEmpty(Right), Ensure(left, label, right)
        PROVE  InFullStep(trees')
    BY <2>1, EnsuredKeepsLabels DEF Ensure, NonEmpty
  <2>2. ASSUME NEW f \in Filters, Delete(f)
        PROVE  InFullStep(trees')
    BY <2>2, DeletedKeepsLabels DEF Delete, OnlyKeepingLabels
  <2>3. ASSUME NEW ids, DeleteRecords(ids)
        PROVE  InFullStep(trees')
    BY <2>3, WithoutRecordsKeepsLabels DEF DeleteRecords
  <2>4. QED
    BY <2>1, <2>2, <2>3 DEF Next
<1>3. QED
  BY <1>1, <1>2, PTL DEF Spec

(* Without deletions by right and label only, ll names every left of every *)
(* label: a deletion by label finds all of its relations.                  *)
THEOREM NoLostLabels == OnlyKeepingLabels => (Spec => []LlComplete)
<1>1. InFullStep(trees) => LlComplete
  BY DEF InFullStep, LlComplete
<1>2. QED
  BY <1>1, FullStepInvariant, PTL
-----------------------------------------------------------------------------
(* Deletions are exact, deleted records leave nothing behind, and the      *)
(* trees implement the abstract graph, for callers whose deletions keep ll *)
(* complete and are heeded in full.                                        *)

OnlyHeeded == \A f \in Filters : Heeded(f)

Edge(e) == [left |-> e.key[1], label |-> e.key[2], ordinal |-> e.data[1],
            right |-> e.data[2]]

LEMMA EdgesOfLr == AbstractGraph = {Edge(e) : e \in trees.lr}
BY DEF AbstractGraph, Edge

(* A minimum that fits one byte is where the scan starts.                  *)
LEMMA NarrowMinimum ==
  ASSUME NEW n \in Nat, n < 256
  PROVE  ScanStart(n) = n
BY DEF ScanStart

(* What a deletion leaves in lr is what its arguments do not match.        *)
LEMMA DeletedExactly ==
  ASSUME NEW t, InFullStep(t), NEW f \in Filter, Heeded(f)
  PROVE  Deleted(t, f).lr = {e \in t.lr : ~G!Matches(f, Edge(e))}
<1> USE DEF G!Matches, G!Selects, G!InRange, Edge, Selects
<1>1. t.lr \in SUBSET LrEntry /\ t.rl = {RlOf(e) : e \in t.lr}
  BY DEF InFullStep, InStep, Trees, Mirrored
<1>2. \A e \in t.lr : LlOf(e) \in t.ll
  BY DEF InFullStep, NoLostLabel
<1>3. CASE f.left # Null
  <2>1. \A e \in t.lr : InScan(f.ordinal, e.data[1]) <=> G!InRange(f.ordinal, e.data[1])
    <3>1. CASE f.ordinal = Null
      BY <3>1 DEF InScan
    <3>2. CASE f.ordinal # Null
      <4>1. f.ordinal.min \in Nat /\ f.ordinal.min < 256
        BY <3>2, OrdinalAssumption DEF Filter, OrdinalCondition, Heeded
      <4>2. ScanStart(f.ordinal.min) = f.ordinal.min
        BY <4>1, NarrowMinimum
      <4>3. QED
        BY <3>2, <4>2 DEF InScan
    <3>3. QED
      BY <3>1, <3>2
  <2>2. Deleted(t, f).lr = DeletedByLeft(t, f).lr
    BY <1>3 DEF Deleted
  <2>3. QED
    BY <1>3, <2>1, <2>2 DEF DeletedByLeft
<1>4. CASE f.left = Null /\ f.right # Null
  <2>1. f.ordinal = Null
    BY <1>4 DEF Heeded
  <2>2. \A e \in t.lr : RlOf(e) \in t.rl /\ RlOf(e).key[1] = e.data[2]
                                         /\ RlOf(e).key[2] = e.key[2]
    BY <1>1 DEF RlOf, Rl
  <2>3. CASE f.label = Null
    BY <1>4, <2>1, <2>2, <2>3 DEF Deleted, DeletedByRight
  <2>4. CASE f.label # Null
    BY <1>4, <2>1, <2>2, <2>4 DEF Deleted, DeletedByRightAndLabel
  <2>5. QED
    BY <2>3, <2>4
<1>5. CASE f.left = Null /\ f.right = Null
  <2>1. f.ordinal = Null /\ f.label # Null
    BY <1>5 DEF Heeded
  <2>2. \A e \in t.lr : LlOf(e).key = e.key[2]
    BY DEF LlOf, Ll
  <2>3. QED
    BY <1>2, <1>5, <2>1, <2>2 DEF Deleted, DeletedByLabel
<1>6. QED
  BY <1>3, <1>4, <1>5

(* Hence a deletion is one of the graph.                                   *)
LEMMA DeletionOfGraph ==
  ASSUME InFullStep(trees), NEW f \in Filter, Heeded(f), Delete(f)
  PROVE  G!Delete(f)
<1>1. trees'.lr = {e \in trees.lr : ~G!Matches(f, Edge(e))}
  BY DeletedExactly DEF Delete
<1>2. AbstractGraph' = {Edge(e) : e \in trees'.lr}
  BY DEF AbstractGraph, Edge
<1>3. AbstractGraph' = {d \in AbstractGraph : ~G!Matches(f, d)}
  BY <1>1, <1>2, EdgesOfLr
<1>4. QED
  BY <1>3 DEF G!Delete

(* A deletion takes out the relations its arguments match and no others.   *)
THEOREM DeletionsAreExact == OnlyKeepingLabels /\ OnlyHeeded => (Spec => DeleteIsExact)
<1> SUFFICES ASSUME OnlyKeepingLabels, OnlyHeeded
             PROVE  Spec => DeleteIsExact
  OBVIOUS
<1>1. Spec => []InFullStep(trees)
  BY FullStepInvariant
<1>2. InFullStep(trees) => \A f \in Filters : Delete(f) => G!Delete(f)
  BY FiltersAssumption, DeletionOfGraph DEF OnlyHeeded
<1>3. QED
  BY <1>1, <1>2, PTL DEF DeleteIsExact
-----------------------------------------------------------------------------
(* db_record_delete.                                                       *)

AllIds == Left \cup Label \cup Right

Untouched(t, ids) ==
  {e \in t.lr : e.key[1] \notin ids /\ e.key[2] \notin ids /\ e.data[2] \notin ids}

LEMMA WithoutRecordsExactly ==
  ASSUME NEW t, InFullStep(t), NEW ids \in NonEmpty(AllIds)
  PROVE  WithoutRecords(t, ids).lr = Untouched(t, ids)
<1> DEFINE t1 == Deleted(t, ByLeft(ids))
           t2 == Deleted(t1, ByRight(ids))
           t3 == Deleted(t2, ByLabel(ids))
<1>1. ids # Null
  BY NullAssumption DEF NonEmpty, AllIds
<1>2. KeepsLabels(ByLeft(ids)) /\ KeepsLabels(ByRight(ids))
  BY DEF KeepsLabels, ByLeft, ByRight
<1>3. InFullStep(t1) /\ InFullStep(t2)
  BY <1>2, DeletedKeepsLabels
<1>4. t1.lr = {e \in t.lr : e.key[1] \notin ids}
  BY <1>1 DEF ByLeft, Deleted, DeletedByLeft, Selects, InScan
<1>5. t2.lr = {e \in t1.lr : e.data[2] \notin ids}
  <2> HIDE DEF t1
  <2>1. \A e \in t1.lr : RlOf(e) \in t1.rl /\ RlOf(e).key[1] = e.data[2]
    BY <1>3 DEF InFullStep, InStep, Mirrored, RlOf, Rl
  <2>2. t2 = DeletedByRight(t1, ByRight(ids)) /\ ByRight(ids).right = ids
    BY <1>1 DEF Deleted, ByRight
  <2>3. QED
    BY <2>1, <2>2 DEF DeletedByRight
<1>6. t3.lr = {e \in t2.lr : e.key[2] \notin ids}
  <2> HIDE DEF t2
  <2>1. \A e \in t2.lr : LlOf(e) \in t2.ll
    BY <1>3 DEF InFullStep, NoLostLabel
  <2>2. \A e \in t2.lr : LlOf(e).key = e.key[2]
    BY DEF LlOf, Ll
  <2>3. t3 = DeletedByLabel(t2, ByLabel(ids)) /\ ByLabel(ids).label = ids
    BY <1>1 DEF Deleted, ByLabel
  <2>4. QED
    BY <2>1, <2>2, <2>3 DEF DeletedByLabel
<1> HIDE DEF t1, t2, t3
<1>7. WithoutRecords(t, ids) = t3
  BY DEF WithoutRecords, t1, t2, t3
<1>8. QED
  BY <1>4, <1>5, <1>6, <1>7 DEF Untouched

(* Once records are deleted, no relation contains their ids, at any of its *)
(* three positions.                                                        *)
THEOREM NoRelationOfDeletedRecords ==
  OnlyKeepingLabels => (Spec => DeletedRecordsLeaveNoRelation)
<1> SUFFICES ASSUME OnlyKeepingLabels
             PROVE  Spec => DeletedRecordsLeaveNoRelation
  OBVIOUS
<1>1. Spec => []InFullStep(trees)
  BY FullStepInvariant
<1>2. InFullStep(trees) =>
        \A ids \in NonEmpty(Left \cup Label \cup Right) :
          DeleteRecords(ids) =>
            \A e \in trees'.lr : {e.key[1], e.key[2], e.data[2]} \cap ids = {}
  BY WithoutRecordsExactly DEF DeleteRecords, Untouched, AllIds
<1>3. QED
  BY <1>1, <1>2, PTL DEF DeletedRecordsLeaveNoRelation
-----------------------------------------------------------------------------
(* The refinement: every call is a step of the graph.                      *)

LEMMA EnsureOfGraph ==
  ASSUME InFullStep(trees), NEW left \in SUBSET Left, NEW label \in SUBSET Label,
         NEW right \in SUBSET Right, NEW generator \in [left \X label \X right -> Ordinal],
         trees' = Ensured(trees, left, label, right, generator)
  PROVE  G!Ensure(left, label, right, generator)
<1> DEFINE absent == {x \in left \X label \X right : Rl(x[3], x[2], x[1]) \notin trees.rl}
           missing == (left \X label \X right) \ {G!Triple(d) : d \in AbstractGraph}
           new(x) == Lr(x[1], x[2], generator[x], x[3])
<1>1. trees.lr \in SUBSET LrEntry /\ trees.rl = {RlOf(e) : e \in trees.lr}
  BY DEF InFullStep, InStep, Trees, Mirrored
<1>2. \A e \in trees.lr : G!Triple(Edge(e)) = <<e.key[1], e.key[2], e.data[2]>>
  BY DEF G!Triple, Edge
<1>3. \A x \in left \X label \X right : \A e \in trees.lr :
        RlOf(e) = Rl(x[3], x[2], x[1]) <=> <<e.key[1], e.key[2], e.data[2]>> = x
  BY DEF RlOf, Rl
<1>4. absent = missing
  BY <1>1, <1>2, <1>3, EdgesOfLr
<1>5. trees'.lr = trees.lr \cup {new(x) : x \in absent}
  BY DEF Ensured
<1>6. AbstractGraph' = {Edge(e) : e \in trees'.lr}
  BY DEF AbstractGraph, Edge
<1>7. \A x \in absent : Edge(new(x)) = [left |-> x[1], label |-> x[2],
                                        ordinal |-> generator[x], right |-> x[3]]
  BY DEF Edge, Lr
<1> HIDE DEF absent, new
<1>8. AbstractGraph' = AbstractGraph \cup {Edge(new(x)) : x \in absent}
  BY <1>5, <1>6, EdgesOfLr
<1>9. QED
  BY <1>4, <1>7, <1>8 DEF G!Ensure

LEMMA RecordDeletionOfGraph ==
  ASSUME InFullStep(trees), NEW ids \in NonEmpty(AllIds), DeleteRecords(ids)
  PROVE  G!DeleteRecords(ids)
<1>1. trees'.lr = Untouched(trees, ids)
  BY WithoutRecordsExactly DEF DeleteRecords
<1>2. AbstractGraph' = {Edge(e) : e \in trees'.lr}
  BY DEF AbstractGraph, Edge
<1>3. AbstractGraph' = {d \in AbstractGraph : /\ d.left \notin ids
                                              /\ d.label \notin ids
                                              /\ d.right \notin ids}
  BY <1>1, <1>2, EdgesOfLr DEF Untouched, Edge
<1>4. QED
  BY <1>3 DEF G!DeleteRecords

(* The three trees implement the labelled graph of RelationGraph: creating *)
(* relations, deleting relations and deleting records each do exactly one  *)
(* step of it.                                                             *)
THEOREM TreesImplementGraph ==
  OnlyKeepingLabels /\ OnlyHeeded => (Spec => ImplementsGraph)
<1> SUFFICES ASSUME OnlyKeepingLabels, OnlyHeeded
             PROVE  Spec => ImplementsGraph
  OBVIOUS
<1>1. Spec => []InFullStep(trees)
  BY FullStepInvariant
<1>2. Init => G!Init
  BY DEF Init, G!Init, AbstractGraph
<1>3. InFullStep(trees) /\ [Next]_trees => [G!Next]_AbstractGraph
  <2> SUFFICES ASSUME InFullStep(trees), Next
               PROVE  G!Next
    BY DEF AbstractGraph
  <2>1. ASSUME NEW left \in NonEmpty(Left), NEW label \in NonEmpty(Label),
               NEW right \in NonEmpty(Right), Ensure(left, label, right)
        PROVE  G!Next
    <3>1. PICK generator \in [left \X label \X right -> Ordinal] :
            trees' = Ensured(trees, left, label, right, generator)
      BY <2>1 DEF Ensure
    <3>2. G!Ensure(left, label, right, generator)
      BY <3>1, EnsureOfGraph DEF NonEmpty
    <3>3. QED
      BY <3>2 DEF G!Next, G!NonEmpty, NonEmpty
  <2>2. ASSUME NEW f \in Filters, Delete(f)
        PROVE  G!Next
    <3>1. f \in Filter /\ Heeded(f)
      BY FiltersAssumption DEF OnlyHeeded
    <3>2. G!Delete(f)
      BY <2>2, <3>1, DeletionOfGraph
    <3>3. f \in G!Filter
      BY <3>1 DEF Filter, G!Filter, OrdinalCondition, G!OrdinalCondition, NonEmpty, G!NonEmpty
    <3>4. QED
      BY <3>2, <3>3 DEF G!Next
  <2>3. ASSUME NEW ids \in NonEmpty(Left \cup Label \cup Right), DeleteRecords(ids)
        PROVE  G!Next
    <3>1. G!DeleteRecords(ids)
      BY <2>3, RecordDeletionOfGraph DEF AllIds
    <3>2. QED
      BY <3>1 DEF G!Next, G!NonEmpty, NonEmpty
  <2>4. QED
    BY <2>1, <2>2, <2>3 DEF Next
<1>4. QED
  BY <1>1, <1>2, <1>3, PTL DEF Spec, ImplementsGraph, G!Spec
=============================================================================
