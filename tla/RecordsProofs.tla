---------------------------- MODULE RecordsProofs ----------------------------
(***************************************************************************)
(* What holds of records and their relations for any number of types and   *)
(* elements.                                                               *)
(***************************************************************************)
EXTENDS Records, WellFoundedInduction, FiniteSetTheorems, TLAPS

(* An element that an id has room for does not lose bits.                  *)
LEMMA ElementFits ==
  ASSUME NEW element \in 0 .. ElementCount - 1, NEW type \in 0 .. TypeCount - 1
  PROVE  AddType(element, type) = element * TypeCount + type
<1>1. TypeCount \in Nat \ {0, 1} /\ ElementCount \in Nat \ {0, 1}
  BY CountsAssumption
<1>2. element * TypeCount \in Nat /\ TypeCount * ElementCount \in Nat
  BY <1>1
<1>3. element * TypeCount < TypeCount * ElementCount
  BY <1>1
<1>4. (element * TypeCount) % (TypeCount * ElementCount) = element * TypeCount
  BY <1>2, <1>3
<1>5. type % TypeCount = type
  BY <1>1
<1>6. QED
  BY <1>4, <1>5 DEF AddType, IdCount

(* Type and element come back out of an id (the macros of sph-db.h, for    *)
(* elements that fit).                                                     *)
THEOREM IdKeepsTypeAndElement ==
  ASSUME NEW element \in 0 .. ElementCount - 1, NEW type \in 0 .. TypeCount - 1
  PROVE  /\ TypeOf(AddType(element, type)) = type
         /\ ElementOf(AddType(element, type)) = element
<1>1. TypeCount \in Nat \ {0, 1}
  BY CountsAssumption
<1>2. (element * TypeCount + type) % TypeCount = type
  BY <1>1
<1>3. (element * TypeCount + type) \div TypeCount = element
  BY <1>1
<1>4. QED
  BY <1>2, <1>3, ElementFits DEF TypeOf, ElementOf

(* The tree of records is sorted by element before type: the records of    *)
(* two types that are created in turn alternate in it.                     *)
THEOREM ElementsOrderIds ==
  ASSUME NEW e \in 0 .. ElementCount - 1, NEW d \in 0 .. ElementCount - 1, e < d,
         NEW s \in 0 .. TypeCount - 1, NEW t \in 0 .. TypeCount - 1
  PROVE  AddType(e, s) < AddType(d, t)
<1>1. TypeCount \in Nat \ {0, 1} /\ e + 1 =< d
  BY CountsAssumption
<1>2. (e + 1) * TypeCount =< d * TypeCount
  BY <1>1
<1>3. (e + 1) * TypeCount = e * TypeCount + TypeCount
  BY <1>1
<1>4. e * TypeCount \in Nat /\ d * TypeCount \in Nat
  BY <1>1
<1>5. e * TypeCount + s < d * TypeCount + t
  BY <1>1, <1>2, <1>3, <1>4
<1>6. QED
  BY <1>5, ElementFits
-----------------------------------------------------------------------------
(* Sets of ids are bounded, so a set that is not empty has a largest and a *)
(* smallest one.                                                           *)
LEMMA LeastOf ==
  ASSUME NEW S \in SUBSET Nat, S # {}
  PROVE  \E m \in S : \A n \in S : m <= n
<1>1. PICK m \in S : \A n \in S : <<n, m>> \notin OpToRel(<, Nat)
  BY WFMin, NatLessThanWellFounded, Zenon
<1>2. \A n \in S : ~(n < m)
  BY <1>1, Zenon DEF OpToRel
<1>3. QED
  BY <1>2

LEMMA MaxOf ==
  ASSUME NEW S \in SUBSET Nat, S # {}, NEW b \in Nat, \A n \in S : n <= b
  PROVE  Max(S) \in S /\ \A n \in S : n <= Max(S)
<1> DEFINE Bounds == {k \in Nat : \A n \in S : n <= k}
<1>1. PICK m \in Bounds : \A k \in Bounds : m <= k
  <2>1. Bounds \in SUBSET Nat /\ b \in Bounds
    OBVIOUS
  <2>2. QED
    BY <2>1, LeastOf
<1>2. m \in S
  <2>1. SUFFICES ASSUME m \notin S PROVE FALSE
    OBVIOUS
  <2>2. m \in Nat /\ \A n \in S : n < m
    BY <2>1
  <2>3. m > 0 /\ m - 1 \in Nat
    <3>1. PICK n \in S : TRUE
      OBVIOUS
    <3>2. n \in Nat /\ n < m
      BY <2>2, <3>1
    <3>3. QED
      BY <2>2, <3>2
  <2>4. m - 1 \in Bounds
    BY <2>2, <2>3
  <2>5. QED
    BY <1>1, <2>2, <2>4
<1>3. m \in S /\ \A n \in S : m >= n
  BY <1>2
<1>4. Max(S) \in S /\ \A n \in S : Max(S) >= n
  BY <1>3 DEF Max
<1>5. QED
  BY <1>4

(* An id is made of its element and its type.                              *)
LEMMA IdParts ==
  ASSUME NEW id \in Id
  PROVE  /\ id \in Nat /\ id <= IdCount
         /\ id = ElementOf(id) * TypeCount + TypeOf(id)
         /\ TypeOf(id) \in 0 .. TypeCount - 1
         /\ ElementOf(id) \in 0 .. ElementCount - 1
<1>1. TypeCount \in Nat \ {0, 1} /\ ElementCount \in Nat \ {0, 1}
  BY CountsAssumption
<1>2. TypeCount * ElementCount \in Nat
  BY <1>1
<1>3. id \in Nat /\ id < TypeCount * ElementCount
  BY <1>1, <1>2 DEF Id, IdCount
<1>4. TypeOf(id) \in 0 .. TypeCount - 1 /\ ElementOf(id) \in Nat
  BY <1>1, <1>3 DEF TypeOf, ElementOf
<1>5. id = ElementOf(id) * TypeCount + TypeOf(id)
  BY <1>1, <1>3 DEF TypeOf, ElementOf
<1>6. ElementOf(id) < ElementCount
  <2>1. SUFFICES ASSUME ElementCount <= ElementOf(id) PROVE FALSE
    BY <1>1, <1>4
  <2>2. ElementCount * TypeCount <= ElementOf(id) * TypeCount
    BY <1>1, <1>4, <2>1
  <2>3. ElementOf(id) * TypeCount \in Nat /\ ElementCount * TypeCount = TypeCount * ElementCount
    BY <1>1, <1>4
  <2>4. ElementOf(id) * TypeCount <= id
    BY <1>1, <1>3, <1>4, <1>5, <2>3
  <2>5. QED
    BY <1>2, <1>3, <2>2, <2>3, <2>4
<1>7. ElementOf(id) \in 0 .. ElementCount - 1
  BY <1>1, <1>4, <1>6
<1>8. id \in Nat /\ id <= IdCount
  BY <1>2, <1>3 DEF IdCount
<1>9. QED
  BY <1>4, <1>5, <1>7, <1>8

LEMMA ElementsFollowIds ==
  ASSUME NEW a \in Id, NEW b \in Id, a <= b
  PROVE  ElementOf(a) <= ElementOf(b)
<1>1. SUFFICES ASSUME ElementOf(b) < ElementOf(a) PROVE FALSE
  BY IdParts
<1>2. TypeCount \in Nat \ {0, 1}
  BY CountsAssumption
<1>3. ElementOf(b) + 1 <= ElementOf(a) /\ ElementOf(a) \in Nat /\ ElementOf(b) \in Nat
  BY <1>1, IdParts
<1>4. (ElementOf(b) + 1) * TypeCount <= ElementOf(a) * TypeCount
  BY <1>2, <1>3
<1>5. (ElementOf(b) + 1) * TypeCount = ElementOf(b) * TypeCount + TypeCount
  BY <1>2, <1>3
<1>6. ElementOf(a) * TypeCount \in Nat /\ ElementOf(b) * TypeCount \in Nat
  BY <1>2, <1>3
<1>7. b < a
  BY <1>2, <1>4, <1>5, <1>6, IdParts
<1>8. QED
  BY <1>7, IdParts
-----------------------------------------------------------------------------
Related(r, e) == \A edge \in e : {edge[1], edge[2]} \subseteq r \cup withdrawn

(* Aborting and closing go back to the last commit, so that has to be      *)
(* related as well.                                                        *)
RelatedEverywhere == /\ Related(records, edges)
                     /\ Related(committed.records, committed.edges)

(* Relations do not outlive their records, but for those of records that   *)
(* db_record_delete_type or db_type_delete deletes: in every state that    *)
(* creations, deletions, commits, aborts and reopening lead to.            *)
THEOREM RelationsHaveTheirRecords == Spec => []RelatedRecordsExist
<1>1. Init => RelatedEverywhere
  BY DEF Init, RelatedEverywhere, Related
<1>2. RelatedEverywhere /\ [Next]_vars => RelatedEverywhere'
  <2> SUFFICES ASSUME RelatedEverywhere, [Next]_vars
               PROVE  RelatedEverywhere'
    OBVIOUS
  <2> USE DEF RelatedEverywhere, Related
  <2>1. CASE Open \/ CreateType
    BY <2>1 DEF Open, CreateType, view
  <2>2. CASE Close \/ Abort
    BY <2>2 DEF Close, Abort
  <2>3. CASE Commit
    BY <2>3 DEF Commit, view
  <2>4. ASSUME NEW t \in types, Create(t)
        PROVE  RelatedEverywhere'
    BY <2>4 DEF Create
  <2>5. ASSUME NEW left \in records, NEW right \in records, Relate(left, right)
        PROVE  RelatedEverywhere'
    BY <2>5 DEF Relate
  <2>6. ASSUME NEW ids, Delete(ids)
        PROVE  RelatedEverywhere'
    BY <2>6 DEF Delete, EdgesOf
  <2>7. ASSUME NEW t \in types, DeleteType(t)
        PROVE  RelatedEverywhere'
    <3>1. records' \cup withdrawn' = records \cup withdrawn \cup Run(records, t)
      BY <2>7 DEF DeleteType
    <3>2. Related(records, edges)'
      BY <2>7, <3>1 DEF DeleteType
    <3>3. (committed.edges)' = edges /\ (committed.records)' = records'
      <4>1. committed = [records |-> records, edges |-> edges]
        BY <2>7 DEF DeleteType, NoTransaction
      <4>2. committed' = [committed EXCEPT !.records = records']
        BY <2>7 DEF DeleteType
      <4>3. QED
        BY <4>1, <4>2
    <3>4. QED
      BY <2>7, <3>2, <3>3 DEF DeleteType
  <2>8. ASSUME NEW t \in types, DeleteRecordsOfType(t)
        PROVE  RelatedEverywhere'
    BY <2>8 DEF DeleteRecordsOfType
  <2>9. CASE UNCHANGED vars
    BY <2>9 DEF vars, view
  <2>10. QED
    BY <2>1, <2>2, <2>3, <2>4, <2>5, <2>6, <2>7, <2>8, <2>9 DEF Next
<1>3. RelatedEverywhere => RelatedRecordsExist
  BY DEF RelatedEverywhere, Related, RelatedRecordsExist
<1>4. QED
  BY <1>1, <1>2, <1>3, PTL DEF Spec
-----------------------------------------------------------------------------
(* With records of one type only, the searches of open.c and the loops     *)
(* over the records of a type find what they look for.                     *)
LEMMA LastIdOfOneType ==
  ASSUME NEW r \in SUBSET Id, NEW t \in TypeId, \A id \in r : TypeOf(id) = t
  PROVE  LastId(r, t) = IF r = {} THEN 0 ELSE Max(r)
<1>1. CASE r = {}
  BY <1>1 DEF LastId
<1>2. CASE r # {}
  <2>1. r \in SUBSET Nat /\ \A id \in r : id <= IdCount
    BY IdParts
  <2>2. IdCount \in Nat
    BY CountsAssumption DEF IdCount
  <2>3. Max(r) \in r
    BY <1>2, <2>1, <2>2, MaxOf
  <2>4. QED
    BY <1>2, <2>3 DEF LastId
<1>3. QED
  BY <1>1, <1>2

LEMMA RunOfOneType ==
  ASSUME NEW r \in SUBSET Id, NEW t \in TypeId, \A id \in r : TypeOf(id) = t
  PROVE  Run(r, t) = r
<1>1. TypeCount \in Nat \ {0, 1} /\ ElementCount \in Nat \ {0, 1}
  BY CountsAssumption
<1>2. AddType(0, t) = t
  <2>1. 0 \in 0 .. ElementCount - 1 /\ t \in 0 .. TypeCount - 1 /\ 0 * TypeCount = 0
    BY <1>1 DEF TypeId
  <2>2. AddType(0, t) = 0 * TypeCount + t
    BY <2>1, ElementFits
  <2>3. QED
    BY <2>1, <2>2
<1>3. \A id \in r : t <= id
  <2>1. TAKE id \in r
  <2>2. ElementOf(id) * TypeCount \in Nat /\ TypeOf(id) = t
    BY <1>1, IdParts
  <2>3. QED
    BY <2>2, IdParts
<1>4. From(r, t) = r
  BY <1>3 DEF From
<1>5. QED
  BY <1>2, <1>4 DEF Run, RunFrom
-----------------------------------------------------------------------------
(* What the theorems about sequences assume, and the runs show necessary:  *)
(* one type at a time (with two, Records_two_types), and elements that an  *)
(* id has room for (main.c does not look for the last one).                *)
OneType == MaxTypes = 1 /\ MaxSequence \in Nat /\ MaxSequence < ElementCount

Shape == /\ types \subseteq TypeId /\ IsFiniteSet(types) /\ \A s, t \in types : s = t
         /\ typeSequence \in 0 .. TypeLimit /\ sequence \in [TypeId -> Nat]
         /\ records \subseteq Id /\ committed.records \subseteq Id
         /\ status \in {"open", "closed"}
         /\ IF status = "open" THEN typeSequence # 0 ELSE records = committed.records

(* The sequence is beyond the records of the transaction and beyond those  *)
(* that an abort brings back.                                              *)
Ahead(r) == \A id \in r : /\ TypeOf(id) \in types
                          /\ status = "open" => ElementOf(id) < sequence[TypeOf(id)]
Numbered == Shape /\ Ahead(records) /\ Ahead(committed.records)

LEMMA OneTypeOfRecords ==
  ASSUME Numbered, NEW t \in types
  PROVE  /\ t \in TypeId
         /\ \A id \in records : TypeOf(id) = t
         /\ Run(records, t) = records
         /\ LastId(records, t) = IF records = {} THEN 0 ELSE Max(records)
<1>1. t \in TypeId /\ records \in SUBSET Id /\ \A id \in records : TypeOf(id) = t
  BY DEF Numbered, Shape, Ahead
<1>2. QED
  BY <1>1, RunOfOneType, LastIdOfOneType

(* db_open_sequence finds a number beyond every record that exists.        *)
LEMMA OpenedAhead ==
  ASSUME Numbered, NEW t \in types
  PROVE  /\ LastId(records, t) # NotFound
         /\ OpenedSequence(records, t) \in Nat
         /\ \A id \in records : ElementOf(id) < OpenedSequence(records, t)
<1>1. TypeCount \in Nat \ {0, 1} /\ ElementCount \in Nat \ {0, 1}
  BY CountsAssumption
<1>2. records \in SUBSET Id
  BY DEF Numbered, Shape
<1>3. CASE records = {}
  <2>1. LastId(records, t) = 0
    BY <1>3, OneTypeOfRecords
  <2>2. ElementOf(0) = 0
    BY <1>1 DEF ElementOf
  <2>3. OpenedSequence(records, t) \in {0, 1}
    BY <2>1, <2>2 DEF OpenedSequence
  <2>4. QED
    BY <1>3, <2>1, <2>3 DEF NotFound
<1>4. CASE records # {}
  <2>1. records \in SUBSET Nat /\ IdCount \in Nat /\ \A id \in records : id <= IdCount
    BY <1>1, <1>2, IdParts DEF IdCount
  <2>2. Max(records) \in records /\ \A id \in records : id <= Max(records)
    BY <1>4, <2>1, MaxOf
  <2>3. LastId(records, t) = Max(records)
    BY <1>4, OneTypeOfRecords
  <2>4. ElementOf(Max(records)) \in 0 .. ElementCount - 1
    BY <1>2, <2>2, IdParts
  <2>5. ElementOf(Max(records)) < ElementLimit
    <3>1. ElementLimit = TypeCount * (ElementCount - 1)
      BY <1>1 DEF ElementLimit, IdCount
    <3>2. 2 * (ElementCount - 1) <= TypeCount * (ElementCount - 1)
      BY <1>1
    <3>3. TypeCount * (ElementCount - 1) \in Nat
      BY <1>1
    <3>4. QED
      BY <1>1, <2>4, <3>1, <3>2, <3>3
  <2>6. OpenedSequence(records, t) = 1 + ElementOf(Max(records))
    BY <2>3, <2>5 DEF OpenedSequence
  <2>7. \A id \in records : ElementOf(id) <= ElementOf(Max(records))
    BY <1>2, <2>2, ElementsFollowIds
  <2>8. \A id \in records : ElementOf(id) \in Nat
    BY <1>1, <1>2, IdParts
  <2>9. LastId(records, t) # NotFound
    BY <2>1, <2>2, <2>3 DEF NotFound
  <2>10. QED
    BY <1>1, <2>4, <2>6, <2>7, <2>8, <2>9
<1>5. QED
  BY <1>3, <1>4

(* The id that db_record_create makes is beyond all records that exist.    *)
LEMMA CreatedAhead ==
  ASSUME OneType, Numbered, NEW t \in types, Create(t)
  PROVE  /\ AddType(sequence[t], t) \in Id
         /\ TypeOf(AddType(sequence[t], t)) = t
         /\ ElementOf(AddType(sequence[t], t)) = sequence[t]
         /\ AddType(sequence[t], t) \notin records
<1>1. TypeCount \in Nat \ {0, 1} /\ ElementCount \in Nat \ {0, 1}
  BY CountsAssumption
<1>2. t \in TypeId /\ sequence[t] \in Nat /\ sequence[t] < ElementCount
  BY <1>1 DEF Create, OneType, Numbered, Shape
<1>3. sequence[t] \in 0 .. ElementCount - 1 /\ t \in 0 .. TypeCount - 1
  BY <1>1, <1>2 DEF TypeId
<1>4. /\ TypeOf(AddType(sequence[t], t)) = t
      /\ ElementOf(AddType(sequence[t], t)) = sequence[t]
  BY <1>3, IdKeepsTypeAndElement
<1>5. AddType(sequence[t], t) = sequence[t] * TypeCount + t
  BY <1>3, ElementFits
<1>6. AddType(sequence[t], t) \in Id
  <2>1. (sequence[t] + 1) * TypeCount <= ElementCount * TypeCount
    BY <1>1, <1>2
  <2>2. (sequence[t] + 1) * TypeCount = sequence[t] * TypeCount + TypeCount
    BY <1>1, <1>2
  <2>3. /\ sequence[t] * TypeCount \in Nat /\ ElementCount * TypeCount \in Nat
        /\ ElementCount * TypeCount = IdCount
    BY <1>1, <1>2 DEF IdCount
  <2>4. sequence[t] * TypeCount + t \in 0 .. IdCount - 1
    BY <1>1, <1>3, <2>1, <2>2, <2>3
  <2>5. QED
    BY <1>5, <2>4 DEF Id
<1>7. AddType(sequence[t], t) \notin records
  <2>1. status = "open"
    BY DEF Create
  <2>2. \A id \in records : ElementOf(id) < sequence[t]
    BY <2>1, OneTypeOfRecords DEF Numbered, Ahead
  <2>3. QED
    BY <1>2, <1>4, <2>2
<1>8. QED
  BY <1>4, <1>6, <1>7

LEMMA OpenKeepsNumbered ==
  ASSUME OneType, Numbered, Open
  PROVE  Numbered'
<1>1. \A t \in types : /\ LastId(records, t) # NotFound /\ OpenedSequence(records, t) \in Nat
                       /\ \A id \in records : ElementOf(id) < OpenedSequence(records, t)
  BY OpenedAhead
<1>2. /\ status' = "open" /\ typeSequence' = OpenedTypeSequence
      /\ sequence' = [t \in TypeId |-> IF t \in types THEN OpenedSequence(records, t) ELSE 0]
      /\ UNCHANGED <<types, records, committed>>
  BY <1>1 DEF Open, view
<1>3. OpenedTypeSequence \in 1 .. TypeLimit
  <2>1. TypeLimit \in Nat \ {0}
    BY CountsAssumption DEF TypeLimit
  <2>2. types = {} \/ Max(types) \in TypeId
    <3>1. SUFFICES ASSUME types # {} PROVE Max(types) \in TypeId
      OBVIOUS
    <3>2. types \in SUBSET Nat /\ \A t \in types : t <= TypeLimit
      BY CountsAssumption DEF Numbered, Shape, TypeId, TypeLimit
    <3>3. Max(types) \in types
      BY <2>1, <3>1, <3>2, MaxOf
    <3>4. QED
      BY <3>3 DEF Numbered, Shape
  <2>3. QED
    BY <2>1, <2>2, CountsAssumption DEF OpenedTypeSequence, TypeId, TypeLimit
<1>4. Shape'
  BY <1>1, <1>2, <1>3 DEF Numbered, Shape
<1>5. records = committed.records
  BY DEF Open, Numbered, Shape
<1>6. Ahead(records)'
  <2>1. SUFFICES ASSUME NEW id \in records
                 PROVE  TypeOf(id) \in types /\ ElementOf(id) < sequence'[TypeOf(id)]
    BY <1>2 DEF Ahead
  <2>2. TypeOf(id) \in types /\ TypeOf(id) \in TypeId
    BY DEF Numbered, Shape, Ahead
  <2>3. QED
    BY <1>1, <1>2, <2>2
<1>7. QED
  BY <1>2, <1>4, <1>5, <1>6 DEF Numbered

LEMMA CreateKeepsNumbered ==
  ASSUME OneType, Numbered, NEW t \in types, Create(t)
  PROVE  Numbered'
<1> DEFINE new == AddType(sequence[t], t)
<1>1. new \in Id /\ TypeOf(new) = t /\ ElementOf(new) = sequence[t]
  BY CreatedAhead
<1>2. /\ status = "open" /\ sequence' = [sequence EXCEPT ![t] = 1 + @]
      /\ records' = records \cup {new}
      /\ UNCHANGED <<types, typeSequence, committed, status>>
  BY DEF Create
<1>3. t \in TypeId /\ sequence \in [TypeId -> Nat]
  BY DEF Numbered, Shape
<1> HIDE DEF new
<1>4. Shape'
  BY <1>1, <1>2, <1>3 DEF Numbered, Shape
<1>5. sequence'[t] = 1 + sequence[t] /\ sequence[t] \in Nat
  BY <1>2, <1>3
<1>6. ASSUME NEW id \in records \cup committed.records
      PROVE  TypeOf(id) = t /\ ElementOf(id) < 1 + sequence[t]
  <2>1. TypeOf(id) = t /\ ElementOf(id) < sequence[t] /\ id \in Id
    BY <1>2, <1>6 DEF Numbered, Ahead, Shape
  <2>2. QED
    BY <1>5, <2>1, IdParts
<1>7. Ahead(records)' /\ Ahead(committed.records)'
  BY <1>1, <1>2, <1>5, <1>6 DEF Ahead
<1>8. QED
  BY <1>4, <1>7 DEF Numbered

(* There is no type beside the new one, and so no record.                  *)
LEMMA CreateTypeKeepsNumbered ==
  ASSUME OneType, Numbered, CreateType
  PROVE  Numbered'
<1>1. types = {}
  <2>1. Cardinality(types) \in Nat /\ Cardinality(types) < 1 /\ IsFiniteSet(types)
    BY FS_CardinalityType DEF CreateType, OneType, Numbered, Shape
  <2>2. QED
    BY <2>1, FS_EmptySet
<1>2. records = {} /\ committed.records = {}
  BY <1>1 DEF Numbered, Ahead
<1>3. types' = {typeSequence} /\ typeSequence' = 1 + typeSequence
  BY <1>1 DEF CreateType
<1>4. typeSequence \in TypeId /\ 1 + typeSequence \in 1 .. TypeLimit
  BY CountsAssumption DEF CreateType, Numbered, Shape, TypeId, TypeLimit
<1>5. IsFiniteSet({typeSequence})
  BY FS_Singleton
<1>6. UNCHANGED <<records, committed, status>> /\ sequence' \in [TypeId -> Nat]
  BY <1>4 DEF CreateType, Numbered, Shape, view
<1>7. Shape'
  BY <1>3, <1>4, <1>5, <1>6 DEF Numbered, Shape
<1>8. QED
  BY <1>2, <1>6, <1>7 DEF Numbered, Ahead

(* The records go with their type.                                         *)
LEMMA DeleteTypeKeepsNumbered ==
  ASSUME Numbered, NEW t \in types, DeleteType(t)
  PROVE  Numbered'
<1>1. Run(records, t) = records /\ t \in TypeId
  BY OneTypeOfRecords
<1>2. records' = {} /\ (committed.records)' = {}
  <2>1. committed = [records |-> records, edges |-> edges]
    BY DEF DeleteType, NoTransaction
  <2>2. records' = {} /\ committed' = [committed EXCEPT !.records = records']
    BY <1>1 DEF DeleteType
  <2>3. QED
    BY <2>1, <2>2
<1>3. types' = types \ {t} /\ sequence' \in [TypeId -> Nat] /\ UNCHANGED <<typeSequence, status>>
  BY <1>1 DEF DeleteType, Numbered, Shape
<1>4. IsFiniteSet(types')
  BY <1>3, FS_Subset DEF Numbered, Shape
<1>5. Shape'
  BY <1>2, <1>3, <1>4 DEF Numbered, Shape
<1>6. QED
  BY <1>2, <1>5 DEF Numbered, Ahead

LEMMA StepKeepsNumbered ==
  ASSUME OneType, Numbered, [Next]_vars
  PROVE  Numbered'
<1>1. CASE Open
  BY <1>1, OpenKeepsNumbered
<1>2. CASE CreateType
  BY <1>2, CreateTypeKeepsNumbered
<1>3. ASSUME NEW t \in types, Create(t)
      PROVE  Numbered'
  BY <1>3, CreateKeepsNumbered
<1>4. ASSUME NEW t \in types, DeleteType(t)
      PROVE  Numbered'
  BY <1>4, DeleteTypeKeepsNumbered
<1>5. CASE Close
  <2>1. /\ status' = "closed" /\ records' = committed.records /\ UNCHANGED <<types, committed>>
        /\ typeSequence' = 0 /\ sequence' = NoSequence
    BY <1>5 DEF Close
  <2>2. 0 \in 0 .. TypeLimit /\ NoSequence \in [TypeId -> Nat]
    BY CountsAssumption DEF TypeLimit, NoSequence
  <2>3. QED
    BY <2>1, <2>2 DEF Numbered, Shape, Ahead
<1>6. CASE Commit
  BY <1>6 DEF Commit, view, memory, Numbered, Shape, Ahead
<1>7. CASE Abort
  BY <1>7 DEF Abort, memory, Numbered, Shape, Ahead
<1>8. ASSUME NEW left, NEW right, Relate(left, right)
      PROVE  Numbered'
  BY <1>8 DEF Relate, memory, Numbered, Shape, Ahead
<1>9. ASSUME NEW ids, Delete(ids)
      PROVE  Numbered'
  BY <1>9 DEF Delete, memory, Numbered, Shape, Ahead
<1>10. ASSUME NEW t, DeleteRecordsOfType(t)
       PROVE  Numbered'
  BY <1>10 DEF DeleteRecordsOfType, memory, Numbered, Shape, Ahead
<1>11. CASE UNCHANGED vars
  BY <1>11 DEF vars, view, memory, Numbered, Shape, Ahead
<1>12. QED
  BY <1>1, <1>2, <1>3, <1>4, <1>5, <1>6, <1>7, <1>8, <1>9, <1>10, <1>11 DEF Next

LEMMA InitNumbered == Init => Numbered
<1>1. IsFiniteSet({}) /\ 0 \in 0 .. TypeLimit /\ NoSequence \in [TypeId -> Nat]
  BY FS_EmptySet, CountsAssumption DEF TypeLimit, NoSequence
<1>2. QED
  BY <1>1 DEF Init, Numbered, Shape, Ahead

(* The inductive invariant: while the database is open the sequence is     *)
(* beyond all records, in the transaction and in the last commit, whatever *)
(* was created, deleted, aborted and opened again.                         *)
THEOREM SequencesAreAhead == OneType => (Spec => []Numbered)
<1> SUFFICES ASSUME OneType PROVE Spec => []Numbered
  OBVIOUS
<1>1. Numbered /\ [Next]_vars => Numbered'
  BY StepKeepsNumbered
<1>2. QED
  BY <1>1, InitNumbered, PTL DEF Spec

(* db_record_create never replaces a record that exists.                   *)
THEOREM CreatedRecordsAreNew == OneType => (Spec => CreatedIsNew)
<1> SUFFICES ASSUME OneType PROVE Spec => CreatedIsNew
  OBVIOUS
<1>1. Numbered => \A t \in types : Create(t) => AddType(sequence[t], t) \notin records
  BY CreatedAhead
<1>2. Spec => []Numbered
  BY SequencesAreAhead
<1>3. QED
  BY <1>1, <1>2, PTL DEF Spec, CreatedIsNew

(* db_open succeeds for whatever operations and crashes leave on disk.     *)
THEOREM OpeningSucceeds == OneType => (Spec => []OpenSucceeds)
<1> SUFFICES ASSUME OneType PROVE Spec => []OpenSucceeds
  OBVIOUS
<1>1. Numbered => OpenSucceeds
  BY DEF Numbered, Shape, OpenSucceeds
<1>2. QED
  BY <1>1, SequencesAreAhead, PTL

(* db_type_delete leaves no record of the type for a type to come.         *)
THEOREM NoRecordWithoutType == OneType => (Spec => []DeletedTypesLeaveNoRecord)
<1> SUFFICES ASSUME OneType PROVE Spec => []DeletedTypesLeaveNoRecord
  OBVIOUS
<1>1. Numbered => DeletedTypesLeaveNoRecord
  BY DEF Numbered, Ahead, DeletedTypesLeaveNoRecord
<1>2. QED
  BY <1>1, SequencesAreAhead, PTL
=============================================================================
