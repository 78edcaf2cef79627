-------------------------- MODULE RecordReadProofs --------------------------
(***************************************************************************)
(* Reading takes every record that matches once, and                       *)
(* db_record_select_delete deletes those and no others, for any number of  *)
(* records, if they are all of one type.                                   *)
(***************************************************************************)
EXTENDS RecordRead, WellFoundedInduction, FiniteSetTheorems, TLAPS

(* The records of a type are neighbours in the tree only if there is one   *)
(* type; see ElementsOrderIds of RecordsProofs.                            *)
OneType == /\ Ids \subseteq Id /\ IsFiniteSet(Ids)
           /\ \A a, b \in Ids : TypeOf(a) = TypeOf(b)
           /\ Types \subseteq TypeId /\ BatchLength \in Nat \ {0}
-----------------------------------------------------------------------------
(* Sets of ids are bounded, so a set that is not empty has a largest and a *)
(* smallest one.                                                           *)
LEMMA LeastOf ==
  ASSUME NEW S \in SUBSET Nat, S # {}
  PROVE  \E m \in S : \A n \in S : m <= n
<1>1. PICK m \in S : \A n \in S : <<n, m>> \notin OpToRel(<, Nat)
  BY WFMin, NatLessThanWellFounded, Zenon
<1>2. \A n \in S : ~(n < m)
  BY <1>1, Zenon DEF OpToRel
<1>3. QED
  BY <1>2

LEMMA MinOf ==
  ASSUME NEW S \in SUBSET Nat, S # {}
  PROVE  Min(S) \in S /\ \A n \in S : Min(S) <= n
BY LeastOf DEF Min

LEMMA MaxOf ==
  ASSUME NEW S \in SUBSET Nat, S # {}, NEW b \in Nat, \A n \in S : n <= b
  PROVE  Max(S) \in S /\ \A n \in S : n <= Max(S)
<1> DEFINE Bounds == {k \in Nat : \A n \in S : n <= k}
<1>1. PICK m \in Bounds : \A k \in Bounds : m <= k
  <2>1. Bounds \in SUBSET Nat /\ b \in Bounds
    OBVIOUS
  <2>2. QED
    BY <2>1, LeastOf
<1>2. m \in S
  <2>1. SUFFICES ASSUME m \notin S PROVE FALSE
    OBVIOUS
  <2>2. m \in Nat /\ \A n \in S : n < m
    BY <2>1
  <2>3. m > 0 /\ m - 1 \in Nat
    <3>1. PICK n \in S : TRUE
      OBVIOUS
    <3>2. n \in Nat /\ n < m
      BY <2>2, <3>1
    <3>3. QED
      BY <2>2, <3>2
  <2>4. m - 1 \in Bounds
    BY <2>2, <2>3
  <2>5. QED
    BY <1>1, <2>2, <2>4
<1>3. m \in S /\ \A n \in S : m >= n
  BY <1>2
<1>4. Max(S) \in S /\ \A n \in S : Max(S) >= n
  BY <1>3 DEF Max
<1>5. QED
  BY <1>4

(* An id is made of its element and its type.                              *)
LEMMA IdParts ==
  ASSUME NEW id \in Id
  PROVE  /\ id \in Nat /\ id <= IdCount
         /\ id = ElementOf(id) * TypeCount + TypeOf(id)
         /\ TypeOf(id) \in 0 .. TypeCount - 1
         /\ ElementOf(id) \in 0 .. ElementCount - 1
<1>1. TypeCount \in Nat \ {0, 1} /\ ElementCount \in Nat \ {0, 1}
  BY CountsAssumption
<1>2. TypeCount * ElementCount \in Nat
  BY <1>1
<1>3. id \in Nat /\ id < TypeCount * ElementCount
  BY <1>1, <1>2 DEF Id, IdCount
<1>4. TypeOf(id) \in 0 .. TypeCount - 1 /\ ElementOf(id) \in Nat
  BY <1>1, <1>3 DEF TypeOf, ElementOf
<1>5. id = ElementOf(id) * TypeCount + TypeOf(id)
  BY <1>1, <1>3 DEF TypeOf, ElementOf
<1>6. ElementOf(id) < ElementCount
  <2>1. SUFFICES ASSUME ElementCount <= ElementOf(id) PROVE FALSE
    BY <1>1, <1>4
  <2>2. ElementCount * TypeCount <= ElementOf(id) * TypeCount
    BY <1>1, <1>4, <2>1
  <2>3. ElementOf(id) * TypeCount \in Nat /\ ElementCount * TypeCount = TypeCount * ElementCount
    BY <1>1, <1>4
  <2>4. ElementOf(id) * TypeCount <= id
    BY <1>1, <1>3, <1>4, <1>5, <2>3
  <2>5. QED
    BY <1>2, <1>3, <2>2, <2>3, <2>4
<1>7. ElementOf(id) \in 0 .. ElementCount - 1
  BY <1>1, <1>4, <1>6
<1>8. id \in Nat /\ id <= IdCount
  BY <1>2, <1>3 DEF IdCount
<1>9. QED
  BY <1>4, <1>5, <1>7, <1>8
-----------------------------------------------------------------------------
Lower(S, n) == {other \in S : other < n}

LEMMA LowerIsFinite ==
  ASSUME NEW S, IsFiniteSet(S), NEW n
  PROVE  /\ Lower(S, n) \subseteq S /\ IsFiniteSet(Lower(S, n))
         /\ Cardinality(Lower(S, n)) \in Nat
<1>1. Lower(S, n) \in SUBSET S
  BY DEF Lower
<1>2. IsFiniteSet(Lower(S, n))
  BY <1>1, FS_Subset
<1>3. QED
  BY <1>1, <1>2, FS_CardinalityType

LEMMA SmallestMeans ==
  ASSUME NEW S, NEW count, NEW n
  PROVE  n \in Smallest(S, count) <=> n \in S /\ Cardinality(Lower(S, n)) < count
BY DEF Smallest, Lower

(* The count smallest of S: those below any of them are among them.        *)
LEMMA SmallestIsClosed ==
  ASSUME NEW S \in SUBSET Nat, IsFiniteSet(S), NEW count \in Nat \ {0},
         NEW h \in Smallest(S, count), NEW w \in S, w \notin Smallest(S, count)
  PROVE  h < w
<1>1. SUFFICES ASSUME ~(h < w) PROVE FALSE
  OBVIOUS
<1>2. h \in S /\ Cardinality(Lower(S, h)) < count /\ ~(Cardinality(Lower(S, w)) < count)
  BY SmallestMeans
<1>3. w \in Nat /\ h \in Nat /\ w <= h
  BY <1>1, <1>2
<1>4. Lower(S, w) \in SUBSET Lower(S, h)
  <2>1. \A n \in S : n \in Nat /\ (n < w => n < h)
    BY <1>3
  <2>2. QED
    BY <2>1 DEF Lower
<1>5. Cardinality(Lower(S, w)) <= Cardinality(Lower(S, h))
  BY <1>4, LowerIsFinite, FS_Subset
<1>6. Cardinality(Lower(S, w)) \in Nat /\ Cardinality(Lower(S, h)) \in Nat
  BY LowerIsFinite
<1>7. QED
  BY <1>2, <1>5, <1>6

LEMMA SmallestOfSome ==
  ASSUME NEW S \in SUBSET Nat, S # {}, NEW count \in Nat \ {0}
  PROVE  Smallest(S, count) # {}
<1>1. Min(S) \in S /\ \A n \in S : Min(S) <= n
  BY MinOf
<1>2. PICK m \in S : \A n \in S : m <= n
  BY <1>1
<1>3. Lower(S, m) = {}
  <2>1. \A n \in S : ~(n < m)
    BY <1>2
  <2>2. QED
    BY <2>1 DEF Lower
<1>4. Cardinality(Lower(S, m)) < count
  BY <1>3, FS_EmptySet
<1>5. QED
  BY <1>4, SmallestMeans

(* If they are not count, then they are all.                               *)
LEMMA FewerAreAll ==
  ASSUME NEW S \in SUBSET Nat, IsFiniteSet(S), NEW count \in Nat \ {0},
         NEW H, H = Smallest(S, count), Cardinality(H) # count
  PROVE  H = S
<1>1. SUFFICES ASSUME H # S PROVE FALSE
  OBVIOUS
<1>2. H \in SUBSET S
  BY SmallestMeans
<1>3. IsFiniteSet(H) /\ Cardinality(H) \in Nat
  BY <1>2, FS_Subset, FS_CardinalityType
<1>4. PICK m \in S \ H : \A n \in S \ H : m <= n
  <2>1. S \ H \in SUBSET Nat /\ S \ H # {}
    BY <1>1, <1>2
  <2>2. QED
    BY <2>1, LeastOf
<1>5. \A h \in H : h < m
  BY <1>4, SmallestIsClosed
<1>6. Lower(S, m) = H
  <2>1. \A n \in S \ H : ~(n < m)
    BY <1>4
  <2>2. QED
    BY <1>2, <1>5, <2>1 DEF Lower
<1>7. ~(Cardinality(H) < count)
  BY <1>4, <1>6, SmallestMeans
<1>8. H # {}
  BY <1>4, SmallestOfSome
<1>9. PICK l \in H : \A n \in H : n <= l
  <2>1. H \in SUBSET Nat /\ m \in Nat
    BY <1>2, <1>4
  <2>2. \A n \in H : n <= m
    BY <1>5, <2>1
  <2>3. QED
    BY <1>8, <2>1, <2>2, MaxOf
<1>10. Cardinality(Lower(S, l)) < count
  BY <1>9, SmallestMeans
<1>11. H \in SUBSET (Lower(S, l) \cup {l})
  <2>1. \A n \in H : n # l => n < l
    <3>1. \A n \in H : n \in Nat /\ n <= l
      BY <1>2, <1>9
    <3>2. QED
      BY <1>9, <3>1
  <2>2. QED
    BY <1>2, <2>1 DEF Lower
<1>12. l \notin Lower(S, l)
  BY <1>2, <1>9 DEF Lower
<1>13. /\ IsFiniteSet(Lower(S, l) \cup {l})
       /\ Cardinality(Lower(S, l) \cup {l}) = Cardinality(Lower(S, l)) + 1
  BY <1>12, LowerIsFinite, FS_AddElement
<1>14. Cardinality(H) <= Cardinality(Lower(S, l)) + 1
  BY <1>11, <1>13, FS_Subset
<1>15. Cardinality(Lower(S, l)) \in Nat
  BY LowerIsFinite
<1>16. Cardinality(H) = count
  BY <1>3, <1>7, <1>10, <1>14, <1>15
<1>17. QED
  BY <1>16
-----------------------------------------------------------------------------
(* The records of the type are not below the start of the search for them. *)
LEMMA TypeStart ==
  ASSUME NEW id \in Id
  PROVE  AddType(0, TypeOf(id)) <= id
<1>1. TypeCount \in Nat \ {0, 1} /\ ElementCount \in Nat \ {0, 1}
  BY CountsAssumption
<1>2. /\ TypeOf(id) \in 0 .. TypeCount - 1 /\ ElementOf(id) \in Nat /\ id \in Nat
      /\ id = ElementOf(id) * TypeCount + TypeOf(id)
  BY IdParts
<1>3. IdCount \in Nat /\ 0 < IdCount
  BY <1>1 DEF IdCount
<1>4. (0 * TypeCount) % IdCount = 0
  <2>1. 0 * TypeCount = 0
    BY <1>1
  <2>2. 0 % IdCount = 0
    BY <1>3
  <2>3. QED
    BY <2>1, <2>2
<1>5. TypeOf(id) % TypeCount = TypeOf(id)
  <2>1. \A t \in 0 .. TypeCount - 1 : t % TypeCount = t
    BY <1>1
  <2>2. QED
    BY <1>2, <2>1
<1>6. AddType(0, TypeOf(id)) = TypeOf(id)
  BY <1>2, <1>4, <1>5 DEF AddType
<1>7. ElementOf(id) * TypeCount \in Nat
  BY <1>1, <1>2
<1>8. QED
  BY <1>2, <1>6, <1>7

(* Where the selection starts there is nothing of the type before it.      *)
LEMMA SelectStarts ==
  ASSUME OneType, call.given \in SUBSET Ids, call.type \in Types, records = call.given, Select
  PROVE  /\ call' = call /\ records' = records /\ read' = read /\ skipped' = skipped
         /\ \/ /\ phase' = "calls" /\ position' \in records
               /\ \A id \in call.given : TypeOf(id) = call.type
               /\ \A id \in Wanted : position' <= id
            \/ phase' = "end" /\ Wanted = {}
<1> DEFINE start == AddType(0, call.type)
           found == From(records, start)
<1>1. \A id \in Wanted : id \in found
  <2>1. SUFFICES ASSUME NEW id \in Wanted PROVE id \in found
    OBVIOUS
  <2>2. id \in Id /\ id \in records /\ TypeOf(id) = call.type
    BY <2>1 DEF Wanted, OfType, OneType
  <2>3. QED
    BY <2>2, TypeStart DEF From
<1>2. found \in SUBSET Nat /\ found \in SUBSET records
  <2>1. records \in SUBSET Ids /\ Ids \in SUBSET Nat
    BY DEF OneType, Id
  <2>2. QED
    BY <2>1 DEF From
<1>3. CASE found # {} /\ TypeOf(Min(found)) = call.type
  <2>1. Min(found) \in found /\ \A id \in found : Min(found) <= id
    BY <1>2, <1>3, MinOf
  <2>2. \A id \in call.given : TypeOf(id) = call.type
    BY <1>2, <1>3, <2>1 DEF OneType
  <2>3. phase' = "calls" /\ position' = Min(found)
    BY <1>3 DEF Select
  <2>4. QED
    BY <1>1, <1>2, <2>1, <2>2, <2>3 DEF Select
<1>4. CASE ~(found # {} /\ TypeOf(Min(found)) = call.type)
  <2>1. phase' = "end"
    BY <1>4 DEF Select
  <2>2. Wanted = {}
    <3>1. SUFFICES ASSUME NEW id \in Wanted PROVE FALSE
      OBVIOUS
    <3>2. id \in found /\ id \in Ids /\ TypeOf(id) = call.type
      BY <1>1, <3>1 DEF Wanted, OfType
    <3>3. Min(found) \in found
      BY <1>2, <3>2, MinOf
    <3>4. Min(found) \in Ids
      BY <1>2, <3>3
    <3>5. TypeOf(Min(found)) = call.type
      BY <3>2, <3>4 DEF OneType
    <3>6. QED
      BY <1>4, <3>2, <3>5
  <2>3. QED
    BY <2>1, <2>2 DEF Select
<1>5. QED
  BY <1>3, <1>4

(* What is left to delete is where the cursor of the selection still comes *)
(* to, and only what matches was deleted.                                  *)
Left == records \cap Wanted
Deleting ==
  /\ call.given \in SUBSET Ids /\ call.type \in Types
  /\ records \in SUBSET call.given /\ call.given \ Wanted \subseteq records
  /\ phase \in {"select", "calls", "end"}
  /\ phase = "select" => records = call.given
  /\ phase = "calls" => /\ \A id \in call.given : TypeOf(id) = call.type
                        /\ \A id \in Left : position <= id
  /\ phase = "end" => Left = {}
IInv == call.kind = "delete" => Deleting

LEMMA SelectKeeps == OneType /\ IInv /\ call.kind = "delete" /\ Select => Deleting'
<1>1. SUFFICES ASSUME OneType, Deleting, Select PROVE Deleting'
  BY DEF IInv
<1>2. phase = "select" /\ records = call.given /\ records' = records /\ call' = call
  BY <1>1 DEF Deleting, Select
<1>3. Wanted' = Wanted /\ Left' = Left /\ Left \subseteq Wanted
  BY <1>2 DEF Wanted, Left
<1>4. \/ /\ phase' = "calls" /\ \A id \in call.given : TypeOf(id) = call.type
         /\ \A id \in Wanted : position' <= id
      \/ phase' = "end" /\ Wanted = {}
  <2>1. call.given \in SUBSET Ids /\ call.type \in Types
    BY <1>1 DEF Deleting
  <2>2. QED
    BY <1>1, <1>2, <2>1, SelectStarts
<1>5. QED
  BY <1>1, <1>2, <1>3, <1>4 DEF Deleting

LEMMA BatchKeeps == OneType /\ IInv /\ call.kind = "delete" /\ DeleteBatch => Deleting'
<1> DEFINE result == Call(BatchLength)
           run  == RunFrom(records, position, call.type)
           hits == Smallest(run \cap call.matching, BatchLength)
           last == IF Cardinality(hits) = BatchLength THEN Max(hits) ELSE Max(run)
           left == records \ result.ids
           next == From(left, result.position)
<1>1. SUFFICES ASSUME OneType, Deleting, DeleteBatch PROVE Deleting'
  BY DEF IInv
<1>2. /\ phase = "calls" /\ call' = call /\ Wanted' = Wanted
      /\ \A id \in call.given : TypeOf(id) = call.type
      /\ \A id \in Left : position <= id
  BY <1>1 DEF Deleting, DeleteBatch, Wanted
<1>3. /\ records \in SUBSET Ids /\ records \in SUBSET Nat /\ IsFiniteSet(records)
      /\ \A id \in records : id < IdCount
      /\ IdCount \in Nat /\ BatchLength \in Nat \ {0}
  <2>1. records \in SUBSET Ids /\ Ids \in SUBSET Id /\ IsFiniteSet(Ids) /\ BatchLength \in Nat \ {0}
    BY <1>1 DEF Deleting, OneType
  <2>2. IdCount \in Nat
    BY CountsAssumption DEF IdCount
  <2>3. \A id \in Id : id \in Nat /\ id < IdCount
    BY <2>2 DEF Id
  <2>4. QED
    BY <2>1, <2>2, <2>3, FS_Subset
<1>4. /\ run \in SUBSET records /\ run = {id \in records : position <= id}
      /\ Left \in SUBSET (run \cap call.matching)
  <2>1. \A id \in records : TypeOf(id) = call.type
    BY <1>1, <1>2 DEF Deleting
  <2>2. run = From(records, position)
    BY <2>1 DEF RunFrom, From
  <2>3. Left \in SUBSET (records \cap call.matching)
    BY DEF Left, Wanted
  <2>4. QED
    BY <1>2, <2>2, <2>3 DEF From
<1>5. CASE result.ids = {} /\ Left = {}
  <2>1. /\ records' = records /\ phase' \in {"calls", "end"}
    BY <1>1, <1>5 DEF DeleteBatch
  <2>2. Left' = {}
    BY <1>2, <1>5, <2>1 DEF Left
  <2>3. QED
    BY <1>1, <1>2, <2>1, <2>2 DEF Deleting
<1>6. CASE position = End
  <2>1. result.ids = {}
    BY <1>6 DEF Call, AtEnd
  <2>2. Left = {}
    <3>1. SUFFICES ASSUME NEW id \in Left PROVE FALSE
      OBVIOUS
    <3>2. id \in records /\ IdCount <= id
      BY <1>2, <1>6 DEF Left, End
    <3>3. QED
      BY <1>3, <3>2
  <2>3. QED
    BY <1>5, <2>1, <2>2
<1>7. CASE position # End /\ run = {}
  <2>1. result.ids = {}
    BY <1>7 DEF Call
  <2>2. QED
    BY <1>4, <1>5, <1>7, <2>1
<1>8. CASE position # End /\ run # {}
  <2>1. result.ids = hits /\ result.position = Advanced(last).position
    BY <1>8 DEF Call
  <2>2. /\ run \cap call.matching \in SUBSET Nat /\ IsFiniteSet(run \cap call.matching)
        /\ hits \in SUBSET (run \cap call.matching)
    <3>1. run \cap call.matching \in SUBSET records
      BY <1>4
    <3>2. hits \in SUBSET (run \cap call.matching)
      BY DEF Smallest
    <3>3. QED
      BY <1>3, <3>1, <3>2, FS_Subset
  <2>3. CASE hits = {}
    <3>1. run \cap call.matching = {}
      BY <1>3, <2>2, <2>3, SmallestOfSome
    <3>2. QED
      BY <1>4, <1>5, <2>1, <2>3, <3>1
  <2>4. CASE hits # {}
    <3>1. /\ records' = records \ hits /\ phase' = "calls"
          /\ position' = IF next = {} THEN End ELSE Min(next)
      BY <1>1, <1>2, <2>1, <2>4 DEF DeleteBatch
    <3>2. hits \in SUBSET Wanted
      BY <1>1, <1>2, <1>4, <2>2 DEF Deleting, Wanted, OfType
    <3>3. call.given \ Wanted \subseteq records'
      BY <1>1, <3>1, <3>2 DEF Deleting
    <3>4. \A id \in Left' : position' <= id
      <4>1. SUFFICES ASSUME NEW w \in Left' PROVE position' <= w
        OBVIOUS
      <4>2. w \in records /\ w \notin hits /\ w \in run \cap call.matching /\ w \in Nat
        BY <1>2, <1>3, <1>4, <3>1 DEF Left
      <4>3. Cardinality(hits) = BatchLength
        BY <1>3, <2>2, <4>2, FewerAreAll
      <4>4. last = Max(hits) /\ Max(hits) \in hits
        <5>1. hits \in SUBSET Nat
          BY <2>2
        <5>2. \A n \in hits : n <= w
          <6>1. \A n \in hits : n < w /\ n \in Nat
            BY <1>3, <2>2, <4>2, SmallestIsClosed
          <6>2. QED
            BY <4>2, <6>1
        <5>3. QED
          BY <2>4, <4>2, <4>3, <5>1, <5>2, MaxOf
      <4>5. last < w
        BY <1>3, <2>2, <4>2, <4>4, SmallestIsClosed
      <4> DEFINE above == {other \in records : last < other}
      <4>6. above \in SUBSET Nat /\ w \in above
        BY <1>3, <4>2, <4>5
      <4>7. result.position = Min(above) /\ Min(above) <= w
        <5>1. Advanced(last).position = Min(above)
          BY <4>6 DEF Advanced
        <5>2. QED
          BY <2>1, <4>6, <5>1, MinOf
      <4>8. w \in next
        BY <2>1, <4>2, <4>7 DEF From
      <4>9. next \in SUBSET Nat
        BY <1>3 DEF From
      <4>10. QED
        BY <3>1, <4>8, <4>9, MinOf
    <3>5. QED
      BY <1>1, <1>2, <3>1, <3>3, <3>4 DEF Deleting
  <2>5. QED
    BY <2>3, <2>4
<1>9. QED
  BY <1>6, <1>7, <1>8

(* db_record_select_delete deletes exactly what matches; for record.c:426, *)
(* with any number of records of one type and batches of any length.       *)
THEOREM DeletionIsExact == OneType => (Spec => []DeleteIsExact)
<1> SUFFICES ASSUME OneType PROVE Spec => []DeleteIsExact
  OBVIOUS
<1>1. Init => IInv
  BY DEF OneType, Init, IInv, Deleting
<1>2. IInv /\ [Next]_vars => IInv'
  <2>1. SUFFICES ASSUME IInv, [Next]_vars, call'.kind = "delete" PROVE Deleting'
    BY DEF IInv
  <2>2. call' = call
    BY <2>1 DEF Next, vars, Select, SelectIndex, DeleteBatch, Get, Read, Skip, ReadIndex,
                CallReturns
  <2>3. call.kind = "delete" /\ Deleting
    BY <2>1, <2>2 DEF IInv
  <2>4. CASE Select
    BY <2>1, <2>3, <2>4, SelectKeeps
  <2>5. CASE DeleteBatch
    BY <2>1, <2>3, <2>5, BatchKeeps
  <2>6. CASE UNCHANGED vars
    BY <2>3, <2>6 DEF vars, Deleting, Left, Wanted
  <2>7. CASE SelectIndex \/ Get \/ \E count \in Counts : Read(count) \/ Skip(count) \/ ReadIndex(count)
    BY <2>3, <2>7 DEF SelectIndex, Get, Read, Skip, ReadIndex, CallReturns, ByIndex
  <2>8. QED
    BY <2>1, <2>4, <2>5, <2>6, <2>7 DEF Next
<1>3. IInv => DeleteIsExact
  <2>1. SUFFICES ASSUME IInv, phase = "end", call.kind = "delete"
                 PROVE  records = call.given \ Wanted
    BY DEF DeleteIsExact
  <2>2. QED
    BY <2>1 DEF IInv, Deleting, Left
<1>4. QED
  BY <1>1, <1>2, <1>3, PTL DEF Spec
-----------------------------------------------------------------------------
(* What a call gives to the caller is sorted: the ids of the set, each once. *)
LEMMA IncreasingIsOnto ==
  ASSUME NEW S \in SUBSET Nat, IsFiniteSet(S), NEW array \in [1 .. Cardinality(S) -> S],
         \A i, j \in 1 .. Cardinality(S) : i < j => array[i] < array[j]
  PROVE  \A x \in S : \E i \in 1 .. Cardinality(S) : array[i] = x
<1> DEFINE n == Cardinality(S)
           I == 1 .. n
<1>1. n \in Nat
  BY FS_CardinalityType
<1>2. IsFiniteSet(I) /\ Cardinality(I) = n
  BY <1>1, FS_Interval
<1>3. \A i, j \in I : array[i] = array[j] => i = j
  <2>1. \A i \in I : i \in Int
    BY <1>1
  <2>2. \A i \in I : array[i] \in Nat
    OBVIOUS
  <2>3. SUFFICES ASSUME NEW i \in I, NEW j \in I, array[i] = array[j], i # j PROVE FALSE
    OBVIOUS
  <2>4. CASE i < j
    BY <2>2, <2>3, <2>4
  <2>5. CASE j < i
    BY <2>2, <2>3, <2>5
  <2>6. QED
    BY <2>1, <2>3, <2>4, <2>5
<1>4. array \in Injection(I, S)
  BY <1>3 DEF Injection, IsInjective
<1>5. array \in Surjection(I, S)
  <2> HIDE DEF I
  <2>1. QED
    BY <1>2, <1>4, FS_Injection
<1>6. QED
  BY <1>5 DEF Surjection

LEMMA RanksDiffer ==
  ASSUME NEW S \in SUBSET Nat, IsFiniteSet(S), NEW a \in S, NEW b \in S, a < b
  PROVE  Cardinality(Lower(S, a)) + 1 <= Cardinality(Lower(S, b))
<1>1. a \notin Lower(S, a) /\ Lower(S, a) \cup {a} \in SUBSET Lower(S, b)
  <2>1. a \in Nat /\ ~(a < a) /\ \A n \in S : n < a => n < b
    OBVIOUS
  <2>2. QED
    BY <2>1 DEF Lower
<1>2. Cardinality(Lower(S, a) \cup {a}) = Cardinality(Lower(S, a)) + 1
  BY <1>1, LowerIsFinite, FS_AddElement
<1>3. QED
  BY <1>1, <1>2, LowerIsFinite, FS_Subset

LEMMA AscendingExists ==
  ASSUME NEW S \in SUBSET Nat, IsFiniteSet(S)
  PROVE  \E array \in [1 .. Cardinality(S) -> S] :
           \A i, j \in 1 .. Cardinality(S) : i < j => array[i] < array[j]
<1> DEFINE n == Cardinality(S)
           I == 1 .. n
           rank == [x \in S |-> Cardinality(Lower(S, x)) + 1]
<1>1. n \in Nat
  BY FS_CardinalityType
<1>2. rank \in [S -> I]
  <2>1. SUFFICES ASSUME NEW x \in S PROVE Cardinality(Lower(S, x)) + 1 \in I
    OBVIOUS
  <2>2. x \notin Lower(S, x) /\ Lower(S, x) \cup {x} \in SUBSET S
    BY DEF Lower
  <2>3. Cardinality(Lower(S, x) \cup {x}) = Cardinality(Lower(S, x)) + 1
    BY <2>2, LowerIsFinite, FS_AddElement
  <2>4. Cardinality(Lower(S, x) \cup {x}) <= n
    BY <2>2, FS_Subset
  <2>5. Cardinality(Lower(S, x)) \in Nat
    BY LowerIsFinite
  <2>6. QED
    BY <1>1, <2>3, <2>4, <2>5
<1>3. \A a, b \in S : a < b => rank[a] < rank[b]
  <2>1. SUFFICES ASSUME NEW a \in S, NEW b \in S, a < b
                 PROVE  Cardinality(Lower(S, a)) + 1 < Cardinality(Lower(S, b)) + 1
    OBVIOUS
  <2>2. Cardinality(Lower(S, a)) \in Nat /\ Cardinality(Lower(S, b)) \in Nat
    BY LowerIsFinite
  <2>3. QED
    BY <2>1, <2>2, RanksDiffer
<1> HIDE DEF rank
<1>4. \A a, b \in S : a \in Nat /\ rank[a] \in Int
  BY <1>1, <1>2
<1>5. rank \in Injection(S, I)
  <2>1. \A a, b \in S : rank[a] = rank[b] => a = b
    BY <1>3, <1>4
  <2>2. QED
    BY <1>2, <2>1 DEF Injection, IsInjective
<1>6. rank \in Surjection(S, I)
  <2>1. IsFiniteSet(I) /\ Cardinality(I) = n
    BY <1>1, FS_Interval
  <2> HIDE DEF I
  <2>2. QED
    BY <1>5, <2>1, FS_Injection
<1> DEFINE array == [i \in I |-> CHOOSE x \in S : rank[x] = i]
<1>7. \A i \in I : array[i] \in S /\ rank[array[i]] = i
  BY <1>6 DEF Surjection
<1>8. array \in [I -> S]
  BY <1>7
<1> HIDE DEF array
<1>9. ASSUME NEW i \in I, NEW j \in I, i < j
      PROVE  array[i] < array[j]
  <2>1. SUFFICES ASSUME ~(array[i] < array[j]) PROVE FALSE
    OBVIOUS
  <2>2. array[i] \in S /\ array[j] \in S /\ rank[array[i]] = i /\ rank[array[j]] = j
    BY <1>7
  <2>3. array[i] \in Nat /\ array[j] \in Nat /\ i \in Int /\ j \in Int
    <3>1. \A k \in I : k \in Int
      BY <1>1
    <3>2. QED
      BY <2>2, <3>1
  <2>4. array[j] < array[i] \/ array[j] = array[i]
    BY <2>1, <2>3
  <2>5. j <= i
    BY <1>3, <2>2, <2>3, <2>4
  <2>6. QED
    BY <1>9, <2>3, <2>5
<1>10. QED
  BY <1>8, <1>9

LEMMA AscendingIs ==
  ASSUME NEW S \in SUBSET Nat, IsFiniteSet(S)
  PROVE  /\ Ascending(S) \in Seq(Nat)
         /\ \A i, j \in 1 .. Len(Ascending(S)) : i < j => Ascending(S)[i] < Ascending(S)[j]
         /\ {Ascending(S)[i] : i \in 1 .. Len(Ascending(S))} = S
<1> DEFINE n == Cardinality(S)
           Sorted(array) == \A i, j \in DOMAIN array : i < j => array[i] < array[j]
           a == Ascending(S)
<1>1. n \in Nat
  BY FS_CardinalityType
<1>2. \E array \in [1 .. n -> S] : Sorted(array)
  <2>1. PICK array \in [1 .. n -> S] : \A i, j \in 1 .. n : i < j => array[i] < array[j]
    BY AscendingExists
  <2>2. DOMAIN array = 1 .. n
    OBVIOUS
  <2>3. QED
    BY <2>1, <2>2
<1>3. a = CHOOSE array \in [1 .. n -> S] : Sorted(array)
  BY DEF Ascending
<1> HIDE DEF a, Sorted
<1>4. a \in [1 .. n -> S] /\ Sorted(a)
  BY <1>2, <1>3
<1>5. DOMAIN a = 1 .. n /\ a \in Seq(Nat) /\ Len(a) = n
  <2>1. a \in [1 .. n -> Nat] /\ DOMAIN a = 1 .. n
    BY <1>4
  <2> HIDE DEF n
  <2>2. a \in Seq(Nat)
    BY <1>1, <2>1
  <2>3. QED
    BY <1>1, <2>1, <2>2
<1>6. \A i, j \in 1 .. n : i < j => a[i] < a[j]
  BY <1>4, <1>5 DEF Sorted
<1>7. \A x \in S : \E i \in 1 .. n : a[i] = x
  BY <1>4, <1>6, IncreasingIsOnto
<1>8. {a[i] : i \in 1 .. n} = S
  BY <1>4, <1>7
<1>9. QED
  BY <1>5, <1>6, <1>8 DEF a
-----------------------------------------------------------------------------
(* While records are read: what was taken is what matches before the       *)
(* position of the cursor.                                                 *)
Taken == {read[i] : i \in 1 .. Len(read)} \cup skipped

Reading ==
  /\ call.given \in SUBSET Ids /\ call.type \in Types /\ records = call.given
  /\ phase \in {"select", "calls", "end"}
  /\ read \in Seq(Nat) /\ InOrder /\ Taken \subseteq Wanted
  /\ phase = "select" => read = <<>> /\ skipped = {}
  /\ phase = "calls" =>
       /\ call.kind = "read" => \A id \in call.given : TypeOf(id) = call.type
       /\ position \in records
       /\ \A w \in Wanted : w \in Taken <=> w < position
  /\ phase = "end" => Taken = Wanted

(* A lookup by ids.                                                        *)
LookedUp ==
  /\ records = call.given
  /\ phase \in {"select", "end"}
  /\ phase = "end" => /\ status = "success" => read = Existing(call.ids, call.given)
                      /\ status = "notfound" <=> call.all /\ Missing # {}

ReadInv ==
  /\ call.kind \in {"read", "delete", "index", "get"}
  /\ call.kind \in {"read", "index"} => Reading
  /\ call.kind = "delete" => read = <<>> /\ skipped = {}
  /\ call.kind = "get" => LookedUp

(* A call that takes H, records from the position on that match, keeps the *)
(* order, whether H was read or skipped.                                   *)
LEMMA TakesInOrder ==
  ASSUME OneType, Reading, phase = "calls", call' = call, records' = records,
         NEW H \in SUBSET Wanted, \A h \in H : position <= h,
         \/ read' = read \o Ascending(H) /\ skipped' = skipped
         \/ read' = read /\ skipped' = skipped \cup H
  PROVE  read' \in Seq(Nat) /\ InOrder' /\ Taken' = Taken \cup H
<1>1. Wanted \in SUBSET Nat /\ IsFiniteSet(Wanted) /\ position \in Nat
  <2>1. Wanted \in SUBSET Ids /\ Ids \in SUBSET Nat /\ position \in Ids /\ IsFiniteSet(Ids)
    BY DEF Reading, OneType, Id, Wanted, OfType
  <2>2. QED
    BY <2>1, FS_Subset
<1>2. H \in SUBSET Nat /\ IsFiniteSet(H)
  BY <1>1, FS_Subset
<1>3. /\ read \in Seq(Nat) /\ Len(read) \in Nat
      /\ \A i, j \in 1 .. Len(read) : i < j => read[i] < read[j]
      /\ \A i \in 1 .. Len(read) : read[i] \notin skipped
  BY DEF Reading, InOrder
<1>4. \A i \in 1 .. Len(read) : read[i] \in Nat /\ read[i] < position
  <2>1. \A i \in 1 .. Len(read) : read[i] \in Wanted /\ read[i] \in Taken
    BY DEF Reading, Taken
  <2>2. QED
    BY <1>1, <2>1 DEF Reading
<1>5. \A h \in H : h \notin skipped
  <2>1. \A h \in skipped : h \in Wanted /\ h \in Taken
    BY DEF Reading, Taken
  <2>2. \A h \in skipped : h < position /\ h \in Nat
    BY <1>1, <2>1 DEF Reading
  <2>3. QED
    BY <1>1, <1>2, <2>2
<1>6. CASE read' = read \o Ascending(H) /\ skipped' = skipped
  <2> DEFINE more == Ascending(H)
             n == Len(read)
             m == Len(more)
  <2>1. /\ more \in Seq(Nat) /\ m \in Nat
        /\ \A i, j \in 1 .. m : i < j => more[i] < more[j]
        /\ {more[i] : i \in 1 .. m} = H
    BY <1>2, AscendingIs
  <2> HIDE DEF more
  <2>2. read' = read \o more
    BY <1>6 DEF more
  <2>3. /\ read' \in Seq(Nat) /\ Len(read') = n + m
        /\ \A i \in 1 .. n + m : read'[i] = IF i <= n THEN read[i] ELSE more[i - n]
    BY <1>3, <2>1, <2>2
  <2>4. \A i \in 1 .. n + m : i <= n => i \in 1 .. n /\ read'[i] = read[i]
    <3>1. \A i \in 1 .. n + m : i <= n => i \in 1 .. n
      BY <1>3, <2>1
    <3>2. QED
      BY <2>3, <3>1
  <2>5. \A i \in 1 .. n + m : ~(i <= n) => i - n \in 1 .. m /\ read'[i] = more[i - n]
    <3>1. \A i \in 1 .. n + m : ~(i <= n) => i - n \in 1 .. m
      BY <1>3, <2>1
    <3>2. QED
      BY <2>3, <3>1
  <2>6. \A k \in 1 .. m : more[k] \in H /\ more[k] \in Nat /\ position <= more[k] /\ more[k] \notin skipped
    BY <1>2, <1>5, <2>1
  <2>7. ASSUME NEW i \in 1 .. n + m, NEW j \in 1 .. n + m, i < j
        PROVE  read'[i] < read'[j]
    <3>1. CASE i <= n /\ j <= n
      BY <1>3, <2>4, <2>7, <3>1
    <3>2. CASE i <= n /\ ~(j <= n)
      <4>1. read'[i] \in Nat /\ read'[i] < position
        BY <1>4, <2>4, <3>2
      <4>2. read'[j] \in Nat /\ position <= read'[j]
        BY <2>5, <2>6, <3>2
      <4>3. QED
        BY <1>1, <4>1, <4>2
    <3>3. CASE ~(i <= n)
      <4>1. ~(j <= n) /\ i - n < j - n
        BY <1>3, <2>1, <2>7, <3>3
      <4>2. i - n \in 1 .. m /\ j - n \in 1 .. m /\ read'[i] = more[i - n] /\ read'[j] = more[j - n]
        BY <2>5, <3>3, <4>1
      <4>3. QED
        BY <2>1, <4>1, <4>2
    <3>4. QED
      BY <3>1, <3>2, <3>3
  <2>8. \A i \in 1 .. n + m : read'[i] \notin skipped'
    <3>1. SUFFICES ASSUME NEW i \in 1 .. n + m PROVE read'[i] \notin skipped
      BY <1>6
    <3>2. CASE i <= n
      BY <1>3, <2>4, <3>2
    <3>3. CASE ~(i <= n)
      BY <2>5, <2>6, <3>3
    <3>4. QED
      BY <3>2, <3>3
  <2>9. InOrder'
    BY <2>3, <2>7, <2>8 DEF InOrder
  <2>10. {read'[i] : i \in 1 .. n + m} = {read[i] : i \in 1 .. n} \cup H
    <3>1. \A i \in 1 .. n + m : read'[i] \in {read[k] : k \in 1 .. n} \cup H
      <4>1. SUFFICES ASSUME NEW i \in 1 .. n + m PROVE read'[i] \in {read[k] : k \in 1 .. n} \cup H
        OBVIOUS
      <4>2. CASE i <= n
        BY <2>4, <4>2
      <4>3. CASE ~(i <= n)
        BY <2>5, <2>6, <4>3
      <4>4. QED
        BY <4>2, <4>3
    <3>2. \A k \in 1 .. n : k \in 1 .. n + m /\ read'[k] = read[k]
      <4>1. \A k \in 1 .. n : k \in 1 .. n + m /\ k <= n
        BY <1>3, <2>1
      <4>2. QED
        BY <2>4, <4>1
    <3>3. \A h \in H : \E i \in 1 .. n + m : read'[i] = h
      <4>1. SUFFICES ASSUME NEW h \in H PROVE \E i \in 1 .. n + m : read'[i] = h
        OBVIOUS
      <4>2. PICK k \in 1 .. m : more[k] = h
        BY <2>1
      <4>3. k + n \in 1 .. n + m /\ ~(k + n <= n) /\ (k + n) - n = k
        BY <1>3, <2>1
      <4>4. QED
        BY <2>5, <4>2, <4>3
    <3>4. QED
      BY <3>1, <3>2, <3>3
  <2>11. Taken' = Taken \cup H
    BY <1>6, <2>3, <2>10 DEF Taken
  <2>12. QED
    BY <2>3, <2>9, <2>11
<1>7. CASE read' = read /\ skipped' = skipped \cup H
  <2>1. \A i \in 1 .. Len(read) : read[i] \notin H
    BY <1>1, <1>2, <1>4
  <2>2. InOrder'
    BY <1>3, <1>7, <2>1 DEF InOrder
  <2>3. QED
    BY <1>3, <1>7, <2>2 DEF Taken
<1>8. QED
  BY <1>6, <1>7

LEMMA TakesKeeps ==
  ASSUME OneType, Reading, phase = "calls", call' = call, records' = records,
         NEW H \in SUBSET Wanted, \A h \in H : position <= h,
         \/ read' = read \o Ascending(H) /\ skipped' = skipped
         \/ read' = read /\ skipped' = skipped \cup H,
         \/ phase' = "end" /\ \A w \in Wanted : position <= w => w \in H
         \/ /\ phase' = "calls" /\ position' \in records
            /\ \A w \in Wanted : w < position \/ w \in H <=> w < position'
  PROVE  Reading'
<1>1. read' \in Seq(Nat) /\ InOrder' /\ Taken' = Taken \cup H
  BY TakesInOrder
<1>2. Wanted' = Wanted
  BY DEF Wanted
<1>3. Taken' \subseteq Wanted
  BY <1>1 DEF Reading
<1>4. \A w \in Wanted : w \in Nat
  <2>1. Wanted \in SUBSET Ids /\ Ids \in SUBSET Nat
    BY DEF Wanted, OfType, Reading, OneType, Id
  <2>2. QED
    BY <2>1
<1>5. \A w \in Wanted : w \in Taken <=> w < position
  BY DEF Reading
<1>6. position \in Nat
  <2>1. position \in Ids /\ Ids \in SUBSET Nat
    BY DEF Reading, OneType, Id
  <2>2. QED
    BY <2>1
<1>7. phase' = "end" => Taken' = Wanted
  <2>1. SUFFICES ASSUME phase' = "end", NEW w \in Wanted PROVE w \in Taken'
    BY <1>3
  <2>2. position <= w => w \in H
    BY <2>1
  <2>3. QED
    BY <1>1, <1>4, <1>5, <1>6, <2>2
<1>8. phase' = "calls" =>
        /\ position' \in records
        /\ \A w \in Wanted : w \in Taken' <=> w < position'
  BY <1>1, <1>5
<1>9. QED
  BY <1>1, <1>2, <1>3, <1>7, <1>8 DEF Reading

(* A call takes the next records that match, and leaves the cursor before  *)
(* the rest of them; it says notfound when there are no more.              *)
LEMMA CallTakes ==
  ASSUME OneType, Reading, phase = "calls", call.kind = "read", NEW count \in Nat \ {0}
  PROVE  /\ Call(count).ids \in SUBSET Wanted
         /\ \A h \in Call(count).ids : position <= h
         /\ \/ /\ Call(count).status = "notfound"
               /\ \A w \in Wanted : position <= w => w \in Call(count).ids
            \/ /\ Call(count).status = "success" /\ Call(count).position \in records
               /\ \A w \in Wanted :
                    w < position \/ w \in Call(count).ids <=> w < Call(count).position
<1> DEFINE run  == RunFrom(records, position, call.type)
           hits == Smallest(run \cap call.matching, count)
           last == IF Cardinality(hits) = count THEN Max(hits) ELSE Max(run)
           above == {other \in records : last < other}
<1>1. /\ records \in SUBSET Nat /\ IsFiniteSet(records) /\ position \in records
      /\ IdCount \in Nat /\ \A id \in records : id < IdCount
      /\ \A id \in records : TypeOf(id) = call.type
      /\ records = call.given
  <2>1. /\ records \in SUBSET Ids /\ Ids \in SUBSET Id /\ IsFiniteSet(Ids) /\ position \in records
        /\ records = call.given /\ \A id \in records : TypeOf(id) = call.type
    BY DEF Reading, OneType
  <2>2. IdCount \in Nat
    BY CountsAssumption DEF IdCount
  <2>3. \A id \in Id : id \in Nat /\ id < IdCount
    BY <2>2 DEF Id
  <2>4. QED
    BY <2>1, <2>2, <2>3, FS_Subset
<1>2. run = {id \in records : position <= id} /\ position \in run /\ run \in SUBSET records
  BY <1>1 DEF RunFrom, From
<1>3. Wanted = records \cap call.matching
  BY <1>1 DEF Wanted, OfType
<1>4. position # End
  BY <1>1 DEF End
<1>5. /\ Call(count).ids = hits
      /\ Call(count).position = Advanced(last).position /\ Call(count).status = Advanced(last).status
  <2>1. run # {}
    BY <1>2
  <2>2. QED
    BY <1>4, <2>1 DEF Call
<1>6. /\ run \cap call.matching \in SUBSET Nat /\ IsFiniteSet(run \cap call.matching)
      /\ hits \in SUBSET (run \cap call.matching)
  <2>1. run \cap call.matching \in SUBSET records
    BY <1>2
  <2>2. hits \in SUBSET (run \cap call.matching)
    BY DEF Smallest
  <2>3. QED
    BY <1>1, <2>1, <2>2, FS_Subset
<1> HIDE DEF run, hits
<1>7. /\ last \in run
      /\ \A h \in hits : h <= last
      /\ \A w \in run \cap call.matching : w \notin hits => last < w
  <2>1. CASE Cardinality(hits) = count
    <3>1. hits # {} /\ hits \in SUBSET Nat
      BY <1>6, <2>1, FS_EmptySet
    <3>2. \A h \in hits : h <= IdCount
      <4>1. \A h \in hits : h \in Nat /\ h < IdCount
        BY <1>1, <1>2, <1>6
      <4>2. QED
        BY <1>1, <4>1
    <3>3. last \in hits /\ \A h \in hits : h <= last
      BY <1>1, <2>1, <3>1, <3>2, MaxOf
    <3>4. \A w \in run \cap call.matching : w \notin hits => last < w
      BY <1>6, <3>3, SmallestIsClosed DEF hits
    <3>5. QED
      BY <1>6, <3>3, <3>4
  <2>2. CASE Cardinality(hits) # count
    <3>1. hits = run \cap call.matching
      BY <1>6, <2>2, FewerAreAll DEF hits
    <3>2. run \in SUBSET Nat /\ run # {}
      BY <1>1, <1>2
    <3>3. \A h \in run : h <= IdCount
      <4>1. \A h \in run : h \in Nat /\ h < IdCount
        BY <1>1, <1>2
      <4>2. QED
        BY <1>1, <4>1
    <3>4. last \in run /\ \A h \in run : h <= last
      BY <1>1, <2>2, <3>2, <3>3, MaxOf
    <3>5. QED
      BY <3>1, <3>4
  <2>3. QED
    BY <2>1, <2>2
<1> HIDE DEF last
<1>8. /\ hits \in SUBSET Wanted /\ \A h \in hits : position <= h
      /\ \A w \in Wanted : position <= w /\ w \notin hits => last < w
  BY <1>2, <1>3, <1>6, <1>7
<1>9. last \in Nat /\ position \in Nat /\ position <= last
  BY <1>1, <1>2, <1>7
<1>10. CASE above = {}
  <2>1. Call(count).status = "notfound"
    BY <1>5, <1>10 DEF Advanced
  <2>2. \A w \in Wanted : position <= w => w \in hits
    BY <1>3, <1>8, <1>10
  <2>3. QED
    BY <1>5, <1>8, <2>1, <2>2
<1>11. CASE above # {}
  <2>1. Call(count).status = "success" /\ Call(count).position = Min(above)
    BY <1>5, <1>11 DEF Advanced
  <2>2. Min(above) \in above /\ \A other \in above : Min(above) <= other
    <3>1. above \in SUBSET Nat
      BY <1>1
    <3>2. QED
      BY <1>11, <3>1, MinOf
  <2> DEFINE next == Min(above)
  <2> HIDE DEF next
  <2>3. next \in records /\ next \in Nat /\ last < next /\ \A w \in records : last < w => next <= w
    BY <1>1, <2>2 DEF next
  <2>4. ASSUME NEW w \in Wanted
        PROVE  w < position \/ w \in hits <=> w < next
    <3>1. w \in Nat /\ w \in records
      BY <1>1, <1>3
    <3>2. w \in hits => w <= last
      BY <1>7
    <3>3. position <= w /\ w \notin hits => next <= w
      BY <1>8, <2>3, <3>1
    <3>4. QED
      BY <1>9, <2>3, <3>1, <3>2, <3>3
  <2>5. QED
    BY <1>5, <1>8, <2>1, <2>3, <2>4 DEF next
<1>12. QED
  BY <1>10, <1>11

(* Reading by an index: the ids under the key, whatever type they are of.  *)
LEMMA IndexTakes ==
  ASSUME OneType, Reading, phase = "calls", call.kind = "index",
         NEW count \in Nat \ {0}, ReadIndex(count)
  PROVE  Reading'
<1> DEFINE here == From(Wanted, position)
           ids == Smallest(here, count)
           rest == here \ ids
<1>1. /\ Wanted \in SUBSET records /\ Wanted \in SUBSET Nat /\ IsFiniteSet(Wanted)
      /\ position \in Nat
  <2>1. /\ Wanted \in SUBSET records /\ records \in SUBSET Ids /\ Ids \in SUBSET Nat
        /\ IsFiniteSet(Ids) /\ position \in records
    BY DEF Reading, OneType, Id, Wanted, OfType
  <2>2. QED
    BY <2>1, FS_Subset
<1>2. /\ here \in SUBSET Wanted /\ \A w \in Wanted : w \in here <=> position <= w
      /\ ids \in SUBSET here
  BY DEF From, Smallest
<1>3. here \in SUBSET Nat /\ IsFiniteSet(here)
  BY <1>1, <1>2, FS_Subset
<1>4. \A h \in ids, w \in rest : h < w
  BY <1>3, SmallestIsClosed
<1>5. /\ call' = call /\ records' = records /\ skipped' = skipped
      /\ read' = read \o Ascending(ids)
      /\ phase' = IF rest = {} THEN "end" ELSE "calls"
      /\ position' = IF rest = {} THEN Max(here) ELSE Min(rest)
  BY DEF ReadIndex
<1> HIDE DEF here, ids
<1>6. ids \in SUBSET Wanted /\ \A h \in ids : position <= h
  BY <1>2
<1>7. CASE rest = {}
  <2>1. \A w \in Wanted : position <= w => w \in ids
    BY <1>2, <1>7
  <2>2. QED
    BY <1>5, <1>6, <1>7, <2>1, TakesKeeps
<1>8. CASE rest # {}
  <2> DEFINE next == Min(rest)
  <2>1. next \in rest /\ \A w \in rest : next <= w
    <3>1. rest \in SUBSET Nat
      BY <1>3
    <3>2. QED
      BY <1>8, <3>1, MinOf
  <2>2. position' = next /\ phase' = "calls"
    BY <1>5, <1>8
  <2> HIDE DEF next
  <2>3. next \in Wanted /\ next \in Nat /\ next \in records /\ position <= next
    BY <1>1, <1>2, <2>1
  <2>4. ASSUME NEW w \in Wanted
        PROVE  w < position \/ w \in ids <=> w < next
    <3>1. w \in Nat /\ (position <= w => w \in here)
      BY <1>1, <1>2
    <3>2. w \in ids => w < next
      BY <1>4, <2>1
    <3>3. w \in here /\ w \notin ids => next <= w
      BY <2>1
    <3>4. QED
      BY <1>1, <2>3, <3>1, <3>2, <3>3
  <2>5. QED
    BY <1>5, <1>6, <2>2, <2>3, <2>4, TakesKeeps
<1>9. QED
  BY <1>7, <1>8

LEMMA IndexStarts == OneType /\ Reading /\ SelectIndex => Reading'
<1>1. SUFFICES ASSUME OneType, Reading, SelectIndex, call.kind # "read" PROVE Reading'
  BY DEF SelectIndex, ByIndex
<1>2. /\ read = <<>> /\ skipped = {} /\ records = call.given
      /\ call' = call /\ records' = records /\ read' = read /\ skipped' = skipped
  BY <1>1 DEF Reading, SelectIndex
<1>3. Wanted \in SUBSET records /\ Wanted \in SUBSET Nat
  <2>1. Wanted \in SUBSET records /\ records \in SUBSET Ids /\ Ids \in SUBSET Nat
    BY <1>1 DEF Reading, OneType, Id, Wanted, OfType
  <2>2. QED
    BY <2>1
<1>4. Wanted' = Wanted /\ Taken = {} /\ Taken' = {}
  BY <1>2 DEF Wanted, Taken
<1>5. CASE Wanted # {}
  <2>1. Min(Wanted) \in Wanted /\ \A w \in Wanted : Min(Wanted) <= w
    BY <1>3, <1>5, MinOf
  <2>2. phase' = "calls" /\ position' = Min(Wanted)
    BY <1>1, <1>5 DEF SelectIndex
  <2>3. \A w \in Wanted : ~(w < position')
    <3>1. position' \in Nat /\ \A w \in Wanted : w \in Nat /\ position' <= w
      BY <1>3, <2>1, <2>2
    <3>2. QED
      BY <3>1
  <2>4. QED
    BY <1>1, <1>2, <1>3, <1>4, <2>1, <2>2, <2>3 DEF Reading, InOrder
<1>6. CASE Wanted = {}
  <2>1. phase' = "end"
    BY <1>1, <1>6 DEF SelectIndex
  <2>2. QED
    BY <1>1, <1>2, <1>4, <1>6, <2>1 DEF Reading, InOrder
<1>7. QED
  BY <1>5, <1>6

LEMMA SelectReads == OneType /\ Reading /\ Select => Reading'
<1>1. SUFFICES ASSUME OneType, Reading, Select PROVE Reading'
  OBVIOUS
<1>2. /\ read = <<>> /\ skipped = {} /\ records = call.given
      /\ call.given \in SUBSET Ids /\ call.type \in Types
  BY <1>1 DEF Reading, Select
<1>3. /\ call' = call /\ records' = records /\ read' = read /\ skipped' = skipped
      /\ \/ /\ phase' = "calls" /\ position' \in records
            /\ \A id \in call.given : TypeOf(id) = call.type
            /\ \A id \in Wanted : position' <= id
         \/ phase' = "end" /\ Wanted = {}
  BY <1>1, <1>2, SelectStarts
<1>4. Wanted' = Wanted /\ Taken = {} /\ Taken' = {}
  BY <1>2, <1>3 DEF Wanted, Taken
<1>5. phase' = "calls" => \A w \in Wanted : ~(w < position')
  <2>1. Wanted \in SUBSET Ids /\ records \in SUBSET Ids /\ Ids \in SUBSET Nat
    BY <1>1, <1>2 DEF OneType, Id, Wanted, OfType
  <2>2. SUFFICES ASSUME phase' = "calls", NEW w \in Wanted PROVE ~(w < position')
    OBVIOUS
  <2>3. w \in Nat /\ position' \in Nat /\ position' <= w
    BY <1>3, <2>1, <2>2
  <2>4. QED
    BY <2>3
<1>6. QED
  BY <1>1, <1>2, <1>3, <1>4, <1>5 DEF Reading, InOrder

LEMMA CallKeeps ==
  ASSUME OneType, Reading, call.kind = "read", NEW count \in Nat \ {0},
         Read(count) \/ Skip(count)
  PROVE  Reading'
<1> DEFINE result == Call(count)
<1>1. /\ phase = "calls" /\ call' = call /\ records' = records
      /\ position' = result.position
      /\ phase' = IF result.status = "notfound" THEN "end" ELSE "calls"
      /\ \/ read' = read \o Ascending(result.ids) /\ skipped' = skipped
         \/ read' = read /\ skipped' = skipped \cup result.ids
  BY DEF Read, Skip, CallReturns
<1>2. /\ result.ids \in SUBSET Wanted /\ \A h \in result.ids : position <= h
      /\ \/ /\ result.status = "notfound"
            /\ \A w \in Wanted : position <= w => w \in result.ids
         \/ /\ result.status = "success" /\ result.position \in records
            /\ \A w \in Wanted : w < position \/ w \in result.ids <=> w < result.position
  BY <1>1, CallTakes
<1> HIDE DEF result
<1>3. \/ phase' = "end" /\ \A w \in Wanted : position <= w => w \in result.ids
      \/ /\ phase' = "calls" /\ position' \in records
         /\ \A w \in Wanted : w < position \/ w \in result.ids <=> w < position'
  BY <1>1, <1>2
<1>4. QED
  BY <1>1, <1>2, <1>3, TakesKeeps

(* The kinds whose reading ends; that by db_record_index_read does not.    *)
Readings == /\ Kinds \subseteq {"read", "delete", "index", "get"}
            /\ Counts \subseteq Nat \ {0}

(* However a reading by type and matcher or by an index is split into      *)
(* calls, it takes every match once and in order, and a lookup by ids      *)
(* finds what exists (record.c:190, 232 and 275, index.c:415); for any     *)
(* number of records of one type.                                          *)
THEOREM ReadingIsComplete == OneType /\ Readings => (Spec => []ReadingIsExact)
<1> SUFFICES ASSUME OneType, Readings PROVE Spec => []ReadingIsExact
  OBVIOUS
<1>1. Init => ReadInv
  <2>1. SUFFICES ASSUME Init PROVE ReadInv
    OBVIOUS
  <2>2. /\ call.kind \in {"read", "delete", "index", "get"} /\ call.given \in SUBSET Ids
        /\ call.type \in Types /\ records = call.given /\ read = <<>> /\ skipped = {}
        /\ phase = "select"
    BY <2>1 DEF Init, Readings
  <2>3. Taken = {} /\ InOrder /\ read \in Seq(Nat)
    BY <2>2 DEF Taken, InOrder
  <2>4. QED
    BY <2>2, <2>3 DEF ReadInv, Reading, LookedUp
<1>2. ReadInv /\ [Next]_vars => ReadInv'
  <2>1. SUFFICES ASSUME ReadInv, [Next]_vars PROVE ReadInv'
    OBVIOUS
  <2>2. call' = call
    BY <2>1 DEF Next, vars, Select, SelectIndex, DeleteBatch, Get, Read, Skip, ReadIndex,
                CallReturns
  <2>3. CASE UNCHANGED vars
    <3>1. Reading => Reading'
      BY <2>3 DEF vars, Reading, Taken, Wanted, InOrder
    <3>2. LookedUp => LookedUp'
      BY <2>3 DEF vars, LookedUp, Missing
    <3>3. QED
      BY <2>1, <2>3, <3>1, <3>2 DEF vars, ReadInv
  <2>4. CASE call.kind \in {"read", "index"} /\ Next
    <3>1. Reading
      BY <2>1, <2>4 DEF ReadInv
    <3>2. Select => Reading'
      BY <3>1, SelectReads
    <3>3. SelectIndex => Reading'
      BY <3>1, IndexStarts
    <3>4. ASSUME NEW count \in Counts, Read(count) \/ Skip(count)
          PROVE  Reading'
      <4>1. call.kind = "read" /\ count \in Nat \ {0}
        BY <3>4 DEF Read, Skip, CallReturns, Readings
      <4>2. QED
        BY <3>1, <3>4, <4>1, CallKeeps
    <3>5. ASSUME NEW count \in Counts, ReadIndex(count)
          PROVE  Reading'
      <4>1. call.kind = "index" /\ phase = "calls" /\ count \in Nat \ {0}
        BY <2>4, <3>5 DEF ReadIndex, ByIndex, Readings
      <4>2. QED
        BY <3>1, <3>5, <4>1, IndexTakes
    <3>6. Reading'
      BY <2>4, <3>2, <3>3, <3>4, <3>5 DEF Next, DeleteBatch, Get
    <3>7. QED
      BY <2>2, <2>4, <3>6 DEF ReadInv
  <2>5. CASE call.kind = "delete" /\ Next
    <3>1. read' = read /\ skipped' = skipped
      BY <2>5 DEF Next, Select, SelectIndex, DeleteBatch, Get, Read, Skip, ReadIndex,
                  CallReturns, ByIndex
    <3>2. QED
      BY <2>1, <2>2, <2>5, <3>1 DEF ReadInv
  <2>6. CASE call.kind = "get" /\ Next
    <3>1. Get
      BY <2>6 DEF Next, Select, SelectIndex, DeleteBatch, Read, Skip, ReadIndex,
                  CallReturns, ByIndex
    <3>2. records' = records /\ Missing' = Missing
      BY <2>2, <3>1 DEF Get, Missing
    <3>3. LookedUp'
      BY <2>1, <2>2, <2>6, <3>1, <3>2 DEF ReadInv, LookedUp, Get
    <3>4. QED
      BY <2>2, <2>6, <3>3 DEF ReadInv
  <2>7. QED
    BY <2>1, <2>3, <2>4, <2>5, <2>6 DEF ReadInv
<1>3. ReadInv => ReadingIsExact
  <2>1. SUFFICES ASSUME ReadInv PROVE ReadingIsExact
    OBVIOUS
  <2>2. call.kind # "get" => InOrder
    BY <2>1 DEF ReadInv, Reading, InOrder
  <2>3. phase = "end" /\ call.kind \in {"read", "index", "index_records"} => AllTaken
    BY <2>1 DEF ReadInv, Reading, AllTaken, Taken
  <2>4. phase = "end" /\ call.kind = "get" =>
          /\ status = "success" => read = Existing(call.ids, call.given)
          /\ status = "notfound" <=> call.all /\ \E i \in DOMAIN call.ids : call.ids[i] \notin call.given
    BY <2>1 DEF ReadInv, LookedUp, Missing
  <2>5. QED
    BY <2>2, <2>3, <2>4 DEF ReadingIsExact
<1>4. QED
  BY <1>1, <1>2, <1>3, PTL DEF Spec
=============================================================================
