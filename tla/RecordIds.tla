------------------------------ MODULE RecordIds ------------------------------
(***************************************************************************)
(* The layout of record ids (sph-db.h) and the searches of the records     *)
(* tree that start from it (open.c, record.c, type.c, index.c).            *)
(*                                                                         *)
(* An id holds the type in its low bits and the element in its high bits,  *)
(* and the records tree is sorted by whole ids, as numbers.  The searches  *)
(* are written as if the records of a type were neighbours in the tree.    *)
(***************************************************************************)
EXTENDS Integers, FiniteSetsExt

CONSTANTS TypeCount,      \* 2^16: the values of db_type_id_t
          ElementCount    \* 2^48: the elements an id has room for

ASSUME CountsAssumption == /\ TypeCount \in Nat \ {0, 1}
                           /\ ElementCount \in Nat \ {0, 1}

IdCount == TypeCount * ElementCount
Id == 0 .. IdCount - 1
TypeId == 1 .. TypeCount - 1

(* The bits of an element that does not fit fall off.                      *)
AddType(element, type) == ((element * TypeCount) % IdCount) + (type % TypeCount)

TypeOf(id) == id % TypeCount
ElementOf(id) == id \div TypeCount

(* db_element_id_limit is the mask of the element bits within an id.       *)
ElementLimit == IdCount - TypeCount

OfType(records, type) == {id \in records : TypeOf(id) = type}

From(records, start) == {id \in records : start <= id}

(* The records that a loop over the records of a type passes: it starts at *)
(* the first id that is not below the smallest of the type, and stops at   *)
(* the first record of another type.                                       *)
RunFrom(records, start, type) ==
  {id \in From(records, start) :
     \A other \in From(records, start) : other <= id => TypeOf(other) = type}
Run(records, type) == RunFrom(records, AddType(0, type), type)
-----------------------------------------------------------------------------
NotFound == -1      \* MDB_NOTFOUND where an id was required

FirstId(records, type) ==
  LET found == From(records, AddType(0, type))
  IN IF found # {} /\ TypeOf(Min(found)) = type THEN Min(found) ELSE 0

(* A mutant: an empty tree is an error.                                    *)
LastId_EmptyIsError(records, type) == IF records = {} THEN NotFound ELSE Max(records)
(* The last id of the type; it is looked for at the end of the tree, and   *)
(* before the first record of the next type.                               *)
LastId(records, type) ==
  LET next == FirstId(records, 1 + type)
      before == {id \in records : id < next}
  IN CASE records = {}                               -> 0
       [] records # {} /\ TypeOf(Max(records)) = type -> Max(records)
       [] OTHER -> IF next = 0 THEN 0
                   ELSE IF before = {} THEN NotFound
                   ELSE IF TypeOf(Max(before)) = type THEN Max(before) ELSE 0

(* A mutant: the sequence starts at the largest id and not after it.       *)
OpenedSequence_AtLast(records, type) == ElementOf(LastId(records, type))
(* The sequence of a type when the database is opened.                     *)
OpenedSequence(records, type) ==
  LET element == ElementOf(LastId(records, type))
  IN IF element < ElementLimit THEN 1 + element ELSE element
=============================================================================
