------------------------------- MODULE Records -------------------------------
(***************************************************************************)
(* The life of record ids: types and records are created and deleted, ids  *)
(* come from a sequence per type that is kept in memory only and found     *)
(* again when the database is opened (type.c, record.c, main.c, open.c).   *)
(*                                                                         *)
(* LMDB has one write transaction at a time.  records and edges are what   *)
(* the current one sees, committed what it started from; with none active  *)
(* they are equal.  The sequences are no part of a transaction.            *)
(***************************************************************************)
EXTENDS RecordIds

CONSTANTS MaxTypes,       \* bound: types that exist at the same time
          MaxSequence,    \* bound: no sequence grows beyond it
          MaxEdges        \* bound: relations that exist at the same time

VARIABLES types,          \* ids of the types in the system tree
          typeSequence,   \* types[0].sequence of the cache
          sequence,       \* types[id].sequence of the cache
          records,        \* ids in the records tree
          edges,          \* relations, as pairs of the left and the right id
          committed,      \* [records, edges] of the last commit
          status,         \* of the environment: open, closed or refused
          withdrawn       \* history: ids of records deleted by their type

vars == <<types, typeSequence, sequence, records, edges, committed, status, withdrawn>>
memory == <<typeSequence, sequence>>
view == <<records, edges>>

TypeLimit == TypeCount - 1

NoTransaction == committed = [records |-> records, edges |-> edges]
NoSequence == [t \in TypeId |-> 0]

(* Relations of a left or a right that is among ids.                       *)
EdgesOf(ids) == {e \in edges : e[1] \in ids \/ e[2] \in ids}
-----------------------------------------------------------------------------
Init ==
  /\ types = {} /\ typeSequence = 0 /\ sequence = NoSequence
  /\ records = {} /\ edges = {} /\ committed = [records |-> {}, edges |-> {}]
  /\ status = "closed" /\ withdrawn = {}

(* The largest type id in the system tree: TypeCatalogue looks at how it   *)
(* is found.                                                               *)
OpenedTypeSequence ==
  LET current == IF types = {} THEN 0 ELSE Max(types)
  IN IF current = TypeLimit THEN current ELSE 1 + current

(* db_open fails when the search for one of the sequences fails.           *)
Open ==
  /\ status # "open"
  /\ IF \E t \in types : LastId(records, t) = NotFound
     THEN status' = "refused" /\ UNCHANGED memory
     ELSE /\ status' = "open"
          /\ typeSequence' = OpenedTypeSequence
          /\ sequence' = [t \in TypeId |-> IF t \in types THEN OpenedSequence(records, t) ELSE 0]
  /\ UNCHANGED <<types, view, committed, withdrawn>>

(* db_close, or the end of the process, with or without a transaction.     *)
Close ==
  /\ status = "open" /\ status' = "closed"
  /\ records' = committed.records /\ edges' = committed.edges
  /\ typeSequence' = 0 /\ sequence' = NoSequence
  /\ UNCHANGED <<types, committed, withdrawn>>

Commit == /\ status = "open" /\ ~NoTransaction
          /\ committed' = [records |-> records, edges |-> edges]
          /\ UNCHANGED <<types, memory, view, status, withdrawn>>

Abort == /\ status = "open" /\ ~NoTransaction
         /\ records' = committed.records /\ edges' = committed.edges
         /\ UNCHANGED <<types, memory, committed, status, withdrawn>>

CreateType ==
  /\ status = "open" /\ NoTransaction
  /\ typeSequence < TypeLimit /\ Cardinality(types) < MaxTypes
  /\ types' = types \cup {typeSequence}
  /\ typeSequence' = 1 + typeSequence
  /\ sequence' = [sequence EXCEPT ![typeSequence] = 1]
  /\ UNCHANGED <<view, committed, status, withdrawn>>

(* A mutant: the records stay.                                             *)
DeleteType_KeepsRecords(t) ==
  /\ status = "open" /\ NoTransaction
  /\ types' = types \ {t} /\ sequence' = [sequence EXCEPT ![t] = 0]
  /\ UNCHANGED <<view, committed, typeSequence, status, withdrawn>>
(* The records of the type go as db_record_delete_type lets them go; the   *)
(* relations are left alone.                                               *)
DeleteType(t) ==
  /\ status = "open" /\ NoTransaction
  /\ types' = types \ {t}
  /\ sequence' = [sequence EXCEPT ![t] = 0]
  /\ records' = records \ Run(records, t)
  /\ committed' = [committed EXCEPT !.records = records']
  /\ withdrawn' = withdrawn \cup Run(records, t)
  /\ UNCHANGED <<typeSequence, edges, status>>

(* A put without flags: a record that has the id already is replaced.      *)
Create(t) ==
  /\ status = "open" /\ sequence[t] < ElementLimit /\ sequence[t] <= MaxSequence
  /\ sequence' = [sequence EXCEPT ![t] = 1 + @]
  /\ records' = records \cup {AddType(sequence[t], t)}
  /\ UNCHANGED <<types, typeSequence, edges, committed, status, withdrawn>>

Relate(left, right) ==
  /\ status = "open" /\ Cardinality(edges \cup {<<left, right>>}) <= MaxEdges
  /\ edges' = edges \cup {<<left, right>>}
  /\ UNCHANGED <<types, memory, records, committed, status, withdrawn>>

(* A mutant: relations to the records are not looked for.                  *)
Delete_LeftOnly(ids) ==
  /\ status = "open" /\ records' = records \ ids
  /\ edges' = {e \in edges : e[1] \notin ids}
  /\ UNCHANGED <<types, memory, committed, status, withdrawn>>
Delete(ids) ==
  /\ status = "open"
  /\ records' = records \ ids
  /\ edges' = edges \ EdgesOf(ids)
  /\ UNCHANGED <<types, memory, committed, status, withdrawn>>

(* db_record_delete_type, which leaves the type.                           *)
DeleteRecordsOfType(t) ==
  /\ status = "open"
  /\ records' = records \ Run(records, t)
  /\ withdrawn' = withdrawn \cup Run(records, t)
  /\ UNCHANGED <<types, memory, edges, committed, status>>
-----------------------------------------------------------------------------
Next ==
  \/ Open \/ Close \/ Commit \/ Abort \/ CreateType
  \/ \E t \in types : \/ DeleteType(t)
                     \/ Create(t)
                     \/ DeleteRecordsOfType(t)
  \/ \E left, right \in records : Relate(left, right)
  \/ \E ids \in (SUBSET records) \ {{}} : Delete(ids)

Spec == Init /\ [][Next]_vars
-----------------------------------------------------------------------------
TypeOK ==
  /\ types \subseteq TypeId /\ typeSequence \in 0 .. TypeLimit
  /\ sequence \in [TypeId -> 0 .. ElementLimit]
  /\ records \subseteq Id /\ edges \subseteq Id \X Id
  /\ committed.records \subseteq Id /\ committed.edges \subseteq Id \X Id
  /\ status \in {"open", "closed", "refused"} /\ withdrawn \subseteq Id

(* db_record_create never replaces a record that exists, whatever was      *)
(* deleted, aborted and opened again before.                               *)
CreatedIsNew ==
  [][\A t \in types : Create(t) => AddType(sequence[t], t) \notin records]_vars

(* The records of a deleted type are gone with it, so that a later type    *)
(* that gets the same id starts without records.                           *)
DeletedTypesLeaveNoRecord == \A id \in records : TypeOf(id) \in types

(* db_open succeeds for every state that the operations and the end of the *)
(* process, at any time, leave on disk.                                    *)
OpenSucceeds == status # "refused"

(* Relations do not outlive their records, with aborts and crashes in any  *)
(* order, but for those of records that were deleted by their type, which  *)
(* looks after no relations.                                               *)
RelatedRecordsExist == \A e \in edges : {e[1], e[2]} \subseteq records \cup withdrawn
=============================================================================
