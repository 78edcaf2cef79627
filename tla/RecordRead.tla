----------------------------- MODULE RecordRead -----------------------------
(***************************************************************************)
(* Records selected by type and matcher (record.c): db_record_select,      *)
(* db_record_read and db_record_skip with a cursor that stays open between *)
(* the calls, and db_record_select_delete, which reads with one cursor and *)
(* deletes with another in the same transaction.  Reading by an index has  *)
(* the same shape: db_index_select and db_index_read (index.c), and        *)
(* db_record_index_read (record.c), which looks the records up as well;    *)
(* db_record_get looks them up by given ids.                               *)
(*                                                                         *)
(* A step is one call, or one round of db_record_select_delete.  The       *)
(* caller goes on until a call returns notfound.                           *)
(***************************************************************************)
EXTENDS RecordIds, Sequences

CONSTANTS Ids,           \* records that may exist
          Types,         \* types that are selected
          Kinds,         \* of selections: read, delete, index, index_records, get
          Asked,         \* arrays of ids given to db_record_get
          Counts,        \* counts given to db_record_read and db_record_skip
          BatchLength    \* db_batch_len

VARIABLES call,          \* [kind, type, matching, given, ids, all]: the
                         \* selection, and the records that exist when it is
                         \* made; matching are those the matcher accepts, or
                         \* those that are in the index under the key; ids and
                         \* match_all are what db_record_get is given
          records,       \* ids in the records tree
          position,      \* the id the cursor is at, or End
          status,        \* of the last call
          read,          \* ids read so far, in the order they were read
          skipped,       \* ids skipped so far
          phase          \* select, calls or end

vars == <<call, records, position, status, read, skipped, phase>>

End == IdCount      \* the cursor is behind the last record

Wanted == OfType(call.given, call.type) \cap call.matching
-----------------------------------------------------------------------------
Init ==
  /\ \/ call \in [kind : Kinds \ {"get"}, type : Types, matching : SUBSET Ids,
                  given : SUBSET Ids, ids : {<<>>}, all : {FALSE}]
     \/ call \in [kind : Kinds \cap {"get"}, type : Types, matching : {{}},
                  given : SUBSET Ids, ids : Asked, all : BOOLEAN]
  /\ records = call.given /\ position = End /\ status = "success"
  /\ read = <<>> /\ skipped = {} /\ phase = "select"

ByIndex == call.kind \in {"index", "index_records"}

Select ==
  /\ phase = "select" /\ call.kind \in {"read", "delete"}
  /\ LET found == From(records, AddType(0, call.type))
     IN IF found # {} /\ TypeOf(Min(found)) = call.type
        THEN phase' = "calls" /\ position' = Min(found) /\ UNCHANGED status
        ELSE phase' = "end" /\ status' = "notfound" /\ UNCHANGED position
  /\ UNCHANGED <<call, records, read, skipped>>

(* db_index_select: the first id under the key.                            *)
SelectIndex ==
  /\ phase = "select" /\ ByIndex
  /\ IF Wanted # {}
     THEN phase' = "calls" /\ position' = Min(Wanted) /\ UNCHANGED status
     ELSE phase' = "end" /\ status' = "notfound" /\ UNCHANGED position
  /\ UNCHANGED <<call, records, read, skipped>>

Missing == {i \in DOMAIN call.ids : call.ids[i] \notin records}
Existing(ids, among) == SelectSeq(ids, LAMBDA id : id \in among)

(* db_record_get: with match_all the first record that is missing ends it, *)
(* and the records before it stay in the result.                           *)
Get ==
  /\ phase = "select" /\ call.kind = "get" /\ phase' = "end"
  /\ IF call.all /\ Missing # {}
     THEN read' = SubSeq(call.ids, 1, Min(Missing) - 1) /\ status' = "notfound"
     ELSE read' = Existing(call.ids, records) /\ status' = "success"
  /\ UNCHANGED <<call, records, position, skipped>>

(* The count smallest of ids.                                              *)
Smallest(ids, count) == {id \in ids : Cardinality({other \in ids : other < id}) < count}

(* Where the cursor is after MDB_NEXT_NODUP from id: it stays where it is  *)
(* if there is no next record.                                             *)
Advanced(id) ==
  LET above == {other \in records : id < other}
  IN IF above = {} THEN [position |-> id, status |-> "notfound"]
     ELSE [position |-> Min(above), status |-> "success"]

(* A mutant: the cursor stays at the last match that was read.             *)
Call_StaysAtLast(count) ==
  LET run  == RunFrom(records, position, call.type)
      hits == Smallest(run \cap call.matching, count)
      next == Advanced(Max(run))
  IN IF position = End \/ run = {} THEN [ids |-> {}, position |-> position, status |-> "notfound"]
     ELSE IF Cardinality(hits) = count
          THEN [ids |-> hits, position |-> Max(hits), status |-> "success"]
          ELSE [ids |-> hits, position |-> next.position, status |-> next.status]
(* MDB_GET_CURRENT for a cursor behind the last record; LMDB resets the    *)
(* cursors of a tree that becomes empty, and refuses to read one.          *)
AtEnd == [ids |-> {}, position |-> End,
          status |-> IF records = {} THEN "invalid" ELSE "notfound"]

(* db_record_read: it goes on to the record after the last match that is   *)
(* counted, or to the first record of another type, which it stops at      *)
(* without notfound.                                                       *)
Call(count) ==
  LET run  == RunFrom(records, position, call.type)
      hits == Smallest(run \cap call.matching, count)
      next == Advanced(IF Cardinality(hits) = count THEN Max(hits) ELSE Max(run))
  IN IF position = End THEN AtEnd
     ELSE IF run = {} THEN [ids |-> {}, position |-> position, status |-> "success"]
     ELSE [ids |-> hits, position |-> next.position, status |-> next.status]

Ascending(ids) == CHOOSE array \in [1 .. Cardinality(ids) -> ids] :
                    \A i, j \in DOMAIN array : i < j => array[i] < array[j]

CallReturns(result) ==
  /\ phase = "calls" /\ call.kind = "read"
  /\ position' = result.position /\ status' = result.status
  /\ phase' = IF result.status = "notfound" THEN "end" ELSE "calls"
  /\ UNCHANGED <<call, records>>

Read(count) == LET result == Call(count)
               IN /\ CallReturns(result)
                  /\ read' = read \o Ascending(result.ids) /\ UNCHANGED skipped

Skip(count) == LET result == Call(count)
               IN /\ CallReturns(result)
                  /\ skipped' = skipped \cup result.ids /\ UNCHANGED read

(* db_index_read returns notfound with the last ids, its cursor stays at   *)
(* the last one.  db_record_index_read overwrites this status with that of *)
(* the lookup of the records, which all exist.                             *)
ReadIndex(count) ==
  /\ phase = "calls" /\ ByIndex
  /\ LET here == From(Wanted, position)
         ids  == Smallest(here, count)
         rest == here \ ids
     IN /\ read' = read \o Ascending(ids)
        /\ position' = IF rest = {} THEN Max(here) ELSE Min(rest)
        /\ status' = IF rest = {} /\ call.kind = "index" THEN "notfound" ELSE "success"
        /\ phase' = IF status' = "notfound" THEN "end" ELSE "calls"
  /\ UNCHANGED <<call, records, skipped>>

(* A mutant: a batch that is not full is taken for the last one, before it *)
(* is deleted.                                                             *)
DeleteBatch_FullOnly ==
  /\ phase = "calls" /\ call.kind = "delete"
  /\ LET result == Call(BatchLength)
     IN IF Cardinality(result.ids) < BatchLength
        THEN phase' = "end" /\ UNCHANGED <<position, records>>
        ELSE /\ records' = records \ result.ids
             /\ position' = result.position
             /\ UNCHANGED phase
  /\ UNCHANGED <<call, status, read, skipped>>
(* A mutant: the status of the read is overwritten.                        *)
DeleteBatch_NotfoundLost ==
  /\ phase = "calls" /\ call.kind = "delete"
  /\ LET result == Call(BatchLength)
         left   == records \ result.ids
         next   == From(left, result.position)
     IN records' = left /\ position' = IF next = {} THEN End ELSE Min(next)
  /\ UNCHANGED <<call, status, read, skipped, phase>>
(* A batch is read and deleted.  LMDB moves the cursor of the selection to *)
(* the next record when its own is deleted.                                *)
DeleteBatch ==
  /\ phase = "calls" /\ call.kind = "delete"
  /\ LET result == Call(BatchLength)
         left   == records \ result.ids
         next   == From(left, result.position)
     IN IF result.ids = {}
        THEN /\ phase' = IF result.status = "success" THEN "calls" ELSE "end"
             /\ status' = result.status
             /\ position' = result.position /\ UNCHANGED records
        ELSE /\ records' = left /\ status' = "success"
             /\ position' = IF next = {} THEN End ELSE Min(next)
             /\ UNCHANGED phase
  /\ UNCHANGED <<call, read, skipped>>

Next == \/ Select \/ SelectIndex \/ DeleteBatch \/ Get
        \/ \E count \in Counts : Read(count) \/ Skip(count) \/ ReadIndex(count)

Spec == Init /\ [][Next]_vars /\ WF_vars(Next)
-----------------------------------------------------------------------------
TypeOK == /\ records \subseteq call.given /\ position \in call.given \cup {End}
          /\ status \in {"success", "notfound", "invalid"}
          /\ read \in Seq(OfType(call.given, call.type))
          /\ skipped \subseteq Ids /\ phase \in {"select", "calls", "end"}

InOrder == /\ \A i, j \in 1 .. Len(read) : i < j => read[i] < read[j]
           /\ \A i \in 1 .. Len(read) : read[i] \notin skipped
AllTaken == {read[i] : i \in 1 .. Len(read)} \cup skipped = Wanted

(* In whatever way a reading is split into calls, no record is read twice  *)
(* or after it was skipped; when a call returns notfound, every record     *)
(* that matches, or is under the key of the index, was read or skipped.    *)
(* A lookup by ids gives the records that exist, in the order asked for;   *)
(* if all of them must exist it says notfound exactly when one does not.   *)
ReadingIsExact ==
  /\ call.kind # "get" => InOrder
  /\ phase = "end" /\ call.kind \in {"read", "index", "index_records"} => AllTaken
  /\ phase = "end" /\ call.kind = "get" =>
       /\ status = "success" => read = Existing(call.ids, call.given)
       /\ status = "notfound" <=> call.all /\ \E i \in DOMAIN call.ids : call.ids[i] \notin call.given

(* db_record_select_delete deletes the records that match and no others,   *)
(* in batches that move the cursor under the selection that reads them.    *)
DeleteIsExact == phase = "end" /\ call.kind = "delete" => records = call.given \ Wanted

(* A call that returns success took as many records as it was asked for.   *)
CallsTakeTheirCount ==
  [][\A count \in Counts : (Read(count) \/ ReadIndex(count)) /\ status' = "success" =>
                             Len(read') = Len(read) + count]_vars

(* A caller that goes on until notfound, and db_record_select_delete, come *)
(* to an end.                                                              *)
SelectionsEnd == <>(phase = "end")
=============================================================================
