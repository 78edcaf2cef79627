------------------------------- MODULE Indices -------------------------------
(***************************************************************************)
(* Indices over the fields of one record type (index.c) and the records    *)
(* they follow (record.c): the index trees, the system tree, the handles   *)
(* of the trees and the cache of one environment that two threads use.     *)
(* Records of other types are in the same tree.  They come and go in       *)
(* transactions that touch nothing else here, so that there may be any of  *)
(* them when the tree is searched.                                         *)
(*                                                                         *)
(* One thread writes records in transactions of its own.  The other        *)
(* creates, deletes and rebuilds indices; each of these takes several      *)
(* steps, each step may fail, and the first thread may run between them.   *)
(* LMDB has one write transaction at a time: records and entries are what  *)
(* the current one sees, committed what it started from.                   *)
(*                                                                         *)
(* The cache holds the handle of an index, not its tree.  LMDB gives a     *)
(* handle that was closed to the next tree that is opened.                 *)
(***************************************************************************)
EXTENDS RecordIds, Sequences, FiniteSets, Functions, SequencesExt

CONSTANTS Type,        \* the type whose records and indices these are
          OtherIds,    \* bound: ids of records of other types
          Fields,      \* offsets of the fields of the type
          Data,        \* what a field can hold
          Lists,       \* lists of fields that indices are created for
          MaxId,       \* bound: records created
          MaxFailures  \* bound: calls about indices that fail half way

ASSUME ListsAssumption == Lists \subseteq Seq(Fields) \ {<<>>}
ASSUME BoundsAssumption == MaxId \in Nat /\ MaxId < ElementCount /\ MaxFailures \in Nat
ASSUME TypesAssumption ==
  /\ Type \in TypeId
  /\ OtherIds \subseteq {id \in Id : TypeOf(id) \in TypeId \ {Type} /\ ElementOf(id) # 0}

VARIABLES records,    \* element -> values, for the records of Type
          entries,    \* list of fields -> the entries <<key, element>> of the tree
          committed,  \* [records, entries] of the last commit
          sequence,   \* the next element for a record of Type
          system,     \* lists of fields of the indices in the system tree
          cache,      \* type->indices: [list, dbi], NoIndex where deleted
          freed,      \* slots of the cache whose fields point to freed memory
          handles,    \* handle -> the list of fields of its tree, or Free
          schema,     \* what the schema thread is in the middle of
          failures,   \* calls that failed half way
          updated,    \* history: records that were updated or replaced
          missed,     \* history: pairs <<list, element>>, the records that
                      \* the building of an index did not come to
          broken      \* history: lists that a failure or a restart has left
                      \* with a tree, a handle or a slot that is not right

data == <<records, entries, committed>>
vars == <<data, sequence, system, cache, freed, handles, schema, failures, updated, missed, broken>>

Values == [Fields -> Data]
Free == <<>>
NoIndex == [list |-> Free, dbi |-> 0]
Idle == [step |-> "idle", slot |-> 0]

NoTransaction == committed = [records |-> records, entries |-> entries]

(* The records tree, and the types that there are.                         *)
IdsOf(elements) == {AddType(id, Type) : id \in elements}
OtherTypes == {TypeOf(id) : id \in OtherIds}

Key(list, values) == [i \in DOMAIN list |-> values[list[i]]]
EntriesFor(list, ids) == {<<Key(list, records[id]), id>> : id \in ids}
EntriesOf(list) == EntriesFor(list, DOMAIN records)

(* The records that db_index_build comes to: from the first id of the type *)
(* on, until there is a record of another type.                            *)
Scanned(others) ==
  LET run == Run(IdsOf(DOMAIN records) \cup others, Type)
  IN {id \in DOMAIN records : AddType(id, Type) \in run}

Used == {i \in DOMAIN cache : cache[i] # NoIndex}
Tree(i) == handles[cache[i].dbi]

(* The slots whose index db_index_get takes for the one of list: it        *)
(* compares as many fields as it is given.  What it finds in freed memory  *)
(* and behind a shorter list is undefined; a match there only refuses the  *)
(* call.                                                                   *)
IndexGet(list) == {i \in Used \ freed : IsPrefix(list, cache[i].list)}

(* A mutant: free places are not used again.                               *)
FirstFree_Last(seq, free) == {1 + Len(seq)}
(* The place that is taken in seq, the first one that is free or the one   *)
(* after its end: for the slots of the cache (db_type_indices_add) and for *)
(* handles (LMDB).                                                         *)
FirstFree(seq, free) == {n \in 1 .. 1 + Len(seq) :
                           /\ n <= Len(seq) => seq[n] = free
                           /\ \A k \in 1 .. n - 1 : seq[k] # free}

Placed(seq, n, x) == IF n <= Len(seq) THEN [seq EXCEPT ![n] = x] ELSE Append(seq, x)

(* mdb_dbi_open: the handle of a tree that is open, or a free one.         *)
Opened(list) == IF list \in Range(handles) THEN {n \in DOMAIN handles : handles[n] = list}
                ELSE FirstFree(handles, Free)

(* Some other index in the cache has this handle.                          *)
Shared(dbi, slot) == \E i \in Used \ {slot} : cache[i].dbi = dbi

(* The slots that db_indices_entry_ensure and _delete go through.  They    *)
(* read the fields from freed memory, and may find a list in it or not.    *)
Reached(slots) == Used \ freed \subseteq slots /\ slots \subseteq Used

(* Entries for id that the write makes in the tree of list.                *)
Written(slots, list, id, values) ==
  {<<Key(cache[i].list, values), id>> : i \in {j \in slots : Tree(j) = list}}

(* A mutant: a slot without an index ends the loop.                        *)
Ensured_UntilFree(slots, id, values) ==
  [list \in DOMAIN entries |-> entries[list] \cup
     Written({i \in slots : 1 .. i \subseteq Used}, list, id, values)]
Ensured(slots, id, values) ==
  [list \in DOMAIN entries |-> entries[list] \cup Written(slots, list, id, values)]
-----------------------------------------------------------------------------
Init == /\ records = <<>> /\ entries = <<>> /\ sequence = 1
        /\ committed = [records |-> records, entries |-> entries]
        /\ system = {} /\ cache = <<>> /\ freed = {} /\ handles = <<>>
        /\ schema = Idle /\ failures = 0 /\ updated = {} /\ missed = {} /\ broken = {}

RollBack == /\ records' = committed.records /\ entries' = committed.entries
            /\ UNCHANGED committed

UnchangedIndices == UNCHANGED <<system, cache, freed, handles, schema, failures, missed, broken>>

(* A write of a record opens a cursor for every index it goes through.     *)
Writes(slots) == Reached(slots) /\ \A i \in slots : Tree(i) # Free

(* A put without flags: after a restart the sequence may have started low, *)
(* and a record that has the id already is replaced.                       *)
Create(slots, values) ==
  /\ Writes(slots) /\ sequence <= MaxId /\ sequence' = 1 + sequence
  /\ records' = [id \in DOMAIN records \cup {sequence} |->
                   IF id = sequence THEN values ELSE records[id]]
  /\ entries' = Ensured(slots, sequence, values)
  /\ updated' = IF sequence \in DOMAIN records THEN updated \cup {sequence} ELSE updated
  /\ UNCHANGED committed /\ UnchangedIndices

(* Entries for the new values are added.                                   *)
Update(slots, id, values) ==
  /\ Writes(slots)
  /\ records' = [records EXCEPT ![id] = values]
  /\ entries' = Ensured(slots, id, values)
  /\ updated' = updated \cup {id}
  /\ UNCHANGED <<committed, sequence>> /\ UnchangedIndices

(* The entry of the values the record has now is deleted.                  *)
Delete(slots, id) ==
  /\ Writes(slots)
  /\ records' = Restrict(records, DOMAIN records \ {id})
  /\ entries' = [list \in DOMAIN entries |->
                   entries[list] \ Written(slots, list, id, records[id])]
  /\ UNCHANGED <<committed, sequence, updated>> /\ UnchangedIndices

(* The handle of one of the indices is closed: the write fails, and the    *)
(* transaction with it.  A call that creates has taken its id.             *)
WriteFails(slots) ==
  /\ Reached(slots) /\ \E i \in slots : Tree(i) = Free
  /\ RollBack /\ sequence' \in {sequence, 1 + sequence} /\ sequence' <= 1 + MaxId
  /\ UNCHANGED updated /\ UnchangedIndices

Commit == /\ ~NoTransaction
          /\ committed' = [records |-> records, entries |-> entries]
          /\ UNCHANGED <<records, entries, sequence, updated>> /\ UnchangedIndices

Abort == /\ ~NoTransaction /\ RollBack
         /\ UNCHANGED <<sequence, updated>> /\ UnchangedIndices
-----------------------------------------------------------------------------
(* A transaction of the schema thread that leaves the trees like new.      *)
SchemaCommits(new) ==
  /\ NoTransaction
  /\ entries' = new /\ committed' = [committed EXCEPT !.entries = new]
  /\ UNCHANGED <<records, sequence, updated>>

SchemaFails == /\ NoTransaction /\ failures < MaxFailures /\ failures' = 1 + failures
               /\ UNCHANGED <<data, sequence, updated>>

Misses(list, ids) == {m \in missed : m[1] # list} \cup {<<list, id>> : id \in ids}

With(list, set) == [l \in DOMAIN entries \cup {list} |-> IF l = list THEN set ELSE entries[l]]

(* db_index_create: its first transaction, and the cache.  A tree that     *)
(* exists already is opened with what is in it.                            *)
IndexCreate(list, slot, dbi) ==
  /\ schema = Idle /\ IndexGet(list) = {}
  /\ SchemaCommits(With(list, IF list \in DOMAIN entries THEN entries[list] ELSE {}))
  /\ system' = system \cup {list}
  /\ cache' = Placed(cache, slot, [list |-> list, dbi |-> dbi])
  /\ handles' = Placed(handles, dbi, list)
  /\ schema' = [step |-> "create", slot |-> slot]
  /\ broken' = IF Shared(dbi, slot) THEN broken \cup {list} ELSE broken
  /\ UNCHANGED <<freed, failures, missed>>

(* It is in the cache when that transaction fails to commit: the handle is *)
(* closed, the fields are freed, and the slot stays as it is.              *)
IndexCreateFails(list, slot, dbi) ==
  /\ schema = Idle /\ IndexGet(list) = {} /\ SchemaFails
  /\ cache' = Placed(cache, slot, [list |-> list, dbi |-> dbi])
  /\ handles' = IF list \in Range(handles) THEN handles ELSE Placed(handles, dbi, Free)
  /\ freed' = freed \cup {slot} /\ broken' = broken \cup {list}
  /\ UNCHANGED <<system, schema, missed>>

Building == schema.step \in {"create", "rebuild"}

(* A mutant: the scan begins after the first record.                       *)
IndexBuild_AfterFirst(others) ==
  /\ Building
  /\ LET i == schema.slot
         list == cache[i].list
     IN /\ SchemaCommits(With(Tree(i), entries[Tree(i)] \cup EntriesFor(list, Scanned(others) \ {1})))
        /\ missed' = Misses(list, DOMAIN records \ Scanned(others))
  /\ schema' = Idle
  /\ UNCHANGED <<system, cache, freed, handles, failures, broken>>
(* db_index_build, the second transaction of create and of rebuild.  That  *)
(* there are records behind those of another type is no error.             *)
IndexBuild(others) ==
  /\ Building
  /\ LET i == schema.slot
         list == cache[i].list
     IN /\ SchemaCommits(With(Tree(i), entries[Tree(i)] \cup EntriesFor(list, Scanned(others))))
        /\ missed' = Misses(list, DOMAIN records \ Scanned(others))
  /\ schema' = Idle
  /\ UNCHANGED <<system, cache, freed, handles, failures, broken>>

(* It fails, for example at a key that is too large: db_index_create frees *)
(* the fields, db_index_rebuild leaves the tree empty.                     *)
IndexBuildFails ==
  /\ Building /\ SchemaFails
  /\ freed' = IF schema.step = "create" THEN freed \cup {schema.slot} ELSE freed
  /\ broken' = broken \cup {cache[schema.slot].list}
  /\ schema' = Idle
  /\ UNCHANGED <<system, cache, handles, missed>>

(* db_index_delete: mdb_drop removes the tree that has the handle of the   *)
(* index, and closes the handle.                                           *)
IndexDelete(i) ==
  /\ schema = Idle /\ Tree(i) # Free
  /\ SchemaCommits(Restrict(entries, DOMAIN entries \ {Tree(i)}))
  /\ system' = system \ {cache[i].list}
  /\ handles' = [handles EXCEPT ![cache[i].dbi] = Free]
  /\ schema' = [step |-> "uncache", slot |-> i]
  /\ missed' = Misses(cache[i].list, {})
  /\ broken' = IF Tree(i) = cache[i].list THEN broken \ {cache[i].list}
               ELSE broken \cup {Tree(i), cache[i].list}
  /\ UNCHANGED <<cache, freed, failures>>

(* The transaction fails after mdb_drop: the handle stays closed.          *)
IndexDeleteFails(i) ==
  /\ schema = Idle /\ Tree(i) # Free /\ SchemaFails
  /\ handles' = [handles EXCEPT ![cache[i].dbi] = Free]
  /\ broken' = broken \cup {Tree(i), cache[i].list}
  /\ UNCHANGED <<system, cache, freed, schema, missed>>

(* A mutant: the slot keeps the fields.                                    *)
IndexUncache_Keeps ==
  /\ schema.step = "uncache" /\ schema' = Idle
  /\ UNCHANGED <<data, sequence, system, cache, freed, handles, failures, updated, missed, broken>>
(* The slot is cleared once the transaction of the deletion has ended.     *)
IndexUncache ==
  /\ schema.step = "uncache" /\ schema' = Idle
  /\ cache' = [cache EXCEPT ![schema.slot] = NoIndex]
  /\ UNCHANGED <<data, sequence, system, freed, handles, failures, updated, missed, broken>>

(* A mutant: the tree is removed, and its handle closed.                   *)
IndexClear_Removes(i) ==
  /\ schema = Idle /\ Tree(i) = cache[i].list
  /\ SchemaCommits(With(Tree(i), {}))
  /\ schema' = [step |-> "rebuild", slot |-> i]
  /\ handles' = [handles EXCEPT ![cache[i].dbi] = Free]
  /\ missed' = Misses(cache[i].list, {})
  /\ broken' = IF Shared(cache[i].dbi, i) THEN broken ELSE broken \ {cache[i].list}
  /\ UNCHANGED <<system, cache, freed, failures>>
(* A mutant: the tree is not cleared.                                      *)
IndexClear_Not(i) ==
  /\ schema = Idle /\ Tree(i) = cache[i].list
  /\ SchemaCommits(entries)
  /\ schema' = [step |-> "rebuild", slot |-> i]
  /\ missed' = Misses(cache[i].list, {})
  /\ broken' = IF Shared(cache[i].dbi, i) THEN broken ELSE broken \ {cache[i].list}
  /\ UNCHANGED <<system, cache, freed, handles, failures>>
(* db_index_rebuild: its first transaction clears the tree.  With a closed *)
(* handle it fails; a rebuild that would clear the tree of another index   *)
(* is not in the model.                                                    *)
IndexClear(i) ==
  /\ schema = Idle /\ Tree(i) = cache[i].list
  /\ SchemaCommits(With(Tree(i), {}))
  /\ schema' = [step |-> "rebuild", slot |-> i]
  /\ missed' = Misses(cache[i].list, {})
  /\ broken' = IF Shared(cache[i].dbi, i) THEN broken ELSE broken \ {cache[i].list}
  /\ UNCHANGED <<system, cache, freed, handles, failures>>

(* The process ends, at any point, and the database is opened again:       *)
(* db_open_indices is not called, the sequence is looked for in the tree   *)
(* of records; when that fails for one of the types, so does db_open.      *)
Reopen(others) ==
  /\ RollBack
  /\ LET ids == IdsOf(DOMAIN committed.records) \cup others
     IN /\ \A type \in {Type} \cup OtherTypes : LastId(ids, type) # NotFound
        /\ sequence' = OpenedSequence(ids, Type)
  /\ cache' = <<>> /\ freed' = {} /\ handles' = <<>> /\ schema' = Idle
  /\ missed' = {} /\ broken' = system \cup DOMAIN committed.entries
  /\ UNCHANGED <<system, failures, updated>>
-----------------------------------------------------------------------------
WriteNext ==
  \/ \E slots \in SUBSET Used :
       \/ \E values \in Values : \/ Create(slots, values)
                                 \/ \E id \in DOMAIN records : Update(slots, id, values)
       \/ \E id \in DOMAIN records : Delete(slots, id)
       \/ WriteFails(slots)
  \/ Commit \/ Abort

SchemaNext == \/ \E list \in Lists : \E slot \in FirstFree(cache, NoIndex), dbi \in Opened(list) :
                   IndexCreate(list, slot, dbi) \/ IndexCreateFails(list, slot, dbi)
              \/ \E i \in Used \ freed : IndexDelete(i) \/ IndexDeleteFails(i) \/ IndexClear(i)
              \/ \E others \in SUBSET OtherIds : IndexBuild(others)
              \/ IndexBuildFails \/ IndexUncache

Next == WriteNext \/ SchemaNext \/ \E others \in SUBSET OtherIds : Reopen(others)

Spec == Init /\ [][Next]_vars
-----------------------------------------------------------------------------
Slots == [list : Lists, dbi : Nat \ {0}] \cup {NoIndex}

(* Types; and the cache has no more slots than there are indices and       *)
(* failures, because those of deleted indices are used again.              *)
TypeOK ==
  /\ DOMAIN records \subseteq 1 .. MaxId /\ \A id \in DOMAIN records : records[id] \in Values
  /\ sequence \in 1 .. MaxId + 1
  /\ DOMAIN entries \subseteq Lists
  /\ \A list \in DOMAIN entries : \A e \in entries[list] : e[2] \in 1 .. MaxId
  /\ system \subseteq Lists /\ broken \subseteq Lists /\ updated \subseteq 1 .. MaxId
  /\ missed \subseteq Lists \X (1 .. MaxId)
  /\ cache \in Seq(Slots) /\ freed \subseteq Used /\ handles \in Seq(Lists \cup {Free})
  /\ \A i \in Used : cache[i].dbi \in DOMAIN handles
  /\ schema \in [step : {"idle", "create", "rebuild", "uncache"}, slot : Nat]
  /\ schema # Idle => schema.step # "idle" /\ schema.slot \in Used \ freed
  /\ failures \in 0 .. MaxFailures
  /\ Len(cache) <= Cardinality(Lists) + failures

Uncaching(i) == schema = [step |-> "uncache", slot |-> i]

(* The slots of indices that no failure has touched, and that are not just *)
(* being deleted.                                                          *)
Whole == {i \in Used \ freed : /\ cache[i].list \notin broken
                               /\ ~Uncaching(i)}

(* The indices a reader can rely on.                                       *)
Ready == {cache[i].list : i \in {j \in Whole : ~(Building /\ schema.slot = j)}}

(* Every record has its entry in every index, also those written while the *)
(* index was being built, rolled back or committed in any order, but for   *)
(* those that its building did not come to.                                *)
EntriesComplete == \A list \in Ready : \A e \in EntriesOf(list) \ entries[list] :
                     <<list, e[2]>> \in missed

(* Every record, whatever was in its way when the index was built: what    *)
(* readme.md says of indices.                                              *)
EveryRecordIsFound == \A list \in Ready : EntriesOf(list) \subseteq entries[list]

(* There are no records of other types in the tree.                        *)
OneType == OtherIds = {}

(* An index holds no other entries, but for those that updates leave.      *)
EntriesSound == \A list \in Ready : \A e \in entries[list] \ EntriesOf(list) :
                  e[2] \in updated

(* An index holds the entries of the records as they are and no others.    *)
EntriesExact == \A list \in Ready : EntriesOf(list) = entries[list]

(* The cache holds the indices that the system tree holds, each once.      *)
CacheMatchesSystem ==
  /\ {cache[i].list : i \in Whole} = system \ broken
  /\ \A i, j \in Used \ freed : cache[i].list = cache[j].list => i = j

(* An index in the cache has a handle, of its own tree, that no other      *)
(* index has: writes reach it, and what is written for another does not.   *)
HandlesAreOwn == \A i \in Whole : /\ Tree(i) = cache[i].list
                                  /\ cache[i].list \in DOMAIN entries
                                  /\ ~Shared(cache[i].dbi, i)

(* Writes of records are not refused while another thread changes indices. *)
WritesSucceed == \A i \in Used : Tree(i) # Free

(* The indices whose building came to every record.                        *)
Published == {list \in Ready : \A m \in missed : m[1] # list}

(* These, and the records, behave as if every write of a record and all    *)
(* its entries were one step.                                              *)
PublishedEntries(all) == [list \in Published |-> all[list]]
Store == INSTANCE IndexedRecords
           WITH Ids <- 1 .. MaxId,
                found <- PublishedEntries(entries),
                committed <- [records |-> committed.records,
                              found |-> PublishedEntries(committed.entries)]
ImplementsStore == Store!Spec
=============================================================================
