# sph-db in TLA+

A verification development for sph-db, a record database with directed,
labelled relations, written in C on top of LMDB. It holds TLA+ modules that
model the program, TLC configurations that check them on small instances, and
proofs that TLAPS checks for every value of the constants.

The models are translated from the C files in `src/src/c-precompiled/sph-db`
(generated from the `.sc` files in `src/src/sc/sph-db`, which hold the same
program). Files are named without that path below, with line numbers:
`relation.c:63`.

To run everything: `tlc -config <Run>.cfg <Module>.tla` for each run in the table
under *Runs*, and `tlapm` for each module with `Proofs` in its name.

## 1. The system and its parts

sph-db keeps everything in one LMDB environment: a *system* tree with the
types and indices, a *records* tree, three *relation* trees, and one tree for
each index. LMDB allows one write transaction at a time and any number of
read transactions, each of which sees a snapshot. Above LMDB there is state in
memory, in `db_env_t`: the array of types with a sequence in each, and in each
type the array of its indices. Only the sequences have a lock (`env->mutex`).

| Part | State | Operations | Interacts with |
|---|---|---|---|
| relations (`relation.c`, `relation-delete.c`, `relation-read.c`) | trees lr (left label → ordinal right), rl (right label → left), ll (label → left); a selection with a cursor, id arrays with a current position, a reader | `db_relation_ensure`, `_delete`, `_select`, `_read`, `_skip`, `_index_rebuild` | deleted by `db_record_delete`; reads in the transaction of the caller |
| records (`record.c`) | the records tree, sorted by id; a selection with a cursor | `db_record_create`, `_update`, `_delete`, `_delete_type`, `_get`, `_select`, `_read`, `_skip`, `_select_delete`, `_ref`, values to and from data | takes ids from the type's sequence; calls indices and relations |
| ids and sequences (`main.c`, `open.c`) | `type->sequence`, in memory only | `db_sequence_next`, `_next_system`, `db_open_sequence` | records, types |
| types (`type.c`, `open.c`) | entries in the system tree, the array `env->types` | `db_type_create`, `_get`, `_delete`, `db_open_types` | own write transactions; deletes records and indices of the type |
| indices (`index.c`) | entries in the system tree, a tree for each, `type->indices` | `db_index_create`, `_build`, `_delete`, `_rebuild`, `_get`, `_select`, `_read`; upkeep by record writes | own write transactions; read all records of the type |
| environment (`open.c`, `main.c`) | the open LMDB environment, the format in the system tree | `db_open`, `db_close` | reads types, finds sequences |
| transactions (`main.c`) | one LMDB transaction | `db_txn_begin`, `_write_begin`, `_commit`, `_abort` | all of the above |
| virtual records (`main.c`) | none | pure functions on ids | — |

What is hard here, and what makes each part correct:

* **Relations** are stored three times. The copies are kept in step by hand, by
  nine walks of gotos in which a cursor deletes under itself and is borrowed for
  other lookups. Correct is: rl mirrors lr; ll has exactly the labels and lefts of
  lr; one relation for a left, label and right; a deletion takes what matches
  and nothing else; after a record is deleted no relation has it.
* **Relation readers** are resumed: a call stops when its count is used up, in
  the middle of nested loops over arrays and duplicates, and the next call
  must find its way back in. Correct is: every match once over all calls,
  whatever mixture of read and skip; every call returns.
* **Ids** come from sequences that exist only in memory and are found again
  with searches in a tree sorted by whole ids. Correct is: an id is never
  handed out twice while its record exists, and `db_open` succeeds on whatever
  a crash leaves.
* **Types and indices** are changed by several transactions in a row, while the
  caches are read and written without a lock, and the cache of an index holds a
  handle that LMDB uses again once it was closed. Correct is: cache and system
  tree agree, also after any step has failed; an index that can be read has the
  entries of all the records; names and ids of types are unique.
* **Opening** acquires one thing after the other, and a program of another format
  may open the file. Correct is: a failure releases everything, the file has all
  of its trees or none, declared types come back as they were, and what is in a
  file was written with the format the file says it has.
* **Record data** has no directory of its fields: where a field is follows from
  the sizes before it. A virtual record has no data at all, its value is in its
  id. Correct is: what was set comes back, and index keys tell values apart.

`PROJECT.json` lists the places in the code where these things can go wrong
(`hazards`), with the properties that are about each.

## 2. The modules

| Module | Models | Correspondence |
|---|---|---|
| `RelationGraph` | the promise of the readme and internals.md: a set of edges | abstract specification; ensure, delete, delete records |
| `RelationEntries` | entries of the three trees, arguments of a deletion | `Lr`, `Rl`, `Ll` are the puts of `relation.c:44-70` |
| `RelationTrees` | the three trees, each call one action | `Ensured` = `db_relation_ensure`; `DeletedBy...` = what the walks take out; `WithoutRecords` = the three calls of `record.c:331-336` |
| `RelationTreesProofs` | — | proofs about `RelationTrees`, and that it implements `RelationGraph` |
| `Cursor` | LMDB cursors on a tree with sorted duplicates (external) | one operator for each `MDB_cursor_op` used |
| `RelationCursors` | the comparison functions of `lmdb.c`, id arrays with a position | `AfterForward` = `sph_array_current_forward`, `_rewind` |
| `RelationDelete` | `relation-delete.c`, one cursor operation a step | `pc` is the label in the code; `left`, `right`, `label` what is left of the arrays; an action for each label of each walk |
| `RelationDeleteProofs` | — | proofs about the walks, and that they implement `RelationTrees` |
| `RelationRead` | `relation-read.c`, the same way, with the selection kept over calls | `pc = "open"` is between calls; `count` and `skip` as in the code |
| `RelationReadProofs` | — | proofs about the readers |
| `RelationRebuild` | `db_relation_index_rebuild`, two transactions among writers | `Drop`, `Fill`, `Interrupted` |
| `RecordIds` | layout of ids, the searches in the records tree | `FirstId`, `LastId`, `OpenedSequence`, `Run` |
| `Records` | ids and lifecycle: types, records, transactions, sequences, reopening | one action for each call; `committed` is the state an abort or a crash goes back to |
| `RecordsProofs` | — | proofs about `RecordIds` and `Records` |
| `RecordRead` | record selections by type and by index, deletion in batches, lookups by id | a step is one call, or one round of the loop of `db_record_select_delete`; `Get` = `db_record_get` |
| `RecordReadProofs` | — | proofs about reading, and about deletion in batches |
| `RecordData` | values, record data, index keys and virtual records, byte for byte | `ToData`, `ToValues`, `Ref`, `IndexKey`, `RecordVirtual`, `VirtualData` |
| `IndexedRecords` | what indices promise: records, and what finds them, written in one step | abstract specification |
| `Indices` | indices and the records they follow: a thread that writes, a thread that changes indices, the handles of the trees, failures, reopening | each write transaction of `index.c` is a step, once as it succeeds and once as it fails; so is the change of the cache where it is outside of one |
| `IndicesProofs` | — | proofs about `Indices` |
| `TypeCatalogue` | types by name; several threads, failures, reopening | `pc` of each thread is where it is between the reads and writes that others can see |
| `TypeCatalogueProofs` | — | proofs about `TypeCatalogue` |
| `TypeData` | a type as `type.c` writes it and `open.c` reads it, byte for byte | `Accepted`, `Encoded`, `Decoded` |
| `Environment` | `db_open` and `db_close` step by step, failures, crashes, the format; types and relations written meanwhile | an action for each function `db_open` calls; `OpenFails` is its exit label |
| `EnvironmentProofs` | — | proofs about `Environment` |
| `MC...` | — | sets of ids, relations and arguments for TLC |

How they compose: `RelationDelete`, `RelationRead` and `RelationRebuild` work on the
trees of `RelationTrees` (the walks of `RelationDelete` are proved to implement it,
`RelationRebuild` runs its actions); `RelationTrees` implements `RelationGraph`;
`Records`, `RecordRead`, `Indices` and the virtual records of `RecordData` share `RecordIds`;
`Indices` implements `IndexedRecords`; `Environment` reads types with the operators
of `TypeData`, and its creation of a type is one step for what `TypeCatalogue` has
the steps of.

The refinement of `IndexedRecords` shows an index only while it can be relied on
(`Ready`) and holds every record (`Published`): it is published by the transaction
that builds it, unless records of another type kept that from coming to all records,
and withdrawn by the step that deletes, clears or damages it. Between those, each
write of a record with all its entries is one abstract step, and every other step of the schema
thread is a stutter. An update is in the abstract specification as the code has
it, with old entries that may stay.

Some of the choices:

* A deletion or an ensure is atomic in `RelationTrees`, because the calls of one
  write transaction are seen by nobody else before its commit. What is between
  its steps is in `RelationDelete`.
* A selection sees one snapshot, so the trees of `RelationRead` do not change.
  `db_record_select_delete` is the exception in the code, it deletes in the
  transaction of its own selection, and `RecordRead` models that.
* Id arrays are not empty and start at their first id. In the runs they have one or
  two ids, each once; the theorems about deletions have arrays of any length, with
  ids that repeat or not, those about selections arrays of any length with each id
  once (an id that is given twice to a selection is read twice).
* LMDB errors other than "not found" are left out of records and relations, where
  they end the transaction of the caller. In `TypeCatalogue`, `Indices` and
  `Environment`, which have transactions of their own and state outside of them,
  every step can fail.
* Handles of index trees are numbers that are given to the next tree once they
  were closed, as LMDB does. What the code does with the fields of an index that
  it has freed is undefined: `Reached` takes such slots or leaves them.
* `Indices` has the indices of one type. Records of other types are in the same tree,
  where they end the scan of `db_index_build` and keep the sequence from being found
  when the database is opened. They come and go in transactions that touch nothing
  else in the module, so `IndexBuild` and `Reopen` take any set of them (of
  `OtherIds`) that there may be at that time.
* One writing and one schema thread use `Indices`. Two schema threads would race
  for a slot without a lock, on memory that is being moved: undefined.
* Ordinals and ids are numbers of unbounded width where the width does not
  matter. Where it does it is in the model: the byte that
  `relation-delete.c:356` stores (`ScanStart`), ids that wrap (`AddType`), the
  prefixes of variable fields, type ids compared by bytes.

History variables record what properties compare with and guard no action:
`start` (the trees when a deletion began), `seen` and `asked` (matches taken and
asked for so far), `withdrawn` (records that were deleted by their type),
`updated` (records that were updated or replaced), `missed` (records that the
building of an index did not come to, until it is cleared or deleted), `broken`
(lists of fields whose index a failure or a restart has left with a wrong tree,
handle or slot; a rebuild or a deletion and creation mends it), `diverged` (a creation or deletion of a type
failed after it had changed the cache), `raced` (a name was looked up while another
thread was creating or deleting it), `declared` (types as they were declared) and
`related` (the formats relations were written with).

## 3. Runs

| Run | Question | Instance |
|---|---|---|
| `RelationTrees_sound` | Do the three trees stay in step and implement the graph, over any sequence of calls? | 2 lefts, 1 label, 2 rights, ordinals 0, 1, 200; an id that is left and right; every filter the code heeds, ordinal conditions with some of them |
| `RelationDelete_walks` | Does each of the nine walks end, and delete what `RelationTrees` says? | every subset of 8 relations (2×2×2, ordinals with, against and equal in the order of the rights) × arrays of one and two ids in both orders, ordinal conditions |
| `RelationRead_calls` | Is every match read or skipped once, in any division into calls? | the same 8 relations and arrays; counts 1 and 2, skips of 1 |
| `Records_one_type` | Are ids new and relations alive after commits, aborts, crashes, reopenings? | one type at a time, 2 type ids to hand out, room for 5 elements, sequences up to 3, 2 relations |
| `RecordRead_one_type` | Are selections, deletions in batches and lookups exact, and do they end? | every subset of 4 records and every set of matches, counts 1 and 2, batches of 2; lookups of no and of two ids, in any order or the same twice |
| `Indices_updates` | Do indices hold the entries of the records, and implement `IndexedRecords`, while they come, go, fail and are reopened? | 2 fields with 2 values, an index on each, 1 record id, records of other types before and behind it, 1 failure; symmetry of fields and values (262 660 states) |
| `TypeCatalogue_threads` | Do cache and tree agree, are names and type ids unique? | 2 threads, 3 names, 4 type ids, an array that grows by 2, failures and crashes at any step (1 616 713 states) |
| `Environment_open` | What does a failed or interrupted open leave, and do types come back? | 2 formats, 2 type ids, 6 declarations, two of which are rejected |
| `RecordData_keys` | Do values come back, are index keys and virtual records right? | 3 fields: fixed of 2 bytes, variable with a prefix of 1 and of 2 bytes; bytes 0 and 1; ids of 2 + 2 bytes |
| `RelationTrees_right_label` | (violated) a deleted record leaves no relation | with deletions by right and label |
| `RelationRebuild_rl` | (violated) the rebuilt rl mirrors lr | 2 lefts, 1 label, 1 right |
| `Records_two_types` | (violated) a created record replaces none | 2 types |

Why the bounds are enough:

* *Relation trees.* An operation concerns an entry of lr, its two images, and
  whether another relation shares its left and label. Two lefts and two rights
  under a label have all of that; two ordinals can differ for what may be the
  same relation. The theorems of section 5 hold for any number of ids.
* *Walks and readers.* A cursor step depends on the next duplicate, the next key,
  the next element of each array, and whether the next key is of the same id.
  Two of each has every combination of "there is one" and "there is none", and
  all subsets of the relations are starting states. Relations need not be
  distinct between keys, so one relation for each of the eight places is
  enough; the ordinals are chosen so that the data of a key sorts both ways.
  Labels overlap lefts, and lefts overlap rights. The calls of `RelationRead_calls` are
  the 47 with these arrays and no ordinals for which the code reads what is asked for
  (`Sound`, see the theorems; it leaves out one, the two labels alone of the divergence at
  `relation-read.c:456`), and 24 with ordinals. The theorems hold for any number of ids,
  relations and counts.
* *Records.* One more element than a sequence may be asked for; types are created
  again after deletion with the next ids.
* *Record selections.* Four records are two batches, so that a batch ends at, before
  and behind the last match. The theorem of section 5 is for any number.
* *Indices.* A step of the code is about one record, and about one index or the pair
  of an index and another one that gets its slot or its handle. A record can be
  committed, only in the transaction, updated or gone when an index is built. The
  record of type 1 in front of it (id 6) is where a scan stops; the one of type 4
  behind it (id 9) makes the sequence start low, so that a creation replaces the
  record. A failure can be followed by its repair, and by all that goes on afterwards. The
  theorems, the refinement among them, hold for any number of records, other types,
  indices and failures.
* *Types.* The array holds 3 entries at first, so that it is extended by the third
  type; with two threads every pair of steps is interleaved. The theorems hold for
  any number of both.
* *Opening.* The declarations have fixed fields before variable ones, only variable
  ones, none, and codes without a size; two formats are "the same" and "another".
* *Data.* The three fields have each kind of neighbour: fixed before variable,
  variable before variable, last. A base of 2 for bytes makes prefixes overflow
  their low byte with data of two bytes.

`CHECK_DEADLOCK FALSE` is given where the system really stops: selections that have
ended (`RecordRead`). The other runs check for deadlock too.

### Fairness

`RelationDelete` and `RelationRead` have `WF_vars(Step)`, where `Step` are the steps
inside a call: a C function that was called keeps running, and nothing in
these loops waits for anybody. Calling is not fair: nobody has to delete or
read. `RecordRead` has `WF_vars(Next)`, the caller that goes on until it is told
"notfound", as the loops of the readme and of `record.c:426` do; what it shows
(`SelectionsEnd`) is that such a caller comes to an end. The other modules have no
liveness properties and no fairness.

## 4. What the violations show

The three runs that end in a violation are disagreements between the code and
what it says of itself (`findings` in `PROJECT.json`):

1. **A deletion by right and label loses labels** (`relation-delete.c:136`). It
   removes the ll entry of a label and left though other relations of them
   remain. A deletion by label looks in ll, so these relations survive when the
   label's record is deleted (internals.md: "when a record is deleted then all
   relations that contain its id are deleted with it").
2. **The rebuild reads right ids from the wrong place** (`relation.c:126`). The data
   of lr starts with the ordinal, and the id is read from its first byte.
3. **Sequences start low with two types** (`open.c:228`). Ids hold the type in their
   low bits, so the records of types are mixed in the tree; the search for the
   last id of a type assumes they are not. After a reopen new records
   replace others.

### Divergences without a run

These show themselves in the same models when a line is changed. The runs above
exclude them by their instance, or by the condition in the property that is
named, so that the rest of the behaviour is checked.

| Code | What happens | To see it |
|---|---|---|
| `relation-delete.c:356` | a minimum above 255 is cut to its low byte: relations below the minimum are deleted | `RelationTrees`, ordinals `{0, 300}`, a filter with `min` 300: `DeleteIsExact` |
| `relation-delete.c:533` | an ordinal condition without left is ignored, relations out of its range are deleted; readers ignore it too | `RelationTrees` with `Filters <- Filter`: `DeleteIsExact` |
| `relation-read.c:456` | by two labels, a left that has both is read twice under one and not under the other | `RelationRead`, a call with `label` `<<3, 2>>` only: `ReadsMatchesOnce` |
| `relation-read.c:186` | by left and right a skip takes everything up to the end of the key | `RelationRead`, `CallsTakeTheirCount` without its first line |
| `relation-read.c:744` | `db_relation_skip` returns the status of LMDB where `_read` returns notfound | `RelationRead`, `EndIsNotfound` |
| `relation.c:116` | a writer between the two transactions of the rebuild, or a crash, and a relation can exist twice | `RelationRebuild`, `OneRelation` |
| `type.c:185`, `record.c:369` | with two types some records of a deleted type remain | `Records_two_types.cfg` with `DeletedTypesLeaveNoRecord` |
| `open.c:228` | with two types `db_open` can fail | the same with `OpenSucceeds` |
| `record.c:369` | deletion by type leaves the relations of the records | `Records`, `withdrawn` left out of `RelatedRecordsExist` |
| `main.c:329` | the limit of elements is a mask in the wrong unit: the sequence runs past the last element and ids wrap | `Records`, `MaxSequence` not below `ElementCount`: `CreatedIsNew` |
| `record.c:205` | with two types a selection stops at the first record of the other type, without notfound | `RecordRead`, `Ids <- TwoTypes`: `ReadingIsExact` |
| `record.c:444` | `db_record_index_read` overwrites notfound and returns the last record for ever | `RecordRead`, `Kinds` `{"index_records"}`: `ReadingIsExact` (the reading has no end, and so has the search, without that property) |
| `record.c:426` | `db_record_select_delete` never returns success: its last status is notfound, or an error of LMDB if it deleted the last record of the tree | `RecordRead`, kind `delete`: `phase = "end" => status = "success"` |
| `index.c:227` | with two types the building of an index stops, with success, at the first record of another type: records behind it are not found by the index (readme.md:316: "existing records will be indexed on index creation") | `Indices`, `EveryRecordIsFound`; `missed` left out of `EntriesComplete` and `Published` |
| `record.c:406` | an update leaves the index entries of the old values | `Indices`, `EntriesExact` |
| `open.c:461` | indices are not loaded when the database is opened; writes then pass them by, until they are created again | `Indices`, `broken` left out of `CacheMatchesSystem` and `Whole` |
| `index.c:371` | a deletion that fails after `mdb_drop` keeps a closed handle: the next index gets it too, writes for one go to the tree of the other, and the deletion, tried again, removes the other's tree | `Indices`, `broken` left out of `Whole`: `HandlesAreOwn`, `EntriesSound` |
| `index.c:348` | a creation that fails after the cache was changed leaves its slot in use, with freed fields | the same: `CacheMatchesSystem` |
| `index.c:381` | writers fail between the commit of an index deletion and the change of the cache | `Indices`, `WritesSucceed` |
| `index.c:97` | a record whose key is too large makes building an index fail; the index stays, and is incomplete | `IndexBuildFails` of `Indices`; `broken` left out of `Whole`: `EntriesComplete` |
| `index.c:112` | a field of an index has a prefix or not by its place in the index: a fixed field behind a variable one is written with a prefix that there is no memory for, and the data of a variable field in the first place is overwritten by the next field | `RecordData`, `IndexFields` `<<1, 0>>`: `KeysAreExact`; the same with fields fixed 1, variable 2, variable 1, `IndexFields` `<<1, 2>>`, `MaxLength = 3` |
| `type.c:83` | two threads create types with one name: the name is looked up before the write transaction | `TypeCatalogue`, `UniqueNames` |
| `type.c:18` | entries of the types array between the old end and the new type are never written | `TypeCatalogue`, `CacheIsWritten` |
| `type.c:143` | a type whose creation fails late stays in the cache; one whose deletion fails late is gone from it | `TypeCatalogue`, `CacheMatchesSystem` without `~diverged` |
| `type.c:15` | the new length of the array wraps for the last types, the array shrinks and the type is written behind its end | `TypeCatalogue`, `Width = 6`: `CacheMatchesSystem` |
| `open.c:103` | with more than 255 types the last type id is not found again | `TypeCatalogue`, `ByteValues = 3`: `TypeIdsAreNew` |
| `type.c:89` | the length of a name is cut to a byte before it is compared with the limit: a name of 256 letters is stored as an empty one | `Environment`, a declaration with such a name: `TypesSurvive` |
| `open.c:82` | the format of a file is replaced if it has no types; relations of deleted types stay, in the sizes of the old format | `Environment`, `RelationsHaveTheFormat` |

Some more was met on the way, in code whose effect no property is about:
`db_index_get` compares as many fields as it is given, so that an index on a prefix
of the fields of an existing one cannot be created (`index.c:259`), and
`db_index_create` does not set its result where a slot is used again (`index.c:283`).
A read-only open always fails, because it begins a write transaction
(`open.c:527`). After a failed commit the handle of the transaction is kept, and
a later abort uses it (`main.c:154`). `db_close` after a failed open destroys a
mutex that was not made. The format does not cover the widths of name lengths and
field counts. The offsets of fixed fields are sums of 16 bits (`open.c:261`).

## 5. Theorems

**Relation trees** (`RelationTreesProofs`). The properties of the trees are not
inductive one by one. Uniqueness depends on the mirror, because
`db_relation_ensure` asks rl whether lr has a relation; the mirror depends on
uniqueness, because a deletion takes one entry out of lr and *the* image of it out
of rl. The invariant is

    InStep(t) == t \in Trees /\ Unique(t) /\ Mirrored(t) /\ NoStrayLabel(t)

`RemovalKeepsStep` says that entries can go from lr together with their images as
long as ll stays sound; each `DeletedBy...` is an instance of it (for the walks
over rl and ll through `FoundInLr`), `EnsuredInStep` is the case of additions, and
`db_record_delete` is three deletions in a row. `TreesInStep` combines them, and
`TypeCorrect`, `AtMostOneRelation`, `RlAgreesWithLr`, `NoStrayLabels` follow, for any
sets of ids and ordinals and *any* deletions, those by right and label included.
`NoLostLabels` needs the invariant `InFullStep` (`InStep` and no lost label) and the
assumption `OnlyKeepingLabels`, that no deletion has right and label without left:
the run `RelationTrees_right_label` shows that it is needed.

**The graph** (`RelationTreesProofs`). With `AbstractGraph`, the edges lr stands
for, as the refinement mapping: under `OnlyKeepingLabels` and `OnlyHeeded` (filters
that the code looks at in full, with a minimum that fits one byte) a deletion
removes exactly the matching edges (`DeletionsAreExact`), deleted records leave no
edge (`NoRelationOfDeletedRecords`), and every step of the trees is a step of
`RelationGraph` (`TreesImplementGraph`). The assumptions are those that the first
two rows of the table above and the first finding show to be necessary.

**Walks** (`RelationDeleteProofs`). `WalksAreExact`: whatever is stored and whatever
arguments are given, arrays of any length in any order and with ids that repeat,
a walk that comes to its exit has deleted what `RelationTrees` says of the call.
The property is about the exit only. The invariant `IInv` says of every step before:

* *where the cursor is* (`LrCursor`, `RlCursor`, `LlCursor`): at a label that reads data it
  is on an entry of the tree, under the current ids; at `each_key`, on the first
  data of a key that is not before the current left;
* *what is gone matches* the arguments, and *what matches and is still there is ahead*
  (`AheadLr`, `AheadRl`, `AheadLl`): under an id to come, or under the current one and
  not before the cursor, or at `set_range` not before the label the scan starts at.
  At the exit nothing is ahead, so exactly what matches is gone (`Exit`);
* *the other trees follow* (`LrContents`, `RlContents`, `LlContents`). They do not at every step:
  1000 and 1010 take rl entries one by one, the ll entry with the first of them,
  and the data of the key all at once at its end, by `MDB_NODUPDATA`. `Passed` is the data
  that is in lr but counts as gone. In 0010 an ll entry is taken after the last
  data of its key, so `Remains` says which data of the key is gone before.

The steps rest on what a lookup lands on (`LrLands` and the lemmas for each lookup:
the orders of the comparison functions are total and have least elements), on what
the next pair of ids is after one array is rewound (`Advanced`), and on the trees
having been in step when the walk began, which every exit leaves again: an entry
of lr has an image of its own in rl (`ImagesApart`), so taking the image takes no
other's. That the scan by ordinals starts at the low byte of the minimum
(`ScanStart`) is in the statement: what is deleted is what `InScan` of `RelationTrees`
says. `CursorsAreOnEntries` and `WalksTypeCorrect` are further consequences.
`WalksImplementTrees` makes the walk an implementation of the one step that
`RelationTrees` has for it, with the trees at the beginning of the call as what is
seen until it returns; so the theorems about `RelationTrees` are true of the walks.
That a walk comes to its exit (`DeletionEnds`) is liveness, and model-checked.

**Readers** (`RelationReadProofs`). `SelectionsReadMatchesOnce` and `SelectionsMissNothing`:
whatever is stored and whatever arrays are given, a selection that is read and skipped in
calls with any counts returns or skips every match, each once, before it is at its
end. The properties look at the result; where the reading has come to is in cursors and in
what is left of the arrays, and the next call finds it there again, by way of "does the
cursor stand in the current range", "on the current key" or "on the current label". The
invariant `ReadInv` is the same for all steps inside of calls and between them:

* `Coming` says of a match that it has yet to be read, in terms of cursor and arrays
  alone, with one form for the readers that walk ranges (0000, 1000, 0100,
  1001_1101), one for 1100, one for those that look up keys (1010, 0110, 1011_1111), one for
  1110 and one for 0010. `Seen` says that what was read are the matches that are not
  `Coming`, and that none was read twice. At the end nothing is;
* `Places` says where the cursor may stand: on an entry between calls, in the current
  range or on the current key while data is read, on the first data of a key at `each_key`;
* `Arrays` says that what is left of an array is not empty and has no id twice, and
  that the left array of 1100 is at its start whenever a key begins.

While a key is read, `Coming` changes only by the entry that is taken or passed
(`DataMoves` and `NextKeyMoves` have the step from an entry to the next in its tree,
`RangeMoves` what that means where ranges are walked). At the end of an array the
outer one goes on and the inner one starts again, which is the arithmetic of
`AfterForward` (`Advanced`). `SelectionsStayOnEntries` is what the comment of
`relation-read.c` supposes of the cursor, and follows from `Places`.

All of this is under `SoundCalls`: no array has an id twice (it would be read twice), a
condition on ordinals comes with lefts (the readers without lefts ignore it,
`relation-delete.c:533` above), and 0010, the reader by labels alone, is called with one label
that is not above any other, or every left has one label (`relation-read.c:456`
above is what happens otherwise). TLC evaluates it for the calls of the run.
`EveryCallTakesItsCount` and `ReadersTypeCorrect` need none of it: a call that is not at the end has
taken as many matches as were asked for, by `Counting`, in which the count and what has
been taken add up to `asked`. That a call returns (`CallsReturn`) is liveness, and model-checked.

**Records** (`RecordsProofs`). `RelationsHaveTheirRecords`:
relations outlive their records only where records are deleted by their type, for
any number of types. The invariant must say it of the last commit too
(`RelatedEverywhere`), which an abort or a crash goes back to.

That ids are new depends on how they are laid out. `IdKeepsTypeAndElement` and
`ElementsOrderIds` say that ids are in the order of elements before types, the
reason for the third finding. So the theorems about sequences assume `OneType`: one
type at a time, and sequences that stop below the number of elements (the
divergence at `main.c:329` shows that this is needed as well). Under it `Numbered` is
inductive: the sequence of the type is beyond every record of the transaction
*and* of the last commit, because an abort brings those back while the sequence
stays; and a record's type exists. `CreatedRecordsAreNew`, `OpeningSucceeds` and `NoRecordWithoutType` follow. The
step that matters is opening (`LastIdOfOneType`, `OpenedAhead`): if all records are
of one type, the search at the end of the tree finds its last one, and
`ElementsFollowIds` turns the largest id into the largest element.

**Record selections** (`RecordReadProofs`). `ReadingIsComplete`: with any number of
records of one type, however reading by type and matcher, or by an index, is split
into reads and skips with any counts, every match is taken once, in order, and all
of them when a call says notfound; a lookup by ids gives what exists. The
invariant `Reading` says that what was taken is exactly what matches before the
position of the cursor, which is inductive because a call takes the smallest
(`SmallestIsClosed`) and stops on the next record after the last it took
(`CallTakes`); from it, order and absence of repetition follow for whatever is
appended next (`TakesInOrder`). `AscendingIs` says that the ids of a result can be
put into order at all: the rank of an id is an injection into the positions, and
so onto. `Readings` leaves out `db_record_index_read`, whose reading does not end
(see the table above).

**Record deletion in batches** (`RecordReadProofs`). `DeletionIsExact`: with records of
one type, `db_record_select_delete` deletes what matches and nothing else, for any
number of records and batches of any length. The invariant `Deleting` says that
what is left to delete is not below the cursor. A full batch keeps it since
its members are below all that is left (`SmallestIsClosed`); a batch that is not
full has taken everything (`FewerAreAll`), and the cursor, which LMDB moves when
its record is deleted, goes to the next record in both cases.

**Indices** (`IndicesProofs`), for any records, lists of fields and failures. The
properties depend on one another: entries are complete only if writes reach the
tree, which needs the handle in the cache to be that of the tree and of no other
index (`HandlesAreOwn`), which needs each list to have one slot and each tree one
handle, while slots and handles are used again and left behind by failures. The
invariant `Sound` has the types, those links (`Linked`), and what the trees hold of
the records (`Holds`), the last one twice: in the transaction, and in the commit an
abort goes back to. `IndicesAreComplete`, `IndicesAreSound`, `IndicesAreCached` and
`IndicesOwnHandles` follow. Completeness leaves out the records that the building of
an index did not come to (`missed`), which `index.c:227` allows; `OneTypeIsFound` has
all records, under `OneType`: without records of other types the scan comes to
all (`AllScanned`), and nothing is ever missed. A sequence found again at opening is
in range because the last id that is found is one of the type's own, or none
(`LastIsOwn`). `IndicesTyped` needs a count besides: every slot but those
of failures is free or holds a list of its own, so that the cache stays as small as
`IsFiniteSet(Lists)` and the failures allow.

`IndicesImplementStore` takes `Sound` as the invariant of the refinement. Only indices
that are `Ready` and `Published` are shown in the abstract state. So a step that builds, clears or
damages an index changes nothing that is shown, or withdraws the index with it;
what has to be proved of a write is that the entries it adds and removes are the
same in all the trees that are shown, which is `Holds`, and that no write reaches
a tree by the handle of another index, which is `Linked`.

**Types** (`TypeCatalogueProofs`), for any number of threads, names and types, under
`Fits`: type ids are below what a byte holds, and the array with its extension fits a
type id. The divergences at `open.c:103` and `type.c:15` are what happens without
it. `Sound` says what each thread holds at each step (`Roles`), that ids in the tree
or in the hands of a thread are below the sequence and different (`IdsTaken`), that
the cache differs from the tree only at entries whose commit is to come
(`Agreement`), and that a name that was found free stays free until its type is
stored (`NamesAreFree`).

**Opening** (`EnvironmentProofs`). `Sound` says what is acquired at each step of
`db_open` and what its transaction holds. `FilesAreWhole`, `OpenReleases` and
`FormatsAgree` follow, for any formats, type ids and declarations. `DeclaredTypesSurvive`
is the same for the types: the system tree has what was written of each declared
type, whatever opens and closes and fails in between, and the cache what is read
from that (`Written`). That a type is read as it was declared (`TypesComeBack`) is its
hypothesis, which the run bears out for its declarations (a session that reads a type differently
violates `TypesSurvive`); it fails where a
length does not fit its octets (`type.c:89` above).

**Assumptions.** `OrdinalAssumption` and `IdsAssumption` (ordinals, and the ids that the
cursors compare, are natural numbers), `NullAssumption`
(a null pointer is no array and no condition), `FiltersAssumption`, `CallsAssumption` and
`RelationsAssumption` (deletions are called with filters and arrays of ids, relations are
entries), `CountsAssumption` (at least two types and two elements),
`ListsAssumption`, `BoundsAssumption` and `TypesAssumption` (indices are on lists of
fields, bounds are numbers that an id has room for, records of other types are not of
the type), `CatalogueAssumption` and `EnvironmentAssumption` (limits are positive, a
missing entry is none). TLC evaluates them in the runs. What a theorem assumes
beyond them is a named condition in its statement.

**Only model-checked:**

* liveness (`DeletionEnds`, `CallsReturn`, `SelectionsEnd`): the prover has no rules for
  fairness and ENABLED;
* record data, index keys and virtual records (`RoundTrip`, `KeysAreExact`, `VirtualRoundTrip`) and
  that a type is read as it was declared (`TypeData`): their bytes are written and read by
  folds and recursive functions over data of any length, with powers of the number of
  bytes. What those compute for every input would need induction over data and
  rules for powers, which the provers have not. Of virtual records the theorem
  `IdKeepsTypeAndElement` has the part that is about the layout of ids;
* the rebuild of rl, whose run shows that it goes wrong.

## 6. Not modelled

* Record creation with values of a type that was deleted (`record.c:157`): the fields
  of the type are freed by then, what is read there is undefined.
* Addresses: pointers to types that callers keep when the array of types moves
  (`type.c:16`), the memory that a failed open frees without having written it
  (`open.c:311`).
* `db_open_indices`, which nothing calls.
* `db_record_delete_type` among indices: it deletes records and leaves their entries
  (`record.c:369`); its records and relations are in `Records`.
* The rebuild of an index through a handle that belongs to another index
  (`index.c:402`): it would clear the other tree, and fill it as a tree without
  duplicates.
* Read transactions next to a writer, and child transactions: LMDB gives each
  reader a snapshot, and the models of readers start from one.
* The inside of LMDB: pages, files, locks, map size. What sph-db relies on is in
  `Cursor`, in the handles of `Indices`, and in the way the modules take one write
  transaction at a time.
* Statistics, status descriptions, logging, paths and options: input and output
  without a state of their own.
* The vendored headers in `foreign`, beyond arrays with a position and sets.
* Tests, examples and build scripts.
* Id arrays that are given but empty: the walks read their first element before
  they look whether there is one, which is undefined.

## 7. Order of work

The modules were written in this order, the most important first, and each can be
read after those before it:

1. `RelationGraph`, `RelationTrees` and its proofs.
2. `Cursor`, `RelationDelete` and its proofs.
3. `RelationRead` and its proofs. 4. `RelationRebuild`.
5. `RecordIds`, `Records` and their proofs. 6. `RecordRead` and its proofs.
7. `RecordData`. 8. `IndexedRecords`, `Indices` and its proofs.
9. `TypeCatalogue` and its proofs. 10. `TypeData`, `Environment` and its proofs.

What could follow: selections with repeated ids, and readers by several labels, with what
the code does there as the abstract specification; two schema threads in `Indices`.
