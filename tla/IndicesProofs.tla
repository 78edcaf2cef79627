---------------------------- MODULE IndicesProofs ----------------------------
(***************************************************************************)
(* That indices follow the records, for any records, lists of fields and   *)
(* number of failures, however the two threads interleave.                 *)
(*                                                                         *)
(* The inductive invariant has three parts: the types; the links between   *)
(* the cache, the handles, the trees and the system tree; and what the     *)
(* trees hold, in the transaction and in what an abort goes back to.       *)
(***************************************************************************)
EXTENDS Indices, WellFoundedInduction, FiniteSetTheorems, TLAPS

(* The types, also of what an abort goes back to.                          *)
DataTyped ==
  /\ DOMAIN records \subseteq 1 .. MaxId /\ \A id \in DOMAIN records : records[id] \in Values
  /\ DOMAIN committed.records \subseteq 1 .. MaxId
  /\ \A id \in DOMAIN committed.records : committed.records[id] \in Values
  /\ committed = [records |-> committed.records, entries |-> committed.entries]
  /\ DOMAIN committed.entries = DOMAIN entries /\ DOMAIN entries \subseteq Lists
  /\ \A list \in DOMAIN entries : \A e \in entries[list] \cup committed.entries[list] :
       e[2] \in 1 .. MaxId
  /\ sequence \in 1 .. MaxId + 1
  /\ updated \subseteq 1 .. MaxId /\ missed \subseteq Lists \X (1 .. MaxId)

CacheTyped ==
  /\ system \subseteq Lists /\ broken \subseteq Lists
  /\ cache \in Seq(Slots) /\ freed \subseteq Used /\ handles \in Seq(Lists \cup {Free})
  /\ \A i \in Used : cache[i].dbi \in DOMAIN handles
  /\ schema \in [step : {"idle", "create", "rebuild", "uncache"}, slot : Nat]
  /\ schema # Idle => schema.step # "idle" /\ schema.slot \in Used \ freed
  /\ failures \in 0 .. MaxFailures

(* A tree has one handle, an index one slot; an index that nothing has     *)
(* gone wrong with is in the system tree and the cache, and has the handle *)
(* of its tree for itself.                                                 *)
OneHandle == \A m, n \in DOMAIN handles : handles[m] = handles[n] /\ handles[m] # Free => m = n
OpenTrees == \A n \in DOMAIN handles : handles[n] # Free => handles[n] \in DOMAIN entries
OneSlot == \A i, j \in Used \ freed : cache[i].list = cache[j].list => i = j
InSystem == \A i \in Used \ freed : ~Uncaching(i) => cache[i].list \in system
Cached == \A list \in (system \cup DOMAIN entries) \ broken :
            \E i \in Whole : cache[i].list = list
BuildsOwn == Building => Tree(schema.slot) = cache[schema.slot].list

Linked == OneHandle /\ OpenTrees /\ OneSlot /\ InSystem /\ Cached /\ HandlesAreOwn /\ BuildsOwn

Built(i) == ~(Building /\ schema.slot = i)

(* What the trees of such indices hold of the records r.                   *)
EntriesIn(list, r) == {<<Key(list, r[id]), id>> : id \in DOMAIN r}
Finds(list, r, e) == \A p \in EntriesIn(list, r) \ e[list] : <<list, p[2]>> \in missed
Holds(r, e) ==
  \A i \in Whole : /\ \A p \in e[cache[i].list] \ EntriesIn(cache[i].list, r) : p[2] \in updated
                   /\ Built(i) => Finds(cache[i].list, r, e)

Sound == DataTyped /\ CacheTyped /\ Linked /\ Holds(records, entries)
         /\ Holds(committed.records, committed.entries)

LEMMA SoundInit == Init => Sound
<1> SUFFICES ASSUME Init PROVE Sound
  OBVIOUS
<1> USE DEF Init
<1>1. Used = {} /\ Whole = {} /\ ~Building
  BY DEF Used, Whole, Building, Idle
<1>2. DataTyped
  BY BoundsAssumption DEF DataTyped
<1>3. CacheTyped
  BY <1>1, BoundsAssumption DEF CacheTyped, Idle
<1>4. Linked
  BY <1>1 DEF Linked, OneHandle, OpenTrees, OneSlot, InSystem, Cached, BuildsOwn, HandlesAreOwn
<1>5. Holds(records, entries) /\ Holds(committed.records, committed.entries)
  BY <1>1 DEF Holds
<1>6. QED
  BY <1>2, <1>3, <1>4, <1>5 DEF Sound
-----------------------------------------------------------------------------
(* Writes of records.                                                      *)

(* What the links are about is left alone.                                 *)
SameIndices == /\ UnchangedIndices /\ DOMAIN entries' = DOMAIN entries

LEMMA LinksKept ==
  ASSUME CacheTyped, Linked, SameIndices
  PROVE  CacheTyped' /\ Linked' /\ Whole' = Whole /\ \A i \in Whole : Built(i)' = Built(i)
<1> USE DEF SameIndices, UnchangedIndices
<1>1. Used' = Used /\ Building' = Building /\ Whole' = Whole
  BY DEF Used, Building, Whole, Uncaching
<1>2. CacheTyped'
  BY <1>1 DEF CacheTyped
<1>3. Linked'
  BY <1>1 DEF Linked, OneHandle, OpenTrees, OneSlot, InSystem, Cached, BuildsOwn,
              HandlesAreOwn, Shared, Tree, Uncaching
<1>4. QED
  BY <1>1, <1>2, <1>3 DEF Built

(* A write reaches the tree of such an index, once.                        *)
LEMMA WrittenOnce ==
  ASSUME CacheTyped, Linked,
         NEW slots, Reached(slots), NEW i \in Whole, NEW id, NEW values
  PROVE  Written(slots, cache[i].list, id, values) = {<<Key(cache[i].list, values), id>>}
<1>1. i \in slots /\ Tree(i) = cache[i].list /\ ~Shared(cache[i].dbi, i)
  BY DEF Reached, Whole, Linked, HandlesAreOwn
<1>2. cache[i].list # Free
  BY ListsAssumption DEF CacheTyped, Slots, Whole, Used, Free
<1>3. \A j \in slots : Tree(j) = cache[i].list => j = i
  BY <1>1, <1>2 DEF Reached, Shared, Tree, CacheTyped, Linked, OneHandle, Whole
<1>4. QED
  BY <1>1, <1>3 DEF Written

(* Keys and ids of what a write adds are typed.                            *)
LEMMA WrittenTyped ==
  ASSUME NEW slots, NEW list, NEW id, NEW values, NEW e \in Written(slots, list, id, values)
  PROVE  e[2] = id
BY DEF Written

LEMMA CreateSound ==
  ASSUME Sound, NEW slots, NEW values \in Values, Create(slots, values)
  PROVE  Sound'
<1> USE DEF Create, Writes
<1>1. DOMAIN entries' = DOMAIN entries /\ SameIndices
  BY DEF Ensured, SameIndices
<1>2. CacheTyped' /\ Linked' /\ Whole' = Whole /\ \A i \in Whole : Built(i)' = Built(i)
  BY <1>1, LinksKept DEF Sound
<1>3. sequence \in 1 .. MaxId /\ missed' = missed
  BY DEF Sound, DataTyped, UnchangedIndices
<1>4. DataTyped'
  BY <1>1, <1>3, WrittenTyped, BoundsAssumption DEF Sound, DataTyped, Ensured
<1>5. Holds(records, entries)'
  <2> SUFFICES ASSUME NEW i \in Whole
               PROVE  LET list == cache[i].list
                      IN /\ \A p \in entries'[list] \ EntriesIn(list, records') : p[2] \in updated'
                         /\ Built(i) => Finds(list, records', entries')
    BY <1>1, <1>2, <1>3 DEF Holds, Finds, SameIndices, UnchangedIndices
  <2> DEFINE list == cache[i].list
             new == <<Key(list, values), sequence>>
  <2>1. Written(slots, list, sequence, values) = {new}
    BY WrittenOnce DEF Sound
  <2>2. list \in DOMAIN entries
    BY DEF Sound, Linked, HandlesAreOwn
  <2>3. entries'[list] = entries[list] \cup {new}
    BY <2>1, <2>2 DEF Ensured
  <2>4. \A p \in EntriesIn(list, records) : p[2] \in updated' \/ p \in EntriesIn(list, records')
    BY DEF EntriesIn
  <2>5. new \in EntriesIn(list, records') /\ updated \subseteq updated'
    BY DEF EntriesIn
  <2>6. EntriesIn(list, records') \subseteq EntriesIn(list, records) \cup {new}
    BY DEF EntriesIn
  <2>7. QED
    BY <2>3, <2>4, <2>5, <2>6 DEF Sound, Holds, Finds
<1>6. Holds(committed.records, committed.entries)'
  BY <1>1, <1>2, <1>3 DEF Sound, Holds, Finds, SameIndices, UnchangedIndices
<1>7. QED
  BY <1>2, <1>4, <1>5, <1>6 DEF Sound

LEMMA UpdateSound ==
  ASSUME Sound, NEW slots, NEW id \in DOMAIN records, NEW values \in Values,
         Update(slots, id, values)
  PROVE  Sound'
<1> USE DEF Update, Writes
<1>1. DOMAIN entries' = DOMAIN entries /\ SameIndices
  BY DEF Ensured, SameIndices
<1>2. CacheTyped' /\ Linked' /\ Whole' = Whole /\ \A i \in Whole : Built(i)' = Built(i)
  BY <1>1, LinksKept DEF Sound
<1>3. DOMAIN records' = DOMAIN records
  OBVIOUS
<1>4. DataTyped'
  BY <1>1, <1>3, WrittenTyped DEF Sound, DataTyped, Ensured, UnchangedIndices
<1>5. Holds(records, entries)'
  <2> SUFFICES ASSUME NEW i \in Whole
               PROVE  LET list == cache[i].list
                      IN /\ \A p \in entries'[list] \ EntriesIn(list, records') : p[2] \in updated'
                         /\ Built(i) => Finds(list, records', entries')
    BY <1>1, <1>2 DEF Holds, Finds, SameIndices, UnchangedIndices
  <2> DEFINE list == cache[i].list
             new == <<Key(list, values), id>>
  <2>1. Written(slots, list, id, values) = {new}
    BY WrittenOnce DEF Sound
  <2>2. list \in DOMAIN entries
    BY DEF Sound, Linked, HandlesAreOwn
  <2>3. entries'[list] = entries[list] \cup {new}
    BY <2>1, <2>2 DEF Ensured
  <2>4. \A p \in EntriesIn(list, records) : p[2] = id \/ p \in EntriesIn(list, records')
    BY <1>3 DEF EntriesIn
  <2>5. new \in EntriesIn(list, records')
    BY <1>3 DEF EntriesIn
  <2>6. EntriesIn(list, records') \subseteq EntriesIn(list, records) \cup {new}
    BY <1>3 DEF EntriesIn
  <2>7. QED
    BY <2>3, <2>4, <2>5, <2>6 DEF Sound, Holds, Finds
<1>6. Holds(committed.records, committed.entries)'
  BY <1>1, <1>2 DEF Sound, Holds, Finds, SameIndices, UnchangedIndices
<1>7. QED
  BY <1>2, <1>4, <1>5, <1>6 DEF Sound

LEMMA DeleteSound ==
  ASSUME Sound, NEW slots, NEW id \in DOMAIN records, Delete(slots, id)
  PROVE  Sound'
<1> USE DEF Delete, Writes
<1>1. DOMAIN entries' = DOMAIN entries /\ SameIndices
  BY DEF SameIndices
<1>2. CacheTyped' /\ Linked' /\ Whole' = Whole /\ \A i \in Whole : Built(i)' = Built(i)
  BY <1>1, LinksKept DEF Sound
<1>3. DOMAIN records' = DOMAIN records \ {id} /\ \A d \in DOMAIN records' : records'[d] = records[d]
  BY DEF Restrict
<1>4. DataTyped'
  BY <1>1, <1>3 DEF Sound, DataTyped, UnchangedIndices
<1>5. Holds(records, entries)'
  <2> SUFFICES ASSUME NEW i \in Whole
               PROVE  LET list == cache[i].list
                      IN /\ \A p \in entries'[list] \ EntriesIn(list, records') : p[2] \in updated
                         /\ Built(i) => Finds(list, records', entries')
    BY <1>1, <1>2 DEF Holds, Finds, SameIndices, UnchangedIndices
  <2> DEFINE list == cache[i].list
             old == <<Key(list, records[id]), id>>
  <2>1. Written(slots, list, id, records[id]) = {old}
    BY WrittenOnce DEF Sound
  <2>2. list \in DOMAIN entries
    BY DEF Sound, Linked, HandlesAreOwn
  <2>3. entries'[list] = entries[list] \ {old}
    BY <2>1, <2>2
  <2>4. EntriesIn(list, records') = EntriesIn(list, records) \ {old}
    <3>1. \A p \in EntriesIn(list, records') : p \in EntriesIn(list, records) /\ p[2] # id
      BY <1>3 DEF EntriesIn
    <3>2. \A p \in EntriesIn(list, records) : p[2] # id => p \in EntriesIn(list, records')
      BY <1>3 DEF EntriesIn
    <3>3. \A p \in EntriesIn(list, records) : p[2] = id => p = old
      BY DEF EntriesIn
    <3>4. old[2] = id
      OBVIOUS
    <3> HIDE DEF old, list, Delete
    <3>5. QED
      BY <3>1, <3>2, <3>3, <3>4
  <2>5. QED
    BY <2>3, <2>4 DEF Sound, Holds, Finds
<1>6. Holds(committed.records, committed.entries)'
  BY <1>1, <1>2 DEF Sound, Holds, Finds, SameIndices, UnchangedIndices
<1>7. QED
  BY <1>2, <1>4, <1>5, <1>6 DEF Sound

LEMMA EndSound ==
  ASSUME Sound, UnchangedIndices, UNCHANGED updated,
         sequence' \in {sequence, 1 + sequence}, sequence' <= 1 + MaxId,
         \/ RollBack
         \/ /\ committed' = [records |-> records, entries |-> entries]
            /\ UNCHANGED <<records, entries>>
         \/ UNCHANGED data
  PROVE  Sound'
<1>1. SameIndices
  BY DEF Sound, DataTyped, SameIndices, RollBack, data
<1>2. CacheTyped' /\ Linked' /\ Whole' = Whole /\ \A i \in Whole : Built(i)' = Built(i)
  BY <1>1, LinksKept DEF Sound
<1>3. DataTyped'
  BY BoundsAssumption DEF Sound, DataTyped, RollBack, data, UnchangedIndices
<1>4. Holds(records, entries)' /\ Holds(committed.records, committed.entries)'
  BY <1>1, <1>2 DEF Sound, Holds, Finds, RollBack, data, UnchangedIndices
<1>5. QED
  BY <1>2, <1>3, <1>4 DEF Sound

LEMMA WriteNextSound ==
  ASSUME Sound, WriteNext
  PROVE  Sound'
<1>1. sequence <= 1 + MaxId
  BY BoundsAssumption DEF Sound, DataTyped
<1>2. ASSUME NEW slots, WriteFails(slots)
      PROVE  Sound'
  BY <1>2, EndSound DEF WriteFails
<1>3. CASE Commit
  BY <1>1, <1>3, EndSound DEF Commit
<1>4. CASE Abort
  BY <1>1, <1>4, EndSound DEF Abort
<1>5. QED
  BY <1>2, <1>3, <1>4, CreateSound, UpdateSound, DeleteSound DEF WriteNext
-----------------------------------------------------------------------------
(* Calls about indices.  What they do to the trees of other indices is     *)
(* nothing, and the records stay.                                          *)

LEMMA CachePlaced ==
  ASSUME cache \in Seq(Slots), NEW index \in Slots, NEW slot \in 1 .. 1 + Len(cache),
         cache' = Placed(cache, slot, index)
  PROVE  /\ cache' \in Seq(Slots) /\ DOMAIN cache' = DOMAIN cache \cup {slot}
         /\ cache'[slot] = index
         /\ \A m \in DOMAIN cache : m # slot => cache'[m] = cache[m]
<1>1. CASE slot <= Len(cache)
  <2>1. cache' = [cache EXCEPT ![slot] = index] /\ slot \in DOMAIN cache
    BY <1>1 DEF Placed
  <2>2. DOMAIN cache' = DOMAIN cache /\ DOMAIN cache = DOMAIN cache \cup {slot}
    BY <2>1
  <2>3. cache' \in Seq(Slots)
    BY <2>1
  <2>4. QED
    BY <2>1, <2>2, <2>3
<1>2. CASE slot = 1 + Len(cache)
  BY <1>2 DEF Placed
<1>3. QED
  BY <1>1, <1>2

LEMMA HandlesPlaced ==
  ASSUME handles \in Seq(Lists \cup {Free}), NEW list \in Lists \cup {Free},
         NEW dbi \in 1 .. 1 + Len(handles),
         handles' = Placed(handles, dbi, list)
  PROVE  /\ handles' \in Seq(Lists \cup {Free}) /\ DOMAIN handles' = DOMAIN handles \cup {dbi}
         /\ handles'[dbi] = list
         /\ \A m \in DOMAIN handles : m # dbi => handles'[m] = handles[m]
<1>1. CASE dbi <= Len(handles)
  <2>1. handles' = [handles EXCEPT ![dbi] = list] /\ dbi \in DOMAIN handles
    BY <1>1 DEF Placed
  <2>2. DOMAIN handles' = DOMAIN handles /\ DOMAIN handles = DOMAIN handles \cup {dbi}
    BY <2>1
  <2>3. handles' \in Seq(Lists \cup {Free})
    BY <2>1
  <2>4. QED
    BY <2>1, <2>2, <2>3
<1>2. CASE dbi = 1 + Len(handles)
  BY <1>2 DEF Placed
<1>3. QED
  BY <1>1, <1>2

(* What the types say of an index in the cache.                            *)
LEMMA SlotTyped ==
  ASSUME Sound, NEW i \in Used
  PROVE  /\ i \in DOMAIN cache /\ cache \in Seq(Slots) /\ cache[i] \in Slots \ {NoIndex}
         /\ cache[i].list \in Lists /\ cache[i].list # Free
         /\ cache[i].dbi \in DOMAIN handles /\ Tree(i) \in Lists \cup {Free}
BY ListsAssumption DEF Sound, CacheTyped, Slots, Used, Free, Tree

(* The transaction of a call has committed: what an abort goes back to.    *)
LEMMA Committed ==
  ASSUME Sound, NEW new, SchemaCommits(new)
  PROVE  /\ records' = records /\ entries' = new /\ sequence' = sequence /\ updated' = updated
         /\ (committed.records)' = records /\ (committed.entries)' = new
         /\ committed' = [records |-> records, entries |-> new]
BY DEF SchemaCommits, NoTransaction, Sound, DataTyped

(* What other indices miss stays; and the types of it.                     *)
LEMMA MissesKept ==
  ASSUME NEW list, NEW ids
  PROVE  \A l, x : l # list => (<<l, x>> \in Misses(list, ids) <=> <<l, x>> \in missed)
BY DEF Misses

LEMMA MissesTyped ==
  ASSUME missed \subseteq Lists \X (1 .. MaxId), NEW list \in Lists, NEW ids \in SUBSET (1 .. MaxId)
  PROVE  Misses(list, ids) \subseteq Lists \X (1 .. MaxId)
BY DEF Misses

LEMMA BuildSound ==
  ASSUME Sound, NEW others, IndexBuild(others)
  PROVE  Sound'
<1> DEFINE i == schema.slot
           list == cache[i].list
           seen == Scanned(others)
<1>1. i \in Used \ freed /\ Tree(i) = list /\ list \in Lists /\ list \in DOMAIN entries
  <2>1. i \in Used \ freed /\ Building
    BY DEF Sound, CacheTyped, Building, Idle, IndexBuild
  <2>2. Tree(i) = list
    BY <2>1 DEF Sound, Linked, BuildsOwn
  <2>3. QED
    BY <2>1, <2>2, SlotTyped DEF Sound, Linked, OpenTrees, Tree
<1> DEFINE new == [entries EXCEPT ![list] = entries[list] \cup EntriesFor(list, seen)]
<1>2. SchemaCommits(new)
  BY <1>1 DEF IndexBuild, With
<1>3. /\ UNCHANGED <<system, cache, freed, handles, failures, broken>> /\ schema' = Idle
      /\ missed' = Misses(list, DOMAIN records \ seen) /\ seen \subseteq DOMAIN records
  BY DEF IndexBuild, Scanned
<1> HIDE DEF seen
<1>4. Used' = Used /\ Whole' = Whole /\ ~Building'
  BY <1>3 DEF Used, Whole, Uncaching, Building, Idle, IndexBuild
<1>5. DataTyped'
  <2>1. \A e \in EntriesFor(list, seen) : e[2] \in 1 .. MaxId
    BY <1>3 DEF EntriesFor, Sound, DataTyped
  <2>2. \A l \in DOMAIN new : \A e \in new[l] : e[2] \in 1 .. MaxId
    BY <1>1, <2>1 DEF Sound, DataTyped
  <2>3. missed' \subseteq Lists \X (1 .. MaxId)
    BY <1>1, <1>3, MissesTyped DEF Sound, DataTyped
  <2>4. QED
    BY <1>2, <2>2, <2>3, Committed DEF Sound, DataTyped
<1>6. CacheTyped'
  BY <1>3, <1>4 DEF Sound, CacheTyped, Idle
<1>7. Linked'
  <2>1. DOMAIN entries' = DOMAIN entries
    BY <1>2, Committed
  <2>2. \A j \in Used \ freed : ~Uncaching(j)
    BY DEF Uncaching, IndexBuild, Building
  <2>3. OneHandle' /\ OpenTrees' /\ OneSlot' /\ Cached' /\ BuildsOwn'
    BY <1>3, <1>4, <2>1 DEF Sound, Linked, OneHandle, OpenTrees, OneSlot, Cached, BuildsOwn
  <2>4. InSystem'
    BY <1>3, <1>4, <2>2 DEF Sound, Linked, InSystem
  <2>5. HandlesAreOwn'
    BY <1>3, <1>4, <2>1 DEF Sound, Linked, HandlesAreOwn, Shared, Tree
  <2>6. QED
    BY <2>3, <2>4, <2>5 DEF Linked
<1>8. ASSUME NEW j \in Whole
      PROVE  LET l == cache[j].list
             IN /\ \A p \in new[l] \ EntriesIn(l, records) : p[2] \in updated
                /\ \A p \in EntriesIn(l, records) \ new[l] : <<l, p[2]>> \in missed'
  <2>1. EntriesFor(list, seen) \subseteq EntriesIn(list, records)
    BY <1>3 DEF EntriesIn, EntriesFor
  <2>2. cache[j].list \in DOMAIN entries
    BY DEF Sound, Linked, HandlesAreOwn
  <2>3. CASE j = i
    <3>1. \A p \in EntriesIn(list, records) \ EntriesFor(list, seen) : p[2] \in DOMAIN records \ seen
      BY DEF EntriesIn, EntriesFor
    <3>2. new[list] = entries[list] \cup EntriesFor(list, seen)
      BY <2>2, <2>3
    <3>3. \A x \in DOMAIN records \ seen : <<list, x>> \in missed'
      BY <1>3 DEF Misses
    <3>4. \A p \in entries[list] \ EntriesIn(list, records) : p[2] \in updated
      BY <2>3 DEF Sound, Holds
    <3> HIDE DEF list, i, new
    <3>5. QED
      BY <2>1, <2>3, <3>1, <3>2, <3>3, <3>4 DEF list
  <2>4. CASE j # i
    <3>1. cache[j].list # list /\ Built(j)
      BY <1>1, <2>4 DEF Sound, Linked, OneSlot, Whole, Built
    <3>2. new[cache[j].list] = entries[cache[j].list]
      BY <2>2, <3>1
    <3>3. \A x : <<cache[j].list, x>> \in missed => <<cache[j].list, x>> \in missed'
      BY <1>3, <3>1, MissesKept
    <3>4. QED
      BY <3>1, <3>2, <3>3 DEF Sound, Holds, Finds
  <2>5. QED
    BY <2>3, <2>4
<1>9. Holds(records, entries)' /\ Holds(committed.records, committed.entries)'
  BY <1>2, <1>3, <1>4, <1>8, Committed DEF Holds, Finds
<1>10. QED
  BY <1>5, <1>6, <1>7, <1>9 DEF Sound

LEMMA BuildFailsSound ==
  ASSUME Sound, IndexBuildFails
  PROVE  Sound'
<1> DEFINE i == schema.slot
<1>1. i \in Used \ freed /\ Building /\ cache[i].list \in Lists
  BY SlotTyped DEF Sound, CacheTyped, Building, Idle, IndexBuildFails
<1>2. /\ UNCHANGED <<data, sequence, updated, missed, system, cache, handles>> /\ schema' = Idle
      /\ freed' \in {freed, freed \cup {i}} /\ broken' = broken \cup {cache[i].list}
      /\ failures' \in 0 .. MaxFailures
  BY BoundsAssumption DEF IndexBuildFails, SchemaFails, Sound, CacheTyped
<1>3. Used' = Used /\ ~Building'
  BY <1>2 DEF Used, Building, Idle
<1>4. Whole' = {j \in Whole : cache[j].list # cache[i].list}
  BY <1>1, <1>2, <1>3 DEF Whole, Uncaching, Building, Idle
<1>5. \A j \in Whole' : Built(j)
  BY <1>4 DEF Built
<1>6. DataTyped' /\ CacheTyped'
  BY <1>1, <1>2, <1>3 DEF Sound, DataTyped, CacheTyped, Idle, data
<1>7. Linked'
  <2>1. OneHandle' /\ OpenTrees' /\ OneSlot' /\ BuildsOwn'
    BY <1>2, <1>3 DEF Sound, Linked, OneHandle, OpenTrees, OneSlot, BuildsOwn, data
  <2>2. InSystem'
    BY <1>1, <1>2, <1>3 DEF Sound, Linked, InSystem, Uncaching, Building
  <2>3. Cached'
    BY <1>2, <1>4 DEF Sound, Linked, Cached, data
  <2>4. HandlesAreOwn'
    BY <1>2, <1>3, <1>4 DEF Sound, Linked, HandlesAreOwn, Shared, Tree, data
  <2>5. QED
    BY <2>1, <2>2, <2>3, <2>4 DEF Linked
<1>8. Holds(records, entries)' /\ Holds(committed.records, committed.entries)'
  BY <1>2, <1>4, <1>5 DEF Sound, Holds, Finds, data
<1>9. QED
  BY <1>6, <1>7, <1>8 DEF Sound

LEMMA UncacheSound ==
  ASSUME Sound, IndexUncache
  PROVE  Sound'
<1> DEFINE i == schema.slot
<1>1. i \in Used \ freed /\ Uncaching(i) /\ \A j : Uncaching(j) => j = i
  BY DEF Sound, CacheTyped, Uncaching, Idle, IndexUncache
<1>2. /\ UNCHANGED <<data, sequence, updated, missed, system, freed, handles, failures, broken>>
      /\ cache' = [cache EXCEPT ![i] = NoIndex] /\ schema' = Idle
  BY DEF IndexUncache
<1>3. cache' \in Seq(Slots) /\ Used' = Used \ {i} /\ \A j \in Used' : cache'[j] = cache[j]
  <2>1. cache \in Seq(Slots) /\ NoIndex \in Slots /\ i \in DOMAIN cache
    BY <1>1, SlotTyped DEF Slots
  <2>2. QED
    BY <1>2, <2>1 DEF Used
<1>4. Whole' = Whole /\ Whole \subseteq Used' /\ ~Building /\ ~Building'
  BY <1>1, <1>2, <1>3 DEF Whole, Uncaching, Building, Idle
<1>5. DataTyped' /\ CacheTyped'
  <2>1. DataTyped'
    BY <1>2 DEF Sound, DataTyped, data
  <2>2. CacheTyped'
    BY <1>1, <1>2, <1>3 DEF Sound, CacheTyped, Idle
  <2>3. QED
    BY <2>1, <2>2
<1>6. Linked'
  <2>1. OneHandle' /\ OpenTrees' /\ BuildsOwn'
    BY <1>2, <1>4 DEF Sound, Linked, OneHandle, OpenTrees, BuildsOwn, data
  <2>2. OneSlot' /\ InSystem'
    BY <1>1, <1>2, <1>3 DEF Sound, Linked, OneSlot, InSystem
  <2>3. Cached'
    BY <1>2, <1>3, <1>4 DEF Sound, Linked, Cached, data
  <2>4. HandlesAreOwn'
    BY <1>2, <1>3, <1>4 DEF Sound, Linked, HandlesAreOwn, Shared, Tree, data
  <2>5. QED
    BY <2>1, <2>2, <2>3, <2>4 DEF Linked
<1>7. Holds(records, entries)' /\ Holds(committed.records, committed.entries)'
  BY <1>2, <1>3, <1>4 DEF Sound, Holds, Finds, data, Built
<1>8. QED
  BY <1>5, <1>6, <1>7 DEF Sound

(* The slot and the handle that are taken for an index.                    *)
LEMMA PlaceTaken ==
  ASSUME Sound, NEW list \in Lists, IndexGet(list) = {}, schema = Idle,
         NEW slot \in FirstFree(cache, NoIndex), NEW dbi \in Opened(list)
  PROVE  /\ slot \in 1 .. 1 + Len(cache) /\ slot \notin Used
         /\ dbi \in 1 .. 1 + Len(handles)
         /\ dbi \in DOMAIN handles => handles[dbi] \in {list, Free}
         /\ \A n \in DOMAIN handles : handles[n] = list => n = dbi
         /\ \A j \in Used \ freed : cache[j].list # list
         /\ \A j \in Whole : cache[j].dbi # dbi
<1>1. slot \in 1 .. 1 + Len(cache) /\ slot \notin Used
  BY DEF FirstFree, Used, Sound, CacheTyped
<1>2. /\ dbi \in 1 .. 1 + Len(handles)
      /\ dbi \in DOMAIN handles => handles[dbi] \in {list, Free}
      /\ \A n \in DOMAIN handles : handles[n] = list => n = dbi
  <2>1. handles \in Seq(Lists \cup {Free}) /\ DOMAIN handles = 1 .. Len(handles)
    BY DEF Sound, CacheTyped
  <2>2. CASE list \in Range(handles)
    <3>1. dbi \in DOMAIN handles /\ handles[dbi] = list
      BY <2>2 DEF Opened
    <3>2. list # Free
      BY ListsAssumption DEF Free
    <3>3. QED
      BY <2>1, <3>1, <3>2 DEF Sound, Linked, OneHandle
  <2>3. CASE list \notin Range(handles)
    BY <2>1, <2>3 DEF Opened, FirstFree, Range
  <2>4. QED
    BY <2>2, <2>3
<1>3. \A j \in Used \ freed : cache[j].list # list
  <2>1. IsPrefix(list, list)
    BY ListsAssumption DEF IsPrefix
  <2>2. QED
    BY <2>1 DEF IndexGet
<1>4. \A j \in Whole : cache[j].dbi # dbi
  <2>1. ASSUME NEW j \in Whole
        PROVE  handles[cache[j].dbi] \notin {list, Free} /\ cache[j].dbi \in DOMAIN handles
    BY <1>3, SlotTyped DEF Whole, Sound, Linked, HandlesAreOwn, Tree
  <2>2. QED
    BY <1>2, <2>1
<1>5. QED
  BY <1>1, <1>2, <1>3, <1>4

LEMMA CreateIndexSound ==
  ASSUME Sound, NEW list \in Lists, NEW slot \in FirstFree(cache, NoIndex),
         NEW dbi \in Opened(list), IndexCreate(list, slot, dbi)
  PROVE  Sound'
<1> DEFINE new == With(list, IF list \in DOMAIN entries THEN entries[list] ELSE {})
           index == [list |-> list, dbi |-> dbi]
<1>1. /\ schema = Idle /\ IndexGet(list) = {} /\ SchemaCommits(new)
      /\ system' = system \cup {list} /\ cache' = Placed(cache, slot, index)
      /\ handles' = Placed(handles, dbi, list)
      /\ schema' = [step |-> "create", slot |-> slot]
      /\ broken' = IF Shared(dbi, slot) THEN broken \cup {list} ELSE broken
      /\ freed' = freed /\ failures' = failures /\ missed' = missed
  BY DEF IndexCreate
<1>2. /\ DOMAIN new = DOMAIN entries \cup {list}
      /\ \A l \in DOMAIN entries : new[l] = entries[l]
      /\ list \notin DOMAIN entries => new[list] = {}
  BY DEF With
<1>3. index \in Slots /\ index # NoIndex /\ slot \notin freed
  <2>1. /\ slot \in 1 .. 1 + Len(cache) /\ slot \notin Used /\ dbi \in 1 .. 1 + Len(handles)
        /\ handles \in Seq(Lists \cup {Free}) /\ freed \subseteq Used
    BY <1>1, PlaceTaken DEF Sound, CacheTyped
  <2>2. dbi \in Nat \ {0}
    BY <2>1
  <2>3. QED
    BY <2>1, <2>2, ListsAssumption DEF Slots, NoIndex, Free
<1>4. /\ cache' \in Seq(Slots) /\ cache'[slot] = index /\ Used' = Used \cup {slot}
      /\ \A j \in Used : j # slot /\ cache'[j] = cache[j]
  <2>1. cache \in Seq(Slots) /\ slot \in 1 .. 1 + Len(cache) /\ slot \notin Used
    BY <1>1, PlaceTaken DEF Sound, CacheTyped
  <2>2. /\ cache' \in Seq(Slots) /\ DOMAIN cache' = DOMAIN cache \cup {slot}
        /\ cache'[slot] = index /\ \A j \in DOMAIN cache : j # slot => cache'[j] = cache[j]
    BY <1>1, <1>3, <2>1, CachePlaced
  <2>3. QED
    BY <1>3, <2>1, <2>2 DEF Used
<1>5. /\ handles' \in Seq(Lists \cup {Free}) /\ DOMAIN handles' = DOMAIN handles \cup {dbi}
      /\ handles'[dbi] = list
      /\ \A n \in DOMAIN handles : n # dbi => handles'[n] = handles[n]
  <2>1. handles \in Seq(Lists \cup {Free}) /\ dbi \in 1 .. 1 + Len(handles)
    BY <1>1, PlaceTaken DEF Sound, CacheTyped
  <2>2. list \in Lists \cup {Free}
    OBVIOUS
  <2>3. QED
    BY <1>1, <2>1, <2>2, HandlesPlaced
<1>6. /\ Building' /\ ~Building /\ \A j : ~Uncaching(j) /\ ~Uncaching(j)'
  BY <1>1 DEF Building, Uncaching, Idle
<1>7. Whole' = Whole \cup (IF list \in broken' THEN {} ELSE {slot})
  BY <1>1, <1>3, <1>4, <1>6, PlaceTaken DEF Whole
<1>8. list \notin broken => list \notin DOMAIN entries
  BY <1>1, PlaceTaken DEF Sound, Linked, Cached, Whole
<1>9. DataTyped'
  BY <1>1, <1>2, Committed DEF Sound, DataTyped
<1>10. CacheTyped'
  <2>1. \A j \in Used' : cache'[j].dbi \in DOMAIN handles'
    BY <1>4, <1>5 DEF Sound, CacheTyped
  <2>2. freed' \subseteq Used' /\ schema'.slot \in Used' \ freed' /\ schema'.slot \in Nat
    BY <1>1, <1>3, <1>4, PlaceTaken DEF Sound, CacheTyped
  <2>3. QED
    BY <1>1, <1>4, <1>5, <2>1, <2>2 DEF Sound, CacheTyped, Idle
<1>11. Linked'
  <2>1. OneHandle'
    BY <1>1, <1>5, PlaceTaken DEF Sound, Linked, OneHandle
  <2>2. OpenTrees'
    BY <1>1, <1>2, <1>5, Committed DEF Sound, Linked, OpenTrees
  <2>3. OneSlot'
    BY <1>1, <1>4, PlaceTaken DEF Sound, Linked, OneSlot
  <2>4. InSystem'
    BY <1>1, <1>4, <1>6 DEF Sound, Linked, InSystem
  <2>5. Cached'
    BY <1>1, <1>2, <1>4, <1>7, Committed DEF Sound, Linked, Cached, Whole
  <2>6. HandlesAreOwn'
    <3>1. ASSUME NEW j \in Whole
          PROVE  Tree(j)' = cache'[j].list /\ ~Shared(cache[j].dbi, j)'
                 /\ cache'[j].list \in DOMAIN entries'
      <4>1. /\ j \in Used /\ cache'[j] = cache[j] /\ cache[j].dbi # dbi
            /\ Tree(j) = cache[j].list /\ ~Shared(cache[j].dbi, j)
            /\ cache[j].list \in DOMAIN entries /\ cache[j].dbi \in DOMAIN handles
        BY <1>1, <1>4, PlaceTaken, SlotTyped DEF Sound, Linked, HandlesAreOwn, Whole
      <4>2. Tree(j)' = cache'[j].list
        BY <1>5, <4>1 DEF Tree
      <4>3. ~Shared(cache[j].dbi, j)'
        BY <1>4, <4>1 DEF Shared
      <4>4. cache'[j].list \in DOMAIN entries'
        BY <1>1, <1>2, <4>1, Committed
      <4>5. QED
        BY <4>2, <4>3, <4>4
    <3>2. ASSUME slot \in Whole'
          PROVE  Tree(slot)' = list /\ ~Shared(dbi, slot)' /\ list \in DOMAIN entries'
      <4>1. list \notin broken' /\ list \in Lists
        BY <1>4, <3>2 DEF Whole
      <4>2. ~Shared(dbi, slot)'
        BY <1>1, <1>4, <4>1 DEF Shared
      <4>3. Tree(slot)' = list
        BY <1>4, <1>5 DEF Tree
      <4>4. QED
        BY <1>1, <1>2, <4>2, <4>3, Committed
    <3>3. QED
      BY <1>4, <1>7, <3>1, <3>2 DEF HandlesAreOwn
  <2>7. BuildsOwn'
    BY <1>1, <1>4, <1>5 DEF BuildsOwn, Tree
  <2>8. QED
    BY <2>1, <2>2, <2>3, <2>4, <2>5, <2>6, <2>7 DEF Linked
<1>12. ASSUME NEW j \in Whole'
       PROVE  LET l == cache'[j].list
              IN /\ \A p \in new[l] \ EntriesIn(l, records) : p[2] \in updated
                 /\ Built(j)' => \A p \in EntriesIn(l, records) \ new[l] : <<l, p[2]>> \in missed'
  <2>1. CASE j \in Whole
    <3>1. cache'[j].list = cache[j].list /\ cache[j].list \in DOMAIN entries /\ Built(j)
      BY <1>4, <1>6, <2>1 DEF Sound, Linked, HandlesAreOwn, Whole, Built
    <3>2. QED
      BY <1>1, <1>2, <2>1, <3>1 DEF Sound, Holds, Finds
  <2>2. CASE j = slot /\ list \notin broken'
    BY <1>1, <1>2, <1>4, <1>6, <1>8, <2>2 DEF Built
  <2>3. QED
    BY <1>7, <2>1, <2>2
<1>13. Holds(records, entries)' /\ Holds(committed.records, committed.entries)'
  BY <1>1, <1>12, Committed DEF Holds, Finds
<1>14. QED
  BY <1>9, <1>10, <1>11, <1>13 DEF Sound

LEMMA CreateIndexFailsSound ==
  ASSUME Sound, NEW list \in Lists, NEW slot \in FirstFree(cache, NoIndex),
         NEW dbi \in Opened(list), IndexCreateFails(list, slot, dbi)
  PROVE  Sound'
<1> DEFINE index == [list |-> list, dbi |-> dbi]
<1>1. /\ schema = Idle /\ IndexGet(list) = {} /\ UNCHANGED <<data, sequence, updated, missed>>
      /\ UNCHANGED <<system, schema>> /\ cache' = Placed(cache, slot, index)
      /\ handles' = IF list \in Range(handles) THEN handles ELSE Placed(handles, dbi, Free)
      /\ broken' = broken \cup {list} /\ freed' = freed \cup {slot}
      /\ failures' \in 0 .. MaxFailures
  BY BoundsAssumption DEF IndexCreateFails, SchemaFails, Sound, CacheTyped
<1>2. index \in Slots /\ index # NoIndex /\ slot \notin freed
  <2>1. /\ slot \in 1 .. 1 + Len(cache) /\ slot \notin Used /\ dbi \in 1 .. 1 + Len(handles)
        /\ handles \in Seq(Lists \cup {Free}) /\ freed \subseteq Used
    BY <1>1, PlaceTaken DEF Sound, CacheTyped
  <2>2. dbi \in Nat \ {0}
    BY <2>1
  <2>3. QED
    BY <2>1, <2>2, ListsAssumption DEF Slots, NoIndex, Free
<1>3. /\ cache' \in Seq(Slots) /\ cache'[slot] = index /\ Used' = Used \cup {slot}
      /\ \A j \in Used : j # slot /\ cache'[j] = cache[j]
  <2>1. cache \in Seq(Slots) /\ slot \in 1 .. 1 + Len(cache) /\ slot \notin Used
    BY <1>1, PlaceTaken DEF Sound, CacheTyped
  <2>2. /\ cache' \in Seq(Slots) /\ DOMAIN cache' = DOMAIN cache \cup {slot}
        /\ cache'[slot] = index /\ \A j \in DOMAIN cache : j # slot => cache'[j] = cache[j]
    BY <1>1, <1>2, <2>1, CachePlaced
  <2>3. QED
    BY <1>2, <2>1, <2>2 DEF Used
<1>4. /\ handles' \in Seq(Lists \cup {Free}) /\ DOMAIN handles' = DOMAIN handles \cup {dbi}
      /\ \A n \in DOMAIN handles' : handles'[n] = IF n \in DOMAIN handles THEN handles[n] ELSE Free
  <2>1. CASE list \in Range(handles)
    <3>1. dbi \in DOMAIN handles
      BY <2>1 DEF Opened
    <3>2. QED
      BY <1>1, <2>1, <3>1 DEF Sound, CacheTyped
  <2>2. CASE list \notin Range(handles)
    <3>1. dbi \in DOMAIN handles => handles[dbi] = Free
      BY <1>1, <2>2, PlaceTaken DEF Range
    <3>2. handles \in Seq(Lists \cup {Free}) /\ dbi \in 1 .. 1 + Len(handles)
      BY <1>1, PlaceTaken DEF Sound, CacheTyped
    <3>3. handles' = Placed(handles, dbi, Free)
      BY <1>1, <2>2
    <3>4. Free \in Lists \cup {Free}
      OBVIOUS
    <3>5. /\ handles' \in Seq(Lists \cup {Free}) /\ DOMAIN handles' = DOMAIN handles \cup {dbi}
          /\ handles'[dbi] = Free /\ \A n \in DOMAIN handles : n # dbi => handles'[n] = handles[n]
      BY <3>2, <3>3, <3>4, HandlesPlaced
    <3>6. \A n \in DOMAIN handles' : handles'[n] = IF n \in DOMAIN handles THEN handles[n] ELSE Free
      BY <3>1, <3>5
    <3>7. QED
      BY <3>5, <3>6
  <2>3. QED
    BY <2>1, <2>2
<1>5. ~Building /\ ~Building' /\ \A j : ~Uncaching(j) /\ ~Uncaching(j)'
  BY <1>1 DEF Building, Uncaching, Idle
<1>6. Used' \ freed' = Used \ freed /\ Whole' = Whole
  BY <1>1, <1>2, <1>3, <1>5, PlaceTaken DEF Whole
<1>7. DataTyped' /\ CacheTyped'
  <2>1. DataTyped'
    BY <1>1 DEF Sound, DataTyped, data
  <2>2. CacheTyped'
    <3>1. \A j \in Used' : cache'[j].dbi \in DOMAIN handles'
      <4>1. \A j \in Used : cache[j].dbi \in DOMAIN handles
        BY DEF Sound, CacheTyped
      <4>2. cache'[slot].dbi = dbi
        BY <1>3
      <4>3. QED
        BY <1>3, <1>4, <4>1, <4>2
    <3>2. freed' \subseteq Used' /\ schema' = Idle
      BY <1>1, <1>3 DEF Sound, CacheTyped
    <3>3. QED
      BY <1>1, <1>3, <1>4, <3>1, <3>2 DEF Sound, CacheTyped
  <2>3. QED
    BY <2>1, <2>2
<1>8. Linked'
  <2>1. OneHandle' /\ OpenTrees'
    BY <1>1, <1>4 DEF Sound, Linked, OneHandle, OpenTrees, data
  <2>2. OneSlot' /\ InSystem'
    BY <1>1, <1>3, <1>5, <1>6 DEF Sound, Linked, OneSlot, InSystem
  <2>3. Cached'
    BY <1>1, <1>3, <1>6 DEF Sound, Linked, Cached, Whole, data
  <2>4. HandlesAreOwn'
    <3>1. ASSUME NEW j \in Whole
          PROVE  /\ j \in Used /\ cache'[j] = cache[j] /\ cache[j].dbi # dbi
                 /\ Tree(j) = cache[j].list /\ ~Shared(cache[j].dbi, j)
                 /\ cache[j].list \in DOMAIN entries /\ cache[j].dbi \in DOMAIN handles
      BY <1>1, <1>3, PlaceTaken, SlotTyped DEF Sound, Linked, HandlesAreOwn, Whole
    <3>2. \A j \in Whole : Tree(j)' = cache'[j].list
      BY <1>4, <3>1 DEF Tree
    <3>3. \A j \in Whole : ~Shared(cache[j].dbi, j)'
      BY <1>3, <3>1 DEF Shared
    <3>4. QED
      BY <1>1, <1>6, <3>1, <3>2, <3>3 DEF HandlesAreOwn, data
  <2>5. BuildsOwn'
    BY <1>5 DEF BuildsOwn
  <2>6. QED
    BY <2>1, <2>2, <2>3, <2>4, <2>5 DEF Linked
<1>9. Holds(records, entries)' /\ Holds(committed.records, committed.entries)'
  <2>1. \A j \in Whole : cache'[j] = cache[j] /\ (Built(j)' <=> Built(j))
    BY <1>3, <1>5 DEF Whole, Built
  <2>2. /\ UNCHANGED <<records, entries, updated, missed>>
        /\ (committed.records)' = committed.records /\ (committed.entries)' = committed.entries
    BY <1>1 DEF data
  <2> HIDE DEF index
  <2>3. QED
    BY <1>6, <2>1, <2>2 DEF Sound, Holds, Finds
<1>10. QED
  BY <1>7, <1>8, <1>9 DEF Sound

(* Other indices in such a state do not have the handle or the tree.       *)
LEMMA OthersApart ==
  ASSUME Sound, NEW i \in Used, NEW j \in Whole, i # j
  PROVE  /\ cache[j].dbi # cache[i].dbi
         /\ Tree(i) # Free => Tree(j) # Tree(i)
<1>1. cache[j].dbi # cache[i].dbi
  BY DEF Sound, Linked, HandlesAreOwn, Shared
<1>2. cache[j].dbi \in DOMAIN handles /\ cache[i].dbi \in DOMAIN handles
  BY SlotTyped DEF Whole
<1>3. QED
  BY <1>1, <1>2 DEF Tree, Sound, Linked, OneHandle

LEMMA DeleteIndexSound ==
  ASSUME Sound, NEW i \in Used \ freed, IndexDelete(i)
  PROVE  Sound'
<1> DEFINE tree == Tree(i)
           list == cache[i].list
           new == Restrict(entries, DOMAIN entries \ {tree})
<1>1. /\ schema = Idle /\ tree # Free /\ SchemaCommits(new) /\ system' = system \ {list}
      /\ handles' = [handles EXCEPT ![cache[i].dbi] = Free]
      /\ schema' = [step |-> "uncache", slot |-> i]
      /\ broken' = IF tree = list THEN broken \ {list} ELSE broken \cup {tree, list}
      /\ missed' = Misses(list, {}) /\ UNCHANGED <<cache, freed, failures>>
  BY DEF IndexDelete
<1>2. /\ i \in DOMAIN cache /\ list \in Lists /\ tree \in Lists
      /\ cache[i].dbi \in DOMAIN handles /\ tree = handles[cache[i].dbi]
  BY <1>1, SlotTyped DEF Tree
<1>3. DOMAIN new = DOMAIN entries \ {tree} /\ \A l \in DOMAIN new : new[l] = entries[l]
  BY DEF Restrict
<1>4. /\ Used' = Used /\ ~Building /\ ~Building' /\ \A j : ~Uncaching(j)
      /\ \A j : Uncaching(j)' <=> j = i
  BY <1>1 DEF Used, Building, Uncaching, Idle
<1>5. /\ handles' \in Seq(Lists \cup {Free}) /\ DOMAIN handles' = DOMAIN handles
      /\ handles'[cache[i].dbi] = Free
      /\ \A n \in DOMAIN handles : n # cache[i].dbi => handles'[n] = handles[n]
  BY <1>1, <1>2 DEF Sound, CacheTyped
<1>6. Whole' \subseteq Whole \ {i}
  <2>1. \A j \in Used \ freed : j # i => cache[j].list # list
    BY DEF Sound, Linked, OneSlot
  <2>2. QED
    BY <1>1, <1>4, <2>1 DEF Whole
<1>7. \A j \in Whole : cache[j].list \notin broken' /\ j # i => j \in Whole'
  BY <1>1, <1>4 DEF Whole
<1>8. ASSUME NEW j \in Whole'
      PROVE  /\ j \in Whole /\ j # i /\ cache[j].dbi # cache[i].dbi /\ cache[j].list # tree
             /\ Tree(j) = cache[j].list /\ cache[j].list \in DOMAIN entries
             /\ ~Shared(cache[j].dbi, j) /\ cache[j].dbi \in DOMAIN handles
  BY <1>1, <1>6, OthersApart, SlotTyped DEF Sound, Linked, HandlesAreOwn, Whole
<1>9. DataTyped'
  <2>1. missed' \subseteq Lists \X (1 .. MaxId)
    BY <1>1, <1>2, MissesTyped DEF Sound, DataTyped
  <2>2. QED
    BY <1>1, <1>3, <2>1, Committed DEF Sound, DataTyped
<1>10. CacheTyped'
  BY <1>1, <1>2, <1>4, <1>5 DEF Sound, CacheTyped, Idle
<1>11. Linked'
  <2>1. OneHandle'
    BY <1>5 DEF Sound, Linked, OneHandle
  <2>2. OpenTrees'
    <3>1. \A n \in DOMAIN handles : n # cache[i].dbi => handles[n] # tree
      BY <1>1, <1>2 DEF Sound, Linked, OneHandle
    <3>2. QED
      BY <1>1, <1>3, <1>5, <3>1, Committed DEF Sound, Linked, OpenTrees
  <2>3. OneSlot' /\ InSystem'
    BY <1>1, <1>4 DEF Sound, Linked, OneSlot, InSystem
  <2>4. Cached'
    <3>1. ASSUME NEW l \in (system' \cup DOMAIN new) \ broken'
          PROVE  \E j \in Whole' : cache[j].list = l
      <4>1. l \in (system \cup DOMAIN entries) \ broken /\ l # list
        BY <1>1, <1>3, <3>1
      <4>2. PICK j \in Whole : cache[j].list = l
        BY <4>1 DEF Sound, Linked, Cached
      <4>3. QED
        BY <1>7, <4>1, <4>2
    <3>2. QED
      BY <1>1, <3>1, Committed DEF Cached
  <2>5. HandlesAreOwn'
    <3>1. \A j \in Whole' : Tree(j)' = cache'[j].list
      BY <1>1, <1>5, <1>8 DEF Tree
    <3>2. \A j \in Whole' : cache'[j].list \in DOMAIN entries'
      BY <1>1, <1>3, <1>8, Committed
    <3>3. \A j \in Whole' : ~Shared(cache[j].dbi, j)'
      BY <1>1, <1>4, <1>8 DEF Shared
    <3>4. QED
      BY <3>1, <3>2, <3>3 DEF HandlesAreOwn
  <2>6. BuildsOwn'
    BY <1>4 DEF BuildsOwn
  <2>7. QED
    BY <2>1, <2>2, <2>3, <2>4, <2>5, <2>6 DEF Linked
<1>12. Holds(records, entries)' /\ Holds(committed.records, committed.entries)'
  <2>1. ASSUME NEW j \in Whole'
        PROVE  new[cache[j].list] = entries[cache[j].list] /\ Built(j) /\ j \in Whole
    BY <1>3, <1>4, <1>8 DEF Built
  <2>2. ASSUME NEW j \in Whole'
        PROVE  LET l == cache[j].list
               IN /\ \A p \in new[l] \ EntriesIn(l, records) : p[2] \in updated
                  /\ \A p \in EntriesIn(l, records) \ new[l] : <<l, p[2]>> \in missed'
    <3>1. cache[j].list # list
      BY <1>8 DEF Sound, Linked, OneSlot, Whole
    <3>2. \A x : <<cache[j].list, x>> \in missed => <<cache[j].list, x>> \in missed'
      BY <1>1, <3>1, MissesKept
    <3>3. QED
      BY <2>1, <3>2 DEF Sound, Holds, Finds
  <2>3. QED
    BY <1>1, <2>2, Committed DEF Holds, Finds
<1>13. QED
  BY <1>9, <1>10, <1>11, <1>12 DEF Sound

LEMMA DeleteIndexFailsSound ==
  ASSUME Sound, NEW i \in Used \ freed, IndexDeleteFails(i)
  PROVE  Sound'
<1> DEFINE tree == Tree(i)
           list == cache[i].list
<1>1. /\ schema = Idle /\ tree # Free /\ UNCHANGED <<data, sequence, updated, missed>>
      /\ handles' = [handles EXCEPT ![cache[i].dbi] = Free]
      /\ broken' = broken \cup {tree, list} /\ failures' \in 0 .. MaxFailures
      /\ UNCHANGED <<system, cache, freed, schema>>
  BY BoundsAssumption DEF IndexDeleteFails, SchemaFails, Sound, CacheTyped
<1>2. list \in Lists /\ tree \in Lists /\ cache[i].dbi \in DOMAIN handles
  BY <1>1, SlotTyped
<1>3. Used' = Used /\ ~Building /\ ~Building' /\ \A j : ~Uncaching(j) /\ ~Uncaching(j)'
  BY <1>1 DEF Used, Building, Uncaching, Idle
<1>4. /\ handles' \in Seq(Lists \cup {Free}) /\ DOMAIN handles' = DOMAIN handles
      /\ handles'[cache[i].dbi] = Free
      /\ \A n \in DOMAIN handles : n # cache[i].dbi => handles'[n] = handles[n]
  BY <1>1, <1>2 DEF Sound, CacheTyped
<1>5. Whole' = {j \in Whole : cache[j].list \notin {tree, list}}
  BY <1>1, <1>3 DEF Whole
<1>6. ASSUME NEW j \in Whole'
      PROVE  /\ j \in Whole /\ cache[j].dbi # cache[i].dbi /\ Tree(j) = cache[j].list
             /\ cache[j].list \in DOMAIN entries /\ ~Shared(cache[j].dbi, j)
             /\ cache[j].dbi \in DOMAIN handles
  BY <1>5, OthersApart, SlotTyped DEF Sound, Linked, HandlesAreOwn, Whole
<1>7. DataTyped' /\ CacheTyped'
  <2>1. DataTyped'
    BY <1>1 DEF Sound, DataTyped, data
  <2>2. CacheTyped'
    BY <1>1, <1>2, <1>3, <1>4 DEF Sound, CacheTyped
  <2>3. QED
    BY <2>1, <2>2
<1>8. Linked'
  <2>1. OneHandle' /\ OpenTrees'
    BY <1>1, <1>4 DEF Sound, Linked, OneHandle, OpenTrees, data
  <2>2. OneSlot' /\ InSystem'
    BY <1>1, <1>3 DEF Sound, Linked, OneSlot, InSystem
  <2>3. Cached'
    BY <1>1, <1>5 DEF Sound, Linked, Cached, data
  <2>4. HandlesAreOwn'
    <3>1. \A j \in Whole' : Tree(j)' = cache'[j].list
      BY <1>1, <1>4, <1>6 DEF Tree
    <3>2. \A j \in Whole' : ~Shared(cache[j].dbi, j)'
      BY <1>1, <1>3, <1>6 DEF Shared
    <3>3. QED
      BY <1>1, <1>6, <3>1, <3>2 DEF HandlesAreOwn, data
  <2>5. BuildsOwn'
    BY <1>3 DEF BuildsOwn
  <2>6. QED
    BY <2>1, <2>2, <2>3, <2>4, <2>5 DEF Linked
<1>9. Holds(records, entries)' /\ Holds(committed.records, committed.entries)'
  BY <1>1, <1>3, <1>5 DEF Sound, Holds, Finds, Built, data
<1>10. QED
  BY <1>7, <1>8, <1>9 DEF Sound

LEMMA ClearSound ==
  ASSUME Sound, NEW i \in Used \ freed, IndexClear(i)
  PROVE  Sound'
<1> DEFINE list == cache[i].list
           new == [entries EXCEPT ![list] = {}]
<1>1. list \in Lists /\ list # Free /\ Tree(i) = list /\ list \in DOMAIN entries
  <2>1. list \in Lists /\ list # Free /\ Tree(i) = list /\ cache[i].dbi \in DOMAIN handles
    BY SlotTyped DEF IndexClear
  <2>2. QED
    BY <2>1 DEF Tree, Sound, Linked, OpenTrees
<1>2. SchemaCommits(new)
  <2>1. With(Tree(i), {}) = new
    BY <1>1 DEF With
  <2>2. QED
    BY <2>1 DEF IndexClear
<1>3. /\ schema = Idle /\ schema' = [step |-> "rebuild", slot |-> i]
      /\ broken' = IF Shared(cache[i].dbi, i) THEN broken ELSE broken \ {list}
      /\ missed' = Misses(list, {}) /\ UNCHANGED <<system, cache, freed, handles, failures>>
  BY DEF IndexClear
<1>4. /\ Used' = Used /\ ~Building /\ Building' /\ \A j : ~Uncaching(j) /\ ~Uncaching(j)'
      /\ \A j : Built(j) /\ (Built(j)' <=> j # i)
  BY <1>3 DEF Used, Building, Uncaching, Idle, Built
<1>5. Whole' = Whole \cup (IF list \in broken' THEN {} ELSE {i})
  <2>1. \A j \in Used \ freed : j # i => cache[j].list # list
    BY DEF Sound, Linked, OneSlot
  <2>2. QED
    BY <1>3, <1>4, <2>1 DEF Whole
<1>6. /\ DOMAIN new = DOMAIN entries /\ new[list] = {}
      /\ \A l \in DOMAIN new : l # list => new[l] = entries[l]
  BY <1>1
<1>7. DataTyped'
  <2>1. missed' \subseteq Lists \X (1 .. MaxId)
    BY <1>1, <1>3, MissesTyped DEF Sound, DataTyped
  <2>2. QED
    BY <1>2, <1>6, <2>1, Committed DEF Sound, DataTyped
<1>8. CacheTyped'
  <2>1. i \in Nat
    BY SlotTyped
  <2>2. QED
    BY <1>3, <1>4, <2>1 DEF Sound, CacheTyped, Idle
<1>9. ASSUME NEW j \in Whole'
      PROVE  /\ Tree(j) = cache[j].list /\ ~Shared(cache[j].dbi, j)
             /\ cache[j].list \in DOMAIN entries
  <2>1. CASE j \in Whole
    BY <2>1 DEF Sound, Linked, HandlesAreOwn
  <2>2. CASE j = i /\ list \notin broken'
    <3>1. CASE Shared(cache[i].dbi, i)
      BY <1>3, <1>4, <2>2, <3>1 DEF Whole, Sound, Linked, HandlesAreOwn
    <3>2. CASE ~Shared(cache[i].dbi, i)
      BY <1>1, <2>2, <3>2
    <3>3. QED
      BY <3>1, <3>2
  <2>3. QED
    BY <1>5, <2>1, <2>2
<1>10. Linked'
  <2>1. OneHandle' /\ OpenTrees' /\ OneSlot' /\ InSystem'
    BY <1>2, <1>3, <1>4, <1>6, Committed DEF Sound, Linked, OneHandle, OpenTrees, OneSlot, InSystem
  <2>2. Cached'
    BY <1>2, <1>3, <1>5, <1>6, Committed DEF Sound, Linked, Cached
  <2>3. HandlesAreOwn'
    BY <1>2, <1>3, <1>4, <1>6, <1>9, Committed DEF HandlesAreOwn, Tree, Shared
  <2>4. BuildsOwn'
    BY <1>1, <1>3 DEF BuildsOwn, Tree
  <2>5. QED
    BY <2>1, <2>2, <2>3, <2>4 DEF Linked
<1>11. ASSUME NEW j \in Whole'
       PROVE  LET l == cache[j].list
              IN /\ \A p \in new[l] \ EntriesIn(l, records) : p[2] \in updated
                 /\ Built(j)' => \A p \in EntriesIn(l, records) \ new[l] : <<l, p[2]>> \in missed'
  <2>1. CASE j = i
    BY <1>4, <1>6, <2>1
  <2>2. CASE j # i
    <3>1. j \in Whole /\ cache[j].list # list
      BY <1>5, <2>2 DEF Sound, Linked, OneSlot, Whole
    <3>2. new[cache[j].list] = entries[cache[j].list]
      BY <1>6, <1>9, <3>1
    <3>3. \A x : <<cache[j].list, x>> \in missed => <<cache[j].list, x>> \in missed'
      BY <1>3, <3>1, MissesKept
    <3>4. QED
      BY <1>4, <3>1, <3>2, <3>3 DEF Sound, Holds, Finds
  <2>3. QED
    BY <2>1, <2>2
<1>12. Holds(records, entries)' /\ Holds(committed.records, committed.entries)'
  BY <1>2, <1>3, <1>11, Committed DEF Holds, Finds
<1>13. QED
  BY <1>7, <1>8, <1>10, <1>12 DEF Sound

(* The searches at opening.  A set of ids is bounded, so one that is not   *)
(* empty has a largest one.                                                *)
LEMMA LargestOf ==
  ASSUME NEW S \in SUBSET Nat, S # {}, NEW b \in Nat, \A n \in S : n <= b
  PROVE  Max(S) \in S
<1> DEFINE Bounds == {k \in Nat : \A n \in S : n <= k}
<1>1. PICK m \in Bounds : \A k \in Bounds : m <= k
  <2>1. Bounds \in SUBSET Nat /\ b \in Bounds
    OBVIOUS
  <2>2. PICK m \in Bounds : \A k \in Bounds : <<k, m>> \notin OpToRel(<, Nat)
    BY <2>1, WFMin, NatLessThanWellFounded, Zenon
  <2>3. \A k \in Bounds : ~(k < m)
    BY <2>1, <2>2, Zenon DEF OpToRel
  <2>4. QED
    BY <2>3
<1>2. m \in S
  <2>1. SUFFICES ASSUME m \notin S PROVE FALSE
    OBVIOUS
  <2>2. m \in Nat /\ \A n \in S : n < m
    BY <2>1
  <2>3. m > 0 /\ m - 1 \in Nat
    <3>1. PICK n \in S : TRUE
      OBVIOUS
    <3>2. n \in Nat /\ n < m
      BY <2>2, <3>1
    <3>3. QED
      BY <2>2, <3>2
  <2>4. m - 1 \in Bounds
    BY <2>2, <2>3
  <2>5. QED
    BY <1>1, <2>2, <2>4
<1>3. m \in S /\ \A n \in S : m >= n
  BY <1>2
<1>4. QED
  BY <1>3 DEF Max

(* An id of the type holds the element that it was made of.                *)
LEMMA OwnId ==
  ASSUME NEW element \in 1 .. MaxId
  PROVE  /\ AddType(element, Type) \in Nat /\ AddType(element, Type) < IdCount
         /\ ElementOf(AddType(element, Type)) = element /\ TypeOf(AddType(element, Type)) = Type
<1>1. TypeCount \in Nat \ {0, 1} /\ ElementCount \in Nat \ {0, 1}
  BY CountsAssumption
<1>2. Type \in 1 .. TypeCount - 1 /\ element \in 0 .. ElementCount - 1
  BY <1>1, TypesAssumption, BoundsAssumption DEF TypeId
<1>3. element * TypeCount \in Nat /\ TypeCount * ElementCount \in Nat
  BY <1>1, <1>2
<1>4. element * TypeCount + TypeCount <= TypeCount * ElementCount
  <2>1. (element + 1) * TypeCount <= ElementCount * TypeCount
    BY <1>1, <1>2
  <2>2. (element + 1) * TypeCount = element * TypeCount + TypeCount
    BY <1>1, <1>2
  <2>3. QED
    BY <1>1, <1>2, <2>1, <2>2
<1>5. (element * TypeCount) % (TypeCount * ElementCount) = element * TypeCount
  BY <1>1, <1>3, <1>4
<1>6. Type % TypeCount = Type
  BY <1>1, <1>2
<1>7. AddType(element, Type) = element * TypeCount + Type
  BY <1>5, <1>6 DEF AddType, IdCount
<1>8. /\ (element * TypeCount + Type) \div TypeCount = element
      /\ (element * TypeCount + Type) % TypeCount = Type
  BY <1>1, <1>2
<1>9. QED
  BY <1>1, <1>2, <1>3, <1>4, <1>7, <1>8 DEF ElementOf, TypeOf, IdCount

(* The last id of the type is one of its own.                              *)
LEMMA LastIsOwn ==
  ASSUME NEW elements \in SUBSET (1 .. MaxId), NEW others \in SUBSET OtherIds,
         LastId(IdsOf(elements) \cup others, Type) # NotFound
  PROVE  \/ LastId(IdsOf(elements) \cup others, Type) = 0
         \/ \E element \in elements :
              LastId(IdsOf(elements) \cup others, Type) = AddType(element, Type)
<1> DEFINE ids == IdsOf(elements) \cup others
<1>1. ids \in SUBSET Nat /\ IdCount \in Nat /\ \A id \in ids : id <= IdCount
  <2>1. IdCount \in Nat
    BY CountsAssumption DEF IdCount
  <2>2. \A id \in others : id \in Nat /\ id <= IdCount
    BY <2>1, TypesAssumption DEF Id
  <2>3. \A id \in IdsOf(elements) : id \in Nat /\ id <= IdCount
    <3>1. SUFFICES ASSUME NEW element \in elements
                   PROVE  AddType(element, Type) \in Nat /\ AddType(element, Type) <= IdCount
      BY DEF IdsOf
    <3>2. QED
      BY <2>1, OwnId
  <2>4. QED
    BY <2>1, <2>2, <2>3
<1>2. \A id \in ids : TypeOf(id) = Type => \E element \in elements : id = AddType(element, Type)
  BY TypesAssumption DEF IdsOf
<1>3. \A S \in SUBSET ids : S # {} => Max(S) \in ids
  <2>1. SUFFICES ASSUME NEW S \in SUBSET ids, S # {}
                 PROVE  Max(S) \in S
    OBVIOUS
  <2>2. S \in SUBSET Nat /\ \A n \in S : n <= IdCount
    BY <1>1
  <2>3. QED
    BY <1>1, <2>1, <2>2, LargestOf
<1> DEFINE next == FirstId(ids, 1 + Type)
           before == {id \in ids : id < next}
<1>4. \/ LastId(ids, Type) = 0
      \/ LastId(ids, Type) = Max(ids) /\ ids # {} /\ TypeOf(Max(ids)) = Type
      \/ LastId(ids, Type) = Max(before) /\ before # {} /\ TypeOf(Max(before)) = Type
  BY DEF LastId
<1>5. before \in SUBSET ids /\ ids \in SUBSET ids
  OBVIOUS
<1> HIDE DEF ids, before
<1>6. \/ LastId(ids, Type) = 0
      \/ \E element \in elements : LastId(ids, Type) = AddType(element, Type)
  BY <1>2, <1>3, <1>4, <1>5
<1>7. QED
  BY <1>6 DEF ids

LEMMA OpenedTyped ==
  ASSUME NEW elements \in SUBSET (1 .. MaxId), NEW others \in SUBSET OtherIds,
         LastId(IdsOf(elements) \cup others, Type) # NotFound
  PROVE  OpenedSequence(IdsOf(elements) \cup others, Type) \in 1 .. MaxId + 1
<1> DEFINE last == LastId(IdsOf(elements) \cup others, Type)
<1>1. TypeCount \in Nat \ {0, 1} /\ ElementCount \in Nat \ {0, 1}
      /\ MaxId \in Nat /\ MaxId < ElementCount
  BY CountsAssumption, BoundsAssumption
<1>2. MaxId < ElementLimit
  <2>1. ElementLimit = TypeCount * (ElementCount - 1)
    BY <1>1 DEF ElementLimit, IdCount
  <2>2. 2 * (ElementCount - 1) <= TypeCount * (ElementCount - 1)
    BY <1>1
  <2>3. TypeCount * (ElementCount - 1) \in Nat
    BY <1>1
  <2>4. QED
    BY <1>1, <2>1, <2>2, <2>3
<1>3. ElementOf(last) \in 0 .. MaxId
  <2>1. CASE last = 0
    BY <1>1, <2>1 DEF ElementOf
  <2>2. ASSUME NEW element \in elements, last = AddType(element, Type)
        PROVE  ElementOf(last) \in 0 .. MaxId
    BY <1>1, <2>2, OwnId
  <2>3. QED
    BY <2>1, <2>2, LastIsOwn
<1> HIDE DEF last
<1>4. ElementLimit \in Nat
  BY <1>1 DEF ElementLimit, IdCount
<1>5. OpenedSequence(IdsOf(elements) \cup others, Type) = 1 + ElementOf(last)
  BY <1>1, <1>2, <1>3, <1>4 DEF OpenedSequence, last
<1>6. QED
  BY <1>1, <1>3, <1>5

LEMMA ReopenSound ==
  ASSUME Sound, NEW others \in SUBSET OtherIds, Reopen(others)
  PROVE  Sound'
<1>1. Used' = {} /\ Whole' = {} /\ ~Building' /\ freed' = {} /\ handles' = <<>>
  BY DEF Reopen, Used, Whole, Building, Idle
<1>2. DataTyped'
  <2>1. sequence' \in 1 .. MaxId + 1
    BY OpenedTyped DEF Reopen, Sound, DataTyped
  <2>2. QED
    BY <2>1, BoundsAssumption DEF Sound, DataTyped, Reopen, RollBack
<1>3. CacheTyped'
  BY <1>1 DEF Sound, CacheTyped, DataTyped, Reopen, Idle
<1>4. Linked'
  BY <1>1 DEF Linked, OneHandle, OpenTrees, OneSlot, InSystem, Cached, BuildsOwn, HandlesAreOwn,
              Reopen, RollBack
<1>5. Holds(records, entries)' /\ Holds(committed.records, committed.entries)'
  BY <1>1 DEF Holds
<1>6. QED
  BY <1>2, <1>3, <1>4, <1>5 DEF Sound
-----------------------------------------------------------------------------
THEOREM Soundness == Spec => []Sound
<1>1. Sound /\ [Next]_vars => Sound'
  <2> SUFFICES ASSUME Sound, [Next]_vars
               PROVE  Sound'
    OBVIOUS
  <2>1. CASE SchemaNext
    BY <2>1, CreateIndexSound, CreateIndexFailsSound, DeleteIndexSound, DeleteIndexFailsSound,
       ClearSound, BuildSound, BuildFailsSound, UncacheSound DEF SchemaNext
  <2>2. CASE UNCHANGED vars
    <3>1. sequence <= 1 + MaxId
      BY BoundsAssumption DEF Sound, DataTyped
    <3>2. QED
      BY <2>2, <3>1, EndSound DEF vars, data, UnchangedIndices
  <2>3. QED
    BY <2>1, <2>2, WriteNextSound, ReopenSound DEF Next
<1>2. QED
  BY <1>1, SoundInit, PTL DEF Spec

(* Every record is found through every index that can be relied on, but    *)
(* for those that the building of that index did not come to.              *)
THEOREM IndicesAreComplete == Spec => []EntriesComplete
<1>1. Sound => EntriesComplete
  BY DEF Sound, Holds, Finds, EntriesComplete, Ready, Built, EntriesIn, EntriesFor, EntriesOf
<1>2. QED
  BY <1>1, Soundness, PTL

(* With records of one type alone, the building of an index comes to all.  *)
LEMMA AllScanned ==
  ASSUME DOMAIN records \subseteq 1 .. MaxId
  PROVE  Scanned({}) = DOMAIN records
<1> DEFINE ids == IdsOf(DOMAIN records) \cup {}
<1>1. TypeCount \in Nat \ {0, 1} /\ Type \in 1 .. TypeCount - 1
  BY CountsAssumption, TypesAssumption DEF TypeId
<1>2. \A id \in DOMAIN records : AddType(id, Type) \in Nat /\ AddType(id, Type) \in ids
                               /\ TypeOf(AddType(id, Type)) = Type
  BY OwnId DEF IdsOf
<1>3. AddType(0, Type) = Type
  <2>1. IdCount \in Nat \ {0}
    BY CountsAssumption DEF IdCount
  <2>2. (0 * TypeCount) % IdCount = 0 /\ Type % TypeCount = Type
    BY <1>1, <2>1
  <2>3. QED
    BY <1>1, <2>2 DEF AddType
<1>4. \A id \in Nat : TypeOf(id) = Type => Type <= id
  BY <1>1 DEF TypeOf
<1>5. \A id \in ids : TypeOf(id) = Type /\ AddType(0, Type) <= id
  <2>1. \A id \in ids : id \in Nat /\ TypeOf(id) = Type
    BY <1>2 DEF IdsOf
  <2>2. QED
    BY <1>3, <1>4, <2>1
<1>6. Run(ids, Type) = ids
  BY <1>5 DEF Run, RunFrom, From
<1> HIDE DEF ids
<1>7. \A id \in DOMAIN records : AddType(id, Type) \in Run(ids, Type)
  BY <1>2, <1>6
<1>8. QED
  BY <1>7 DEF Scanned, ids

NoneMissed == missed = {}

LEMMA NoneStaysMissed ==
  ASSUME OneType, Sound, NoneMissed, [Next]_vars
  PROVE  NoneMissed'
<1> USE DEF NoneMissed
<1>1. \A list : Misses(list, {}) = {}
  BY DEF Misses
<1>2. ASSUME NEW others \in SUBSET OtherIds, IndexBuild(others)
      PROVE  missed' = {}
  <2>1. others = {}
    BY DEF OneType
  <2>2. DOMAIN records \ Scanned(others) = {}
    BY <2>1, AllScanned DEF Sound, DataTyped
  <2>3. QED
    BY <1>1, <1>2, <2>2 DEF IndexBuild
<1>3. CASE WriteNext
  BY <1>3 DEF WriteNext, Create, Update, Delete, WriteFails, Commit, Abort, UnchangedIndices
<1>4. CASE SchemaNext
  BY <1>1, <1>2, <1>4 DEF SchemaNext, IndexCreate, IndexCreateFails, IndexDelete,
                          IndexDeleteFails, IndexClear, IndexBuildFails, IndexUncache
<1>5. ASSUME NEW others, Reopen(others)
      PROVE  missed' = {}
  BY <1>5 DEF Reopen
<1>6. CASE UNCHANGED vars
  BY <1>6 DEF vars
<1>7. QED
  BY <1>3, <1>4, <1>5, <1>6 DEF Next

(* So every record is found through every index that can be relied on.     *)
THEOREM OneTypeIsFound == OneType => (Spec => []EveryRecordIsFound)
<1> SUFFICES ASSUME OneType
             PROVE  Spec => []EveryRecordIsFound
  OBVIOUS
<1>1. Init => NoneMissed
  BY DEF Init, NoneMissed
<1>2. Sound /\ NoneMissed => EveryRecordIsFound
  BY DEF NoneMissed, Sound, Holds, Finds, EveryRecordIsFound, Ready, Built, EntriesIn, EntriesFor, EntriesOf
<1>3. QED
  BY <1>1, <1>2, NoneStaysMissed, Soundness, PTL DEF Spec

(* Nothing else is found, but for values that updates have replaced.       *)
THEOREM IndicesAreSound == Spec => []EntriesSound
<1>1. Sound => EntriesSound
  BY DEF Sound, Holds, EntriesSound, Ready, EntriesIn, EntriesFor, EntriesOf
<1>2. QED
  BY <1>1, Soundness, PTL

(* The cache and the system tree hold the same indices, each once.         *)
THEOREM IndicesAreCached == Spec => []CacheMatchesSystem
<1>1. Sound => CacheMatchesSystem
  BY DEF Sound, Linked, OneSlot, InSystem, Cached, CacheMatchesSystem, Whole
<1>2. QED
  BY <1>1, Soundness, PTL

(* An index has the handle of its tree for itself.                         *)
THEOREM IndicesOwnHandles == Spec => []HandlesAreOwn
<1>1. Sound => HandlesAreOwn
  BY DEF Sound, Linked
<1>2. QED
  BY <1>1, Soundness, PTL
-----------------------------------------------------------------------------
(* The cache does not grow beyond the indices there can be and the slots   *)
(* that failures have left behind.                                         *)

FewSlots == /\ Len(cache) <= Cardinality(Lists) + failures
            /\ Cardinality(freed) <= failures

LEMMA Interval ==
  ASSUME NEW n \in Nat
  PROVE  IsFiniteSet(1 .. n) /\ Cardinality(1 .. n) = n
<1>1. IsFiniteSet(1 .. n) /\ Cardinality(1 .. n) = IF 1 > n THEN 0 ELSE n - 1 + 1
  BY FS_Interval
<1>2. (IF 1 > n THEN 0 ELSE n - 1 + 1) = n
  OBVIOUS
<1>3. QED
  BY <1>1, <1>2

LEMMA Parts ==
  ASSUME NEW U, IsFiniteSet(U), NEW A \in SUBSET U
  PROVE  /\ Cardinality(A) \in Nat /\ Cardinality(U \ A) \in Nat
         /\ Cardinality(U) = Cardinality(A) + Cardinality(U \ A)
         /\ IsFiniteSet(A) /\ IsFiniteSet(U \ A)
<1>1. IsFiniteSet(A) /\ IsFiniteSet(U \ A)
  BY FS_Subset
<1>2. Cardinality(A) \in Nat /\ Cardinality(U \ A) \in Nat
  BY <1>1, FS_CardinalityType
<1>3. A \cup (U \ A) = U /\ A \cap (U \ A) = {}
  OBVIOUS
<1>4. Cardinality(A \cup (U \ A))
        = Cardinality(A) + Cardinality(U \ A) - Cardinality(A \cap (U \ A))
  BY <1>1, FS_Union
<1>5. Cardinality(A \cap (U \ A)) = 0
  BY <1>3, FS_EmptySet
<1>6. QED
  BY <1>1, <1>2, <1>3, <1>4, <1>5

LEMMA OneMore ==
  ASSUME NEW S, IsFiniteSet(S), NEW x
  PROVE  /\ Cardinality(S) \in Nat /\ Cardinality(S \cup {x}) \in Nat
         /\ Cardinality(S \cup {x}) <= Cardinality(S) + 1
<1>1. Cardinality(S) \in Nat
  BY FS_CardinalityType
<1>2. Cardinality(S \cup {x}) = IF x \in S THEN Cardinality(S) ELSE Cardinality(S) + 1
  BY FS_AddElement
<1>3. QED
  BY <1>1, <1>2

(* When there is no free slot, the slots that are in use have different    *)
(* lists, of which the new one is not one.                                 *)
LEMMA RoomForSlot ==
  ASSUME Sound, FewSlots, IsFiniteSet(Lists), NEW list \in Lists, IndexGet(list) = {},
         schema = Idle, NEW slot \in FirstFree(cache, NoIndex), NEW dbi \in Opened(list)
  PROVE  slot <= Cardinality(Lists) + failures
<1> DEFINE live == Used \ freed
           list_of == [i \in live |-> cache[i].list]
<1>1. Len(cache) \in Nat /\ failures \in Nat /\ slot \in 1 .. 1 + Len(cache)
      /\ Cardinality(Lists) \in Nat
  BY PlaceTaken, FS_CardinalityType, BoundsAssumption DEF Sound, CacheTyped
<1>2. CASE slot <= Len(cache)
  BY <1>1, <1>2 DEF FewSlots
<1>3. CASE slot = 1 + Len(cache)
  <2>1. Used = 1 .. Len(cache) /\ freed \subseteq Used
    BY <1>3 DEF FirstFree, Used, Sound, CacheTyped
  <2>2. IsFiniteSet(Used) /\ Cardinality(Used) = Len(cache)
    BY <1>1, <2>1, Interval
  <2>3. IsFiniteSet(live) /\ Cardinality(live) \in Nat /\ Cardinality(freed) \in Nat
    BY <2>1, <2>2, Parts
  <2>4. Cardinality(Used) = Cardinality(freed) + Cardinality(live)
    BY <2>1, <2>2, Parts
  <2>5. IsFiniteSet(Lists \ {list}) /\ Cardinality(Lists \ {list}) = Cardinality(Lists) - 1
    BY FS_RemoveElement
  <2>6. list_of \in [live -> Lists \ {list}]
    BY <1>1, PlaceTaken, SlotTyped
  <2>7. Cardinality(live) <= Cardinality(Lists) - 1
    <3>1. \A i, j \in live : list_of[i] = list_of[j] => i = j
      BY DEF Sound, Linked, OneSlot
    <3>2. ~(Cardinality(Lists \ {list}) < Cardinality(live))
      BY <2>3, <2>5, <2>6, <3>1, FS_PigeonHole
    <3>3. QED
      BY <1>1, <2>3, <2>5, <3>2
  <2>8. Cardinality(freed) <= failures
    BY DEF FewSlots
  <2>9. QED
    BY <1>1, <1>3, <2>2, <2>3, <2>4, <2>7, <2>8
<1>4. QED
  BY <1>1, <1>2, <1>3

LEMMA SlotsStayFew ==
  ASSUME IsFiniteSet(Lists), Sound, FewSlots, [Next]_vars
  PROVE  FewSlots'
<1>1. failures \in Nat /\ Len(cache) \in Nat /\ Cardinality(Lists) \in Nat
  BY FS_CardinalityType, BoundsAssumption DEF Sound, CacheTyped
<1>2. IsFiniteSet(freed)
  <2>1. freed \subseteq 1 .. Len(cache)
    BY DEF Sound, CacheTyped, Used
  <2>2. QED
    BY <1>1, <2>1, Interval, FS_Subset
<1>3. /\ Cardinality(freed) \in Nat
      /\ \A i : /\ Cardinality(freed \cup {i}) <= Cardinality(freed) + 1
               /\ Cardinality(freed \cup {i}) \in Nat
  BY <1>2, OneMore
<1>4. CASE UNCHANGED <<cache, freed, failures>>
  BY <1>4 DEF FewSlots
<1>5. ASSUME NEW list \in Lists, NEW slot \in FirstFree(cache, NoIndex), NEW dbi \in Opened(list),
             IndexCreate(list, slot, dbi) \/ IndexCreateFails(list, slot, dbi)
      PROVE  FewSlots'
  <2> DEFINE index == [list |-> list, dbi |-> dbi]
  <2>1. schema = Idle /\ IndexGet(list) = {} /\ cache' = Placed(cache, slot, index)
    BY <1>5 DEF IndexCreate, IndexCreateFails
  <2>2. slot \in 1 .. 1 + Len(cache) /\ slot <= Cardinality(Lists) + failures
    BY <2>1, PlaceTaken, RoomForSlot
  <2>3. index \in Slots
    BY <2>1, PlaceTaken DEF Slots
  <2>4. cache' \in Seq(Slots) /\ DOMAIN cache' = DOMAIN cache \cup {slot}
    BY <2>1, <2>2, <2>3, CachePlaced DEF Sound, CacheTyped
  <2>5. Len(cache') <= Cardinality(Lists) + failures
    <3>1. Len(cache') \in {Len(cache), slot}
      BY <2>2, <2>4 DEF Sound, CacheTyped
    <3>2. QED
      BY <2>2, <3>1 DEF FewSlots
  <2>6. CASE IndexCreate(list, slot, dbi)
    BY <2>5, <2>6 DEF IndexCreate, FewSlots
  <2>7. CASE IndexCreateFails(list, slot, dbi)
    <3>1. freed' = freed \cup {slot} /\ failures' = 1 + failures
      BY <2>7 DEF IndexCreateFails, SchemaFails
    <3>2. Len(cache') \in Nat
      BY <2>4
    <3>3. Cardinality(freed') <= Cardinality(freed) + 1 /\ Cardinality(freed') \in Nat
      BY <1>3, <3>1
    <3>4. QED
      BY <1>1, <1>3, <2>5, <3>1, <3>2, <3>3 DEF FewSlots
  <2>8. QED
    BY <1>5, <2>6, <2>7
<1>6. CASE IndexBuildFails
  <2>1. /\ failures' = 1 + failures /\ cache' = cache
        /\ freed' \in {freed, freed \cup {schema.slot}}
    BY <1>6 DEF IndexBuildFails, SchemaFails
  <2>2. Cardinality(freed') <= Cardinality(freed) + 1 /\ Cardinality(freed') \in Nat
    <3>1. CASE freed' = freed
      BY <1>3, <3>1
    <3>2. CASE freed' = freed \cup {schema.slot}
      BY <1>3, <3>2
    <3>3. QED
      BY <2>1, <3>1, <3>2
  <2>3. QED
    BY <1>1, <1>3, <2>1, <2>2 DEF FewSlots
<1>7. CASE IndexUncache
  BY <1>7 DEF IndexUncache, FewSlots, Sound, CacheTyped
<1>8. ASSUME NEW others, Reopen(others)
      PROVE  FewSlots'
  BY <1>1, <1>8, FS_EmptySet DEF Reopen, FewSlots
<1>9. ASSUME NEW i, IndexDelete(i) \/ IndexDeleteFails(i) \/ IndexClear(i)
      PROVE  FewSlots'
  <2>1. UNCHANGED <<cache, freed>> /\ failures' \in {failures, 1 + failures}
    BY <1>9 DEF IndexDelete, IndexDeleteFails, IndexClear, SchemaFails
  <2>2. QED
    BY <1>1, <1>3, <2>1 DEF FewSlots
<1>10. CASE WriteNext
  BY <1>4, <1>10 DEF WriteNext, Create, Update, Delete, WriteFails, Commit, Abort, UnchangedIndices
<1>11. ASSUME NEW others, IndexBuild(others)
       PROVE  FewSlots'
  BY <1>4, <1>11 DEF IndexBuild
<1>12. CASE SchemaNext
  BY <1>5, <1>6, <1>7, <1>9, <1>11, <1>12 DEF SchemaNext
<1>13. QED
  BY <1>4, <1>8, <1>10, <1>12 DEF Next, vars

(* The types, and that the slots of deleted indices are used again.        *)
THEOREM IndicesTyped == IsFiniteSet(Lists) => (Spec => []TypeOK)
<1> SUFFICES ASSUME IsFiniteSet(Lists)
             PROVE  Spec => []TypeOK
  OBVIOUS
<1>1. Init => FewSlots
  BY FS_EmptySet, FS_CardinalityType DEF Init, FewSlots
<1>2. Sound /\ FewSlots => TypeOK
  BY DEF Sound, DataTyped, CacheTyped, FewSlots, TypeOK
<1>3. QED
  BY <1>1, <1>2, SlotsStayFew, Soundness, PTL DEF Spec
-----------------------------------------------------------------------------
(* The refinement: published indices and records as IndexedRecords has     *)
(* them.                                                                   *)

(* A published index has a slot, which nothing has gone wrong with, and a  *)
(* tree.                                                                   *)
LEMMA ReadySlot ==
  ASSUME Sound, NEW list \in Ready
  PROVE  /\ list \in DOMAIN entries /\ list \in DOMAIN committed.entries
         /\ \E i \in Whole : Built(i) /\ cache[i].list = list /\ Tree(i) = list
BY DEF Ready, Built, Sound, DataTyped, Linked, HandlesAreOwn

LEMMA PublishedReady == Published \subseteq Ready
BY DEF Published

(* While the indices stay as they are, so do those that are published.     *)
LEMMA PublishedKept ==
  ASSUME Sound, SameIndices
  PROVE  Published' = Published
<1>1. Whole' = Whole /\ \A i \in Whole : Built(i)' = Built(i)
  BY LinksKept DEF Sound
<1>2. Ready' = Ready /\ missed' = missed
  BY <1>1 DEF Ready, Built, SameIndices, UnchangedIndices
<1>3. QED
  BY <1>2 DEF Published

LEMMA StoreInit == Init => Store!Init
<1> SUFFICES ASSUME Init PROVE Store!Init
  OBVIOUS
<1>1. Published = {}
  BY DEF Init, Published, Ready, Whole, Used
<1>2. \A all : PublishedEntries(all) = <<>>
  BY <1>1 DEF PublishedEntries
<1>3. QED
  BY <1>2 DEF Init, Store!Init

LEMMA CreateIsWrite ==
  ASSUME Sound, NEW slots, NEW values \in Values, Create(slots, values)
  PROVE  Store!Write(sequence, values)
<1> USE DEF Create, Writes
<1>1. SameIndices
  BY DEF Ensured, SameIndices
<1>2. Published' = Published
  BY <1>1, PublishedKept
<1>3. updated' = IF sequence \in DOMAIN records THEN updated \cup {sequence} ELSE updated
  OBVIOUS
<1>4. \A list \in Published : entries'[list] = entries[list] \cup {<<Key(list, values), sequence>>}
  BY PublishedReady, ReadySlot, WrittenOnce DEF Ensured, Sound
<1>5. PublishedEntries(entries)' = [list \in DOMAIN PublishedEntries(entries) |->
         PublishedEntries(entries)[list] \cup {<<Key(list, values), sequence>>}]
  BY <1>2, <1>4 DEF PublishedEntries
<1>6. PublishedEntries(committed.entries)' = PublishedEntries(committed.entries)
  BY <1>2 DEF PublishedEntries
<1>7. QED
  BY <1>3, <1>5, <1>6 DEF Store!Write, Store!Key, Key

LEMMA UpdateIsWrite ==
  ASSUME Sound, NEW slots, NEW id \in DOMAIN records, NEW values \in Values,
         Update(slots, id, values)
  PROVE  Store!Write(id, values)
<1> USE DEF Update, Writes
<1>1. SameIndices
  BY DEF Ensured, SameIndices
<1>2. Published' = Published
  BY <1>1, PublishedKept
<1>3. records' = [i \in DOMAIN records \cup {id} |-> IF i = id THEN values ELSE records[i]]
  OBVIOUS
<1>4. \A list \in Published : entries'[list] = entries[list] \cup {<<Key(list, values), id>>}
  BY PublishedReady, ReadySlot, WrittenOnce DEF Ensured, Sound
<1>5. PublishedEntries(entries)' = [list \in DOMAIN PublishedEntries(entries) |->
         PublishedEntries(entries)[list] \cup {<<Key(list, values), id>>}]
  BY <1>2, <1>4 DEF PublishedEntries
<1>6. PublishedEntries(committed.entries)' = PublishedEntries(committed.entries)
  BY <1>2 DEF PublishedEntries
<1>7. QED
  BY <1>3, <1>5, <1>6 DEF Store!Write, Store!Key, Key

LEMMA DeleteIsDelete ==
  ASSUME Sound, NEW slots, NEW id \in DOMAIN records, Delete(slots, id)
  PROVE  Store!Delete(id)
<1> USE DEF Delete, Writes
<1>1. SameIndices
  BY DEF SameIndices
<1>2. Published' = Published
  BY <1>1, PublishedKept
<1>3. \A list \in Published :
         entries'[list] = entries[list] \ {<<Key(list, records[id]), id>>}
  BY PublishedReady, ReadySlot, WrittenOnce DEF Sound
<1>4. PublishedEntries(entries)' = [list \in DOMAIN PublishedEntries(entries) |->
         PublishedEntries(entries)[list] \ {<<Key(list, records[id]), id>>}]
  BY <1>2, <1>3 DEF PublishedEntries
<1>5. PublishedEntries(committed.entries)' = PublishedEntries(committed.entries)
  BY <1>2 DEF PublishedEntries
<1>6. QED
  BY <1>4, <1>5 DEF Store!Delete, Store!Key, Key, Restrict, Store!Restrict

(* An abort, and a write that fails.                                       *)
LEMMA RollBackIsAbort ==
  ASSUME Sound, RollBack, UnchangedIndices, UNCHANGED updated
  PROVE  Store!Abort
<1>1. SameIndices
  BY DEF SameIndices, RollBack, Sound, DataTyped
<1>2. Published' = Published
  BY <1>1, PublishedKept
<1>3. QED
  BY <1>2 DEF RollBack, PublishedEntries, Store!Abort

LEMMA CommitIsCommit ==
  ASSUME Sound, Commit
  PROVE  Store!Commit
<1>1. SameIndices
  BY DEF SameIndices, Commit
<1>2. Published' = Published
  BY <1>1, PublishedKept
<1>3. QED
  BY <1>2 DEF Commit, PublishedEntries, Store!Commit

LEMMA ReopenIsRestart ==
  ASSUME NEW others, Reopen(others)
  PROVE  Store!Restart
<1>1. Published' = {}
  BY DEF Reopen, Published, Ready, Whole, Used
<1>2. PublishedEntries(entries)' = <<>> /\ PublishedEntries(committed.entries)' = <<>>
  BY <1>1 DEF PublishedEntries
<1>3. QED
  BY <1>2 DEF Reopen, RollBack, Store!Restart

(* What the slots say of the published indices before and after a call.    *)
LEMMA ReadyIs ==
  /\ \A l : l \in Ready <=> \E j \in Whole : Built(j) /\ cache[j].list = l
  /\ \A l : l \in Ready' <=> \E j \in Whole' : Built(j)' /\ cache'[j].list = l
BY DEF Ready, Built

LEMMA SlotOfList ==
  ASSUME Sound, NEW i \in Used \ freed
  PROVE  \A j \in Whole : cache[j].list = cache[i].list => j = i
BY DEF Sound, Linked, OneSlot, Whole

(* A call about indices that takes one out of those that are published,    *)
(* or that leaves them all.                                                *)
LEMMA Withdrawn ==
  ASSUME Sound, NEW list, NoTransaction, committed' = [records |-> records, entries |-> entries'],
         records' = records, updated' = updated, Published' = Published \ {list},
         \A l \in Published' : entries'[l] = entries[l]
  PROVE  Store!Withdraw(list)
<1>1. PublishedEntries(entries)'
        = Store!Restrict(PublishedEntries(entries), DOMAIN PublishedEntries(entries) \ {list})
  BY DEF PublishedEntries, Store!Restrict
<1>2. committed.entries = entries /\ committed.records = records
  BY DEF NoTransaction
<1>3. (committed.entries)' = entries' /\ (committed.records)' = records'
  OBVIOUS
<1>4. PublishedEntries(committed.entries) = PublishedEntries(entries)
      /\ PublishedEntries(committed.entries)' = PublishedEntries(entries)'
  BY <1>2, <1>3
<1>5. Store!NoTransaction
  BY <1>2, <1>4 DEF Store!NoTransaction
<1>6. QED
  BY <1>1, <1>2, <1>3, <1>4, <1>5 DEF Store!Withdraw

(* An index that is not ready is not published; what other indices miss is *)
(* not changed by a call.                                                  *)
LEMMA PublishedWithReady ==
  ASSUME NEW list, Ready' = Ready \ {list},
         missed' = missed \/ \E ids : missed' = Misses(list, ids)
  PROVE  Published' = Published \ {list}
<1>1. \A l : l # list => ((\A m \in missed' : m[1] # l) <=> (\A m \in missed : m[1] # l))
  BY DEF Misses
<1>2. QED
  BY <1>1 DEF Published

LEMMA StoreStutters ==
  ASSUME UNCHANGED data, UNCHANGED updated, UNCHANGED missed, Ready' = Ready
  PROVE  UNCHANGED Store!vars
<1>1. Published' = Published
  BY DEF Published
<1>2. QED
  BY <1>1 DEF data, PublishedEntries, Store!vars

LEMMA CreateIndexWithdraws ==
  ASSUME Sound, NEW list \in Lists, NEW slot \in FirstFree(cache, NoIndex),
         NEW dbi \in Opened(list), IndexCreate(list, slot, dbi)
  PROVE  Store!Withdraw(list)
<1> DEFINE new == With(list, IF list \in DOMAIN entries THEN entries[list] ELSE {})
           index == [list |-> list, dbi |-> dbi]
<1>1. /\ schema = Idle /\ IndexGet(list) = {} /\ SchemaCommits(new)
      /\ cache' = Placed(cache, slot, index)
      /\ schema' = [step |-> "create", slot |-> slot]
      /\ broken' \in {broken, broken \cup {list}} /\ freed' = freed /\ missed' = missed
  BY DEF IndexCreate
<1>2. \A l \in DOMAIN entries : new[l] = entries[l]
  BY DEF With
<1>3. /\ slot \in 1 .. 1 + Len(cache) /\ slot \notin Used
      /\ \A j \in Used \ freed : cache[j].list # list
      /\ cache \in Seq(Slots) /\ index \in Slots
  <2>1. /\ slot \in 1 .. 1 + Len(cache) /\ slot \notin Used /\ dbi \in 1 .. 1 + Len(handles)
        /\ \A j \in Used \ freed : cache[j].list # list
    BY <1>1, PlaceTaken
  <2>2. cache \in Seq(Slots) /\ index \in Slots
    BY <2>1 DEF Sound, CacheTyped, Slots
  <2>3. QED
    BY <2>1, <2>2
<1> HIDE DEF index
<1>4. /\ DOMAIN cache' = DOMAIN cache \cup {slot}
      /\ \A j \in DOMAIN cache : j # slot => cache'[j] = cache[j]
  BY <1>1, <1>3, CachePlaced
<1>5. /\ ~Building /\ \A j : Built(j)' <=> j # slot
      /\ \A j : ~Uncaching(j) /\ ~Uncaching(j)'
  BY <1>1 DEF Building, Uncaching, Idle, Built
<1>6. Whole' \ {slot} = Whole
  BY <1>1, <1>3, <1>4, <1>5 DEF Whole, Used
<1>7. Ready' = Ready /\ list \notin Ready
  <2>1. \A j \in Whole : cache'[j] = cache[j] /\ Built(j) /\ Built(j)'
    BY <1>3, <1>4, <1>5, <1>6 DEF Whole, Used, Built
  <2>2. list \notin Ready
    BY <1>3, ReadyIs DEF Whole
  <2>3. \A l : l \in Ready' <=> l \in Ready
    BY <1>5, <1>6, <2>1, ReadyIs
  <2>4. QED
    BY <2>2, <2>3
<1>8. \A l \in Ready' : new[l] = entries[l]
  BY <1>2, <1>7, ReadySlot
<1>9. NoTransaction
  BY <1>1 DEF SchemaCommits
<1>10. Published' = Published \ {list} /\ Published' \subseteq Ready'
  BY <1>1, <1>7, PublishedWithReady DEF Published
<1>11. QED
  BY <1>1, <1>8, <1>9, <1>10, Committed, Withdrawn

LEMMA CreateIndexFailsStutters ==
  ASSUME Sound, NEW list \in Lists, NEW slot \in FirstFree(cache, NoIndex),
         NEW dbi \in Opened(list), IndexCreateFails(list, slot, dbi)
  PROVE  UNCHANGED Store!vars
<1> DEFINE index == [list |-> list, dbi |-> dbi]
<1>1. /\ schema = Idle /\ IndexGet(list) = {} /\ cache' = Placed(cache, slot, index)
      /\ broken' = broken \cup {list} /\ freed' = freed \cup {slot} /\ schema' = schema
      /\ UNCHANGED data /\ updated' = updated /\ missed' = missed
  BY DEF IndexCreateFails, SchemaFails
<1>2. /\ slot \in 1 .. 1 + Len(cache) /\ slot \notin Used
      /\ \A j \in Used \ freed : cache[j].list # list
      /\ cache \in Seq(Slots) /\ index \in Slots
  <2>1. /\ slot \in 1 .. 1 + Len(cache) /\ slot \notin Used /\ dbi \in 1 .. 1 + Len(handles)
        /\ \A j \in Used \ freed : cache[j].list # list
    BY <1>1, PlaceTaken
  <2>2. cache \in Seq(Slots) /\ index \in Slots
    BY <2>1 DEF Sound, CacheTyped, Slots
  <2>3. QED
    BY <2>1, <2>2
<1> HIDE DEF index
<1>3. /\ DOMAIN cache' = DOMAIN cache \cup {slot}
      /\ \A j \in DOMAIN cache : j # slot => cache'[j] = cache[j]
  BY <1>1, <1>2, CachePlaced
<1>4. ~Building /\ ~Building' /\ \A j : ~Uncaching(j) /\ ~Uncaching(j)'
  BY <1>1 DEF Building, Uncaching, Idle
<1>5. Whole' = Whole /\ \A j \in Whole : cache'[j] = cache[j]
  BY <1>1, <1>2, <1>3, <1>4 DEF Whole, Used
<1>6. Ready' = Ready
  BY <1>4, <1>5, ReadyIs DEF Built
<1>7. QED
  BY <1>1, <1>6, StoreStutters

(* An index is published when it is built and no record was missed.        *)
LEMMA BuildPublishes ==
  ASSUME Sound, NEW others, IndexBuild(others)
  PROVE  \E list \in Lists : Store!Publish(list) \/ Store!Withdraw(list)
<1> DEFINE i == schema.slot
           list == cache[i].list
           seen == Scanned(others)
           new == [entries EXCEPT ![list] = entries[list] \cup EntriesFor(list, seen)]
<1>1. i \in Used \ freed /\ Tree(i) = list /\ list \in Lists /\ list \in DOMAIN entries
  <2>1. i \in Used \ freed /\ Building
    BY DEF Sound, CacheTyped, Building, Idle, IndexBuild
  <2>2. Tree(i) = list
    BY <2>1 DEF Sound, Linked, BuildsOwn
  <2>3. QED
    BY <2>1, <2>2, SlotTyped DEF Sound, Linked, OpenTrees, Tree
<1>2. SchemaCommits(new)
  BY <1>1 DEF IndexBuild, With
<1>3. /\ UNCHANGED <<cache, freed, broken>> /\ Building /\ schema' = Idle
      /\ missed' = Misses(list, DOMAIN records \ seen) /\ seen \subseteq DOMAIN records
  BY DEF IndexBuild, Scanned
<1>4. Whole' = Whole /\ \A j : Built(j)' /\ (Built(j) <=> j # i)
  BY <1>3 DEF Used, Whole, Uncaching, Building, Idle, Built
<1>5. \A j \in Whole : cache[j].list = list => j = i
  BY <1>1, SlotOfList
<1>6. list \notin Ready
  BY <1>4, <1>5, ReadyIs
<1>7. new[list] = entries[list] \cup EntriesFor(list, seen)
      /\ \A l \in DOMAIN entries : l # list => new[l] = entries[l]
  BY <1>1
<1>8. \A l \in Ready : new[l] = entries[l]
  BY <1>6, <1>7, ReadySlot
<1>9. NoTransaction
  BY <1>2 DEF SchemaCommits
<1> HIDE DEF i, list, new, seen
<1>10. CASE i \in Whole /\ seen = DOMAIN records
  <2>1. Published' = Published \cup {list} /\ list \notin Published
    <3>1. Ready' = Ready \cup {list}
      BY <1>3, <1>4, <1>10, ReadyIs DEF list
    <3>2. \A l : l # list => ((\A m \in missed' : m[1] # l) <=> (\A m \in missed : m[1] # l))
      BY <1>3 DEF Misses
    <3>3. \A m \in missed' : m[1] # list
      BY <1>3, <1>10 DEF Misses
    <3>4. QED
      BY <1>6, <3>1, <3>2, <3>3 DEF Published
  <2>2. \A pair \in new[list] \ EntriesOf(list) : pair[2] \in updated
    <3>1. \A pair \in entries[list] \ EntriesIn(list, records) : pair[2] \in updated
      BY <1>10 DEF Sound, Holds, list
    <3>2. QED
      BY <1>7, <1>10, <3>1 DEF EntriesIn, EntriesFor, EntriesOf
  <2>3. Store!EntriesOf(list) = EntriesOf(list) /\ EntriesOf(list) = EntriesFor(list, seen)
    BY <1>10 DEF Store!EntriesOf, EntriesFor, EntriesOf, Store!Key, Key
  <2>4. committed.entries = entries /\ committed.records = records
    BY <1>9 DEF NoTransaction
  <2>5. /\ records' = records /\ entries' = new /\ updated' = updated
        /\ (committed.records)' = records /\ (committed.entries)' = new
    BY <1>2, Committed
  <2>6. PublishedEntries(entries)' = [l \in Published \cup {list} |-> new[l]]
        /\ PublishedEntries(committed.entries)' = PublishedEntries(entries)'
    BY <2>1, <2>5 DEF PublishedEntries
  <2>7. PublishedEntries(committed.entries) = PublishedEntries(entries)
    BY <2>4
  <2>8. Store!Publish(list)
    BY <1>7, <1>8, <2>1, <2>2, PublishedReady, <2>3, <2>4, <2>5, <2>6, <2>7
    DEF Store!Publish, Store!NoTransaction, PublishedEntries
  <2>9. QED
    BY <1>1, <2>8
<1>11. CASE ~(i \in Whole /\ seen = DOMAIN records)
  <2>1. Published' = Published \ {list}
    <3>1. CASE i \notin Whole
      <4>1. Ready' = Ready \ {list}
        BY <1>3, <1>4, <1>6, <3>1, ReadyIs
      <4>2. QED
        BY <1>3, <4>1, PublishedWithReady
    <3>2. CASE i \in Whole /\ seen # DOMAIN records
      <4>1. Ready' = Ready \cup {list}
        BY <1>3, <1>4, <3>2, ReadyIs DEF list
      <4>2. \A l : l # list => ((\A m \in missed' : m[1] # l) <=> (\A m \in missed : m[1] # l))
        BY <1>3 DEF Misses
      <4>3. \E m \in missed' : m[1] = list
        <5>1. PICK x : x \in DOMAIN records \ seen
          BY <1>3, <3>2
        <5>2. <<list, x>> \in missed'
          BY <1>3, <5>1 DEF Misses
        <5>3. QED
          BY <5>2
      <4>4. QED
        BY <4>1, <4>2, <4>3 DEF Published
    <3>3. QED
      BY <1>11, <3>1, <3>2
  <2>2. \A l \in Published' : new[l] = entries[l]
    BY <1>8, <2>1, PublishedReady
  <2>3. Store!Withdraw(list)
    BY <1>2, <1>9, <2>1, <2>2, Committed, Withdrawn
  <2>4. QED
    BY <1>1, <2>3
<1>12. QED
  BY <1>10, <1>11

LEMMA BuildFailsStutters ==
  ASSUME Sound, IndexBuildFails
  PROVE  UNCHANGED Store!vars
<1> DEFINE i == schema.slot
<1>1. i \in Used \ freed
  BY DEF Sound, CacheTyped, Building, Idle, IndexBuildFails
<1>2. /\ UNCHANGED data /\ UNCHANGED <<updated, missed, cache>> /\ schema' = Idle /\ Building
      /\ freed' \in {freed, freed \cup {i}} /\ broken' = broken \cup {cache[i].list}
  BY DEF IndexBuildFails, SchemaFails
<1>3. \A j : Built(j)' /\ (Built(j) <=> j # i)
  BY <1>2 DEF Building, Idle, Built
<1>4. Whole' = Whole \ {i}
  <2>1. Whole' = {j \in Whole : cache[j].list # cache[i].list}
    BY <1>1, <1>2 DEF Whole, Used, Uncaching, Building, Idle
  <2>2. QED
    BY <1>1, <2>1, SlotOfList
<1>5. Ready' = Ready
  <2>1. \A l : l \in Ready' <=> l \in Ready
    BY <1>2, <1>3, <1>4, ReadyIs
  <2>2. QED
    BY <2>1
<1>6. QED
  BY <1>2, <1>5, StoreStutters

LEMMA UncacheStutters ==
  ASSUME Sound, IndexUncache
  PROVE  UNCHANGED Store!vars
<1> DEFINE i == schema.slot
<1>1. i \in Used \ freed /\ Uncaching(i) /\ \A j : Uncaching(j) => j = i
  BY DEF Sound, CacheTyped, Uncaching, Idle, IndexUncache
<1>2. /\ UNCHANGED data /\ UNCHANGED <<updated, missed, freed, broken>>
      /\ cache' = [cache EXCEPT ![i] = NoIndex] /\ schema' = Idle
  BY DEF IndexUncache
<1>3. Used' = Used \ {i} /\ \A j \in Used' : cache'[j] = cache[j]
  BY <1>1, <1>2, SlotTyped DEF Used
<1>4. ~Building /\ ~Building' /\ \A j : ~Uncaching(j)'
  BY <1>1, <1>2 DEF Uncaching, Building, Idle
<1>5. Whole' = Whole /\ \A j \in Whole : cache'[j] = cache[j]
  BY <1>1, <1>2, <1>3, <1>4 DEF Whole
<1>6. Ready' = Ready
  BY <1>4, <1>5, ReadyIs DEF Built
<1>7. QED
  BY <1>2, <1>6, StoreStutters

LEMMA DeleteIndexWithdraws ==
  ASSUME Sound, NEW i \in Used \ freed, IndexDelete(i)
  PROVE  Store!Withdraw(cache[i].list)
<1> DEFINE tree == Tree(i)
           list == cache[i].list
           new == Restrict(entries, DOMAIN entries \ {tree})
<1>1. /\ schema = Idle /\ tree # Free /\ SchemaCommits(new)
      /\ schema' = [step |-> "uncache", slot |-> i]
      /\ broken' = IF tree = list THEN broken \ {list} ELSE broken \cup {tree, list}
      /\ missed' = Misses(list, {}) /\ UNCHANGED <<cache, freed>>
  BY DEF IndexDelete
<1>2. /\ ~Building /\ ~Building' /\ \A j : ~Uncaching(j)
      /\ \A j : Uncaching(j)' <=> j = i
  BY <1>1 DEF Building, Uncaching, Idle
<1>3. \A j \in Used \ freed : j # i => cache[j].list # list
  BY DEF Sound, Linked, OneSlot
<1>4. \A j \in Whole : j # i => cache[j].list # tree
  BY <1>1, OthersApart DEF Sound, Linked, HandlesAreOwn
<1>5. Whole' = Whole \ {i}
  BY <1>1, <1>2, <1>3, <1>4 DEF Whole, Used
<1>6. Ready' = Ready \ {list}
  BY <1>1, <1>2, <1>3, <1>5, ReadyIs DEF Built, Whole
<1>7. ASSUME NEW l \in Ready'
      PROVE  new[l] = entries[l]
  <2>1. l \in DOMAIN entries
    BY <1>6, <1>7, ReadySlot
  <2>2. l # tree
    BY <1>1, <1>4, <1>5, <1>7, ReadyIs
  <2>3. QED
    BY <2>1, <2>2 DEF Restrict
<1>8. NoTransaction
  BY <1>1 DEF SchemaCommits
<1>9. Published' = Published \ {list} /\ Published' \subseteq Ready'
  BY <1>1, <1>6, PublishedWithReady DEF Published
<1>10. QED
  BY <1>1, <1>7, <1>8, <1>9, Committed, Withdrawn

LEMMA DeleteIndexFailsWithdraws ==
  ASSUME Sound, NEW i \in Used \ freed, IndexDeleteFails(i)
  PROVE  Store!Withdraw(cache[i].list)
<1> DEFINE tree == Tree(i)
           list == cache[i].list
<1>1. /\ schema = Idle /\ tree # Free /\ NoTransaction /\ UNCHANGED data /\ updated' = updated
      /\ broken' = broken \cup {tree, list} /\ UNCHANGED <<cache, freed, schema, missed>>
  BY DEF IndexDeleteFails, SchemaFails
<1>2. ~Building /\ ~Building' /\ \A j : ~Uncaching(j) /\ ~Uncaching(j)'
  BY <1>1 DEF Building, Uncaching, Idle
<1>3. \A j \in Whole : j # i => cache[j].list \notin {tree, list}
  BY <1>1, OthersApart, SlotOfList DEF Sound, Linked, HandlesAreOwn
<1>4. Whole' = Whole \ {i}
  BY <1>1, <1>2, <1>3 DEF Whole, Used
<1>5. Ready' = Ready \ {list}
  BY <1>1, <1>2, <1>3, <1>4, ReadyIs DEF Built
<1>6. committed' = [records |-> records, entries |-> entries'] /\ entries' = entries
      /\ records' = records
  BY <1>1 DEF NoTransaction, data
<1>7. Published' = Published \ {list}
  BY <1>1, <1>5, PublishedWithReady
<1>8. QED
  BY <1>1, <1>6, <1>7, Withdrawn

LEMMA ClearWithdraws ==
  ASSUME Sound, NEW i \in Used \ freed, IndexClear(i)
  PROVE  Store!Withdraw(cache[i].list)
<1> DEFINE list == cache[i].list
           new == With(list, {})
<1>1. /\ schema = Idle /\ SchemaCommits(new) /\ schema' = [step |-> "rebuild", slot |-> i]
      /\ broken' \in {broken, broken \ {list}} /\ missed' = Misses(list, {})
      /\ UNCHANGED <<cache, freed>>
  BY DEF IndexClear
<1>2. /\ ~Building /\ \A j : ~Uncaching(j) /\ ~Uncaching(j)'
      /\ \A j : Built(j) /\ (Built(j)' <=> j # i)
  BY <1>1 DEF Building, Uncaching, Idle, Built
<1>3. \A j \in Used \ freed : j # i => cache[j].list # list
  BY DEF Sound, Linked, OneSlot
<1>4. Whole' \ {i} = Whole \ {i}
  BY <1>1, <1>2, <1>3 DEF Whole, Used
<1>5. Ready' = Ready \ {list}
  BY <1>1, <1>2, <1>3, <1>4, ReadyIs DEF Whole
<1>6. \A l \in Ready' : new[l] = entries[l]
  BY <1>5, ReadySlot DEF With
<1>7. NoTransaction
  BY <1>1 DEF SchemaCommits
<1>8. Published' = Published \ {list} /\ Published' \subseteq Ready'
  BY <1>1, <1>5, PublishedWithReady DEF Published
<1>9. QED
  BY <1>1, <1>6, <1>7, <1>8, Committed, Withdrawn

(* The indices that can be relied on and whose building came to every      *)
(* record, and the records, behave as if every write of a record and all   *)
(* its entries were one step, however the two threads interleave, fail and *)
(* restart.                                                                *)
THEOREM IndicesImplementStore == Spec => ImplementsStore
<1>1. Sound /\ [Next]_vars => [Store!Next]_(Store!vars)
  <2> SUFFICES ASSUME Sound, [Next]_vars
               PROVE  Store!Next \/ UNCHANGED Store!vars
    OBVIOUS
  <2>1. CASE WriteNext
    <3>1. sequence \in 1 .. MaxId \/ \A slots, values : ~Create(slots, values)
      BY BoundsAssumption DEF Create, Sound, DataTyped
    <3>2. DOMAIN records \subseteq 1 .. MaxId /\ Store!Values = Values
      BY DEF Sound, DataTyped, Store!Values, Values
    <3>3. ASSUME NEW slots, WriteFails(slots)
          PROVE  Store!Next
      BY <3>3, RollBackIsAbort DEF WriteFails, Store!Next
    <3>4. CASE Commit
      BY <3>4, CommitIsCommit DEF Store!Next
    <3>5. CASE Abort
      BY <3>5, RollBackIsAbort DEF Abort, Store!Next
    <3>6. ASSUME NEW slots, NEW values \in Values, Create(slots, values)
          PROVE  Store!Next
      BY <3>1, <3>2, <3>6, CreateIsWrite DEF Store!Next
    <3>7. ASSUME NEW slots, NEW values \in Values, NEW id \in DOMAIN records,
                 Update(slots, id, values)
          PROVE  Store!Next
      BY <3>2, <3>7, UpdateIsWrite DEF Store!Next
    <3>8. ASSUME NEW slots, NEW id \in DOMAIN records, Delete(slots, id)
          PROVE  Store!Next
      BY <3>8, DeleteIsDelete DEF Store!Next
    <3>9. QED
      BY <2>1, <3>3, <3>4, <3>5, <3>6, <3>7, <3>8 DEF WriteNext
  <2>2. CASE SchemaNext
    <3>1. ASSUME NEW list \in Lists, NEW slot \in FirstFree(cache, NoIndex),
                 NEW dbi \in Opened(list),
                 IndexCreate(list, slot, dbi) \/ IndexCreateFails(list, slot, dbi)
          PROVE  Store!Next \/ UNCHANGED Store!vars
      BY <3>1, CreateIndexWithdraws, CreateIndexFailsStutters DEF Store!Next
    <3>2. ASSUME NEW i \in Used \ freed, IndexDelete(i) \/ IndexDeleteFails(i) \/ IndexClear(i)
          PROVE  Store!Next
      <4>1. cache[i].list \in Lists
        BY SlotTyped
      <4>2. Store!Withdraw(cache[i].list)
        BY <3>2, DeleteIndexWithdraws, DeleteIndexFailsWithdraws, ClearWithdraws
      <4>3. QED
        BY <4>1, <4>2 DEF Store!Next
    <3>3. ASSUME NEW others, IndexBuild(others)
          PROVE  Store!Next
      BY <3>3, BuildPublishes DEF Store!Next
    <3>4. QED
      BY <2>2, <3>1, <3>2, <3>3, BuildFailsStutters, UncacheStutters DEF SchemaNext
  <2>3. ASSUME NEW others, Reopen(others)
        PROVE  Store!Next
    BY <2>3, ReopenIsRestart DEF Store!Next
  <2>4. CASE UNCHANGED vars
    <3>1. Ready' = Ready
      BY <2>4 DEF vars, Ready, Whole, Used, Uncaching, Building
    <3>2. QED
      BY <2>4, <3>1, StoreStutters DEF vars
  <2>5. QED
    BY <2>1, <2>2, <2>3, <2>4 DEF Next
<1>2. QED
  BY <1>1, StoreInit, Soundness, PTL DEF Spec, ImplementsStore, Store!Spec
=============================================================================
