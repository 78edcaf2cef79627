---------------------------- MODULE TypeCatalogue ----------------------------
(***************************************************************************)
(* Record types by name (type.c, open.c): the system tree that stores      *)
(* them, the array env->types that caches them, and threads that create    *)
(* and delete types at the same time.  Only the write transactions exclude *)
(* each other: the array is read and written without a lock, the sequence  *)
(* of type ids under env->mutex.                                           *)
(***************************************************************************)
EXTENDS Integers, Sequences, FiniteSetsExt

CONSTANTS Threads, Names,
          TypeLimit,    \* db_type_id_limit
          ExtraCount,   \* db_env_types_extra_count
          Width,        \* 2^16: how many numbers a db_type_id_t can hold
          ByteValues,   \* 256: what a byte of a key can be
          MayFail,      \* memory, disk or map space can run out
          Unset,        \* an entry of the array with id zero
          Garbage,      \* an entry of the array that was never written
          Nobody        \* no thread

ASSUME CatalogueAssumption == /\ TypeLimit \in Nat \ {0} /\ ExtraCount \in Nat \ {0}
                              /\ Width \in Nat /\ TypeLimit < Width
                              /\ ByteValues \in Nat \ {0} /\ MayFail \in BOOLEAN
                              /\ Nobody \notin Threads
                              /\ Unset \notin Names /\ Garbage \notin Names /\ Unset # Garbage

VARIABLES system,       \* type id -> name: the system tree, committed
          cache,        \* env->types: the name of each entry
          sequence,     \* types[0].sequence
          writer,       \* the thread with the write transaction
          pc, name, id, \* of every thread: where it is, and its arguments
          diverged,     \* history: since the database was opened a creation or
                        \* deletion failed after it had changed the cache
          raced         \* history: a name was looked up while another thread was
                        \* creating or deleting it, or after such a failure

vars == <<system, cache, sequence, writer, pc, name, id, diverged, raced>>

NameAt == [i \in {j \in DOMAIN cache : cache[j] \in Names} |-> cache[i]]

(* db_type_get *)
Found(n) == \E i \in DOMAIN cache : cache[i] = n
-----------------------------------------------------------------------------
(* The last type of the system tree, whose keys are compared as bytes; the *)
(* low byte of the type id comes first.                                    *)
Before(i, j) == \/ i % ByteValues < j % ByteValues
                \/ i % ByteValues = j % ByteValues /\ i < j
IsLast(i, types) == i \in types /\ \A j \in types \ {i} : Before(j, i)

(* A mutant: the sequence starts with the last type id.                    *)
OpenedSequence_AtLast(current) == IF current = 0 THEN 1 ELSE current
OpenedSequence(current) == IF current = TypeLimit THEN current ELSE 1 + current

OpenedLength(first) == IF ExtraCount > TypeLimit - first THEN TypeLimit ELSE first + ExtraCount

(* db_open_types: current is the last type id, zero if there is none.      *)
Opened(current) ==
  LET first == OpenedSequence(current)
  IN /\ IF DOMAIN system = {} THEN current = 0 ELSE IsLast(current, DOMAIN system)
     /\ sequence' = first
     /\ cache' = [i \in 0 .. OpenedLength(first) - 1 |->
                    IF i \in DOMAIN system THEN system[i] ELSE Unset]

Init == /\ system = <<>> /\ sequence = 1
        /\ cache = [i \in 0 .. OpenedLength(1) - 1 |-> Unset]
        /\ writer = Nobody /\ pc = [p \in Threads |-> "idle"]
        /\ name = [p \in Threads |-> Unset] /\ id = [p \in Threads |-> 0]
        /\ diverged = FALSE /\ raced = FALSE

(* The process ends, in whatever any thread was doing, and the database is *)
(* opened again.                                                           *)
Reopen == /\ \E current \in DOMAIN system \cup {0} : Opened(current)
          /\ writer' = Nobody /\ UNCHANGED <<system, raced>>
          /\ pc' = [p \in Threads |-> "idle"] /\ id' = [p \in Threads |-> 0]
          /\ name' = [p \in Threads |-> Unset] /\ diverged' = FALSE
-----------------------------------------------------------------------------
Goes(p, to) == pc' = [pc EXCEPT ![p] = to]
Ends(p) == /\ Goes(p, "idle") /\ id' = [id EXCEPT ![p] = 0]
           /\ name' = [name EXCEPT ![p] = Unset]

Busy(n) == diverged \/ \E q \in Threads :
             \/ name[q] = n
             \/ pc[q] = "uncached" /\ id[q] \in DOMAIN system /\ system[id[q]] = n

(* A mutant: the name is not looked for.                                   *)
CheckName_Not(p, n) ==
  /\ pc[p] = "idle" /\ Goes(p, "named") /\ name' = [name EXCEPT ![p] = n]
  /\ raced' = (raced \/ Busy(n)) /\ UNCHANGED <<system, cache, sequence, writer, id, diverged>>
(* db_type_create: the name is looked for before anything is locked.       *)
CheckName(p, n) ==
  /\ pc[p] = "idle" /\ ~Found(n)
  /\ Goes(p, "named") /\ name' = [name EXCEPT ![p] = n]
  /\ raced' = (raced \/ Busy(n))
  /\ UNCHANGED <<system, cache, sequence, writer, id, diverged>>

(* A mutant: the limit is handed out too.                                  *)
TakeId_LimitIncluded(p) ==
  /\ pc[p] = "named" /\ sequence <= TypeLimit
  /\ sequence' = 1 + sequence /\ id' = [id EXCEPT ![p] = sequence]
  /\ Goes(p, "numbered") /\ UNCHANGED <<system, cache, writer, name, diverged, raced>>
(* db_sequence_next_system *)
TakeId(p) ==
  /\ pc[p] = "named"
  /\ IF sequence < TypeLimit
     THEN /\ sequence' = 1 + sequence /\ id' = [id EXCEPT ![p] = sequence]
          /\ Goes(p, "numbered") /\ UNCHANGED name
     ELSE Ends(p) /\ UNCHANGED sequence
  /\ UNCHANGED <<system, cache, writer, diverged, raced>>

BeginCreate(p) ==
  /\ pc[p] = "numbered" /\ writer = Nobody
  /\ writer' = p /\ Goes(p, "put")
  /\ UNCHANGED <<system, cache, sequence, name, id, diverged, raced>>

(* A mutant: only the entry of the new type is set.                        *)
Extended_TypeOnly(type) ==
  IF type \in DOMAIN cache THEN cache
  ELSE [i \in 0 .. type + ExtraCount - 1 |->
          IF i \in DOMAIN cache THEN cache[i] ELSE IF type = i THEN Unset ELSE Garbage]
(* db_env_types_extend sets the entries from the new type on.              *)
Extended(type) ==
  IF type \in DOMAIN cache THEN cache
  ELSE [i \in 0 .. ((ExtraCount + type) % Width) - 1 |->
          IF i \in DOMAIN cache THEN cache[i] ELSE IF type <= i THEN Unset ELSE Garbage]

(* The cache gets the type before the transaction is committed.            *)
CacheType(p) ==
  /\ pc[p] = "put" /\ Goes(p, "cached")
  /\ cache' = [Extended(id[p]) EXCEPT ![id[p]] = name[p]]
  /\ UNCHANGED <<system, sequence, writer, name, id, diverged, raced>>

CommitCreate(p) ==
  /\ pc[p] = "cached"
  /\ system' = [i \in DOMAIN system \cup {id[p]} |-> IF i = id[p] THEN name[p] ELSE system[i]]
  /\ writer' = Nobody /\ Ends(p) /\ UNCHANGED <<cache, sequence, diverged, raced>>

(* db_type_delete clears the cache entry before the commit as well.        *)
BeginDelete(p, type) ==
  /\ pc[p] = "idle" /\ writer = Nobody /\ cache[type] # Garbage
  /\ writer' = p /\ Goes(p, "delete") /\ id' = [id EXCEPT ![p] = type]
  /\ UNCHANGED <<system, cache, sequence, name, diverged, raced>>

(* A mutant: the cache keeps the type.                                     *)
Uncache_Keeps(p) == /\ pc[p] = "delete" /\ Goes(p, "uncached")
                    /\ UNCHANGED <<system, cache, sequence, writer, name, id, diverged, raced>>
Uncache(p) ==
  /\ pc[p] = "delete" /\ Goes(p, "uncached")
  /\ cache' = [cache EXCEPT ![id[p]] = Unset]
  /\ UNCHANGED <<system, sequence, writer, name, id, diverged, raced>>

CommitDelete(p) ==
  /\ pc[p] = "uncached"
  /\ system' = [i \in DOMAIN system \ {id[p]} |-> system[i]]
  /\ writer' = Nobody /\ Ends(p) /\ UNCHANGED <<cache, sequence, diverged, raced>>

(* A step of either fails: the transaction, if there is one, is aborted.   *)
Fail(p) ==
  /\ MayFail /\ pc[p] \notin {"idle", "named"} /\ Ends(p)
  /\ writer' = IF writer = p THEN Nobody ELSE writer
  /\ diverged' = (diverged \/ pc[p] \in {"cached", "uncached"})
  /\ UNCHANGED <<system, cache, sequence, raced>>
-----------------------------------------------------------------------------
Next ==
  \/ Reopen
  \/ \E p \in Threads :
       \/ TakeId(p) \/ BeginCreate(p) \/ CacheType(p) \/ CommitCreate(p)
       \/ Uncache(p) \/ CommitDelete(p) \/ Fail(p)
       \/ \E n \in Names : CheckName(p, n)
       \/ \E type \in {i \in DOMAIN cache : 0 < i /\ i < TypeLimit} : BeginDelete(p, type)

Spec == Init /\ [][Next]_vars
-----------------------------------------------------------------------------
TypeOK ==
  /\ DOMAIN system \subseteq 1 .. TypeLimit - 1 /\ \A i \in DOMAIN system : system[i] \in Names
  /\ \A i \in DOMAIN cache : cache[i] \in Names \cup {Unset, Garbage}
  /\ sequence \in 1 .. TypeLimit /\ writer \in Threads \cup {Nobody}
  /\ id \in [Threads -> 0 .. TypeLimit - 1] /\ name \in [Threads -> Names \cup {Unset}]
  /\ pc \in [Threads -> {"idle", "named", "numbered", "put", "cached", "delete", "uncached"}]

UniqueNames == \A i, j \in DOMAIN system : i # j => system[i] # system[j]

(* No two types have the same name, if each name was looked up while no    *)
(* other thread was creating or deleting a type of that name.              *)
NamesAreUnique == ~raced => UniqueNames

(* Outside of transactions the cache holds the types of the system tree,   *)
(* unless a creation or deletion failed between the cache and the commit.  *)
CacheMatchesSystem == writer = Nobody /\ ~diverged => NameAt = system

(* Every entry of the array that db_type_get looks at has been written.    *)
(* Not checked, see the README: it fails when two threads create types and *)
(* the one with the later id extends the array.                            *)
CacheIsWritten == \A i \in DOMAIN cache : cache[i] # Garbage

(* Entries of the array that were never written are those of ids that were *)
(* handed out and not stored: a type in the tree is found, and the ids to  *)
(* come start with entries that are empty.                                 *)
GarbageIsUnstored ==
  \A i \in DOMAIN cache : cache[i] = Garbage => i \in 1 .. sequence - 1 /\ i \notin DOMAIN system

(* A new type never takes the id of a type that exists, after any number   *)
(* of deletions, failures and reopenings.                                  *)
TypeIdsAreNew == [][\A p \in Threads : CommitCreate(p) => id[p] \notin DOMAIN system]_vars
=============================================================================
