---------------------------- MODULE IndexedRecords ----------------------------
(***************************************************************************)
(* What the indices of a record type promise (readme.md, index.c): records *)
(* with values, and published indices, each of which finds records by the  *)
(* fields it is for.  A write of a record and of everything that finds it  *)
(* is one step, and a transaction takes all of it back or none.            *)
(*                                                                         *)
(* An index finds a record by the values it has, and may find one that was *)
(* updated by values it had before.                                        *)
(***************************************************************************)
EXTENDS Integers, Sequences, Functions

CONSTANTS Fields, Data, Lists, Ids

VARIABLES records,    \* id -> values
          found,      \* list of a published index -> the pairs <<key, id>>
          committed,  \* [records, found] of the last commit
          updated     \* ids whose values were changed

vars == <<records, found, committed, updated>>

Values == [Fields -> Data]
Key(list, values) == [i \in DOMAIN list |-> values[list[i]]]
EntriesOf(list) == {<<Key(list, records[id]), id>> : id \in DOMAIN records}

Init == /\ records = <<>> /\ found = <<>> /\ updated = {}
        /\ committed = [records |-> records, found |-> found]

(* A record is created, or its values are replaced.                        *)
Write(id, values) ==
  /\ records' = [i \in DOMAIN records \cup {id} |-> IF i = id THEN values ELSE records[i]]
  /\ found' = [list \in DOMAIN found |-> found[list] \cup {<<Key(list, values), id>>}]
  /\ updated' = IF id \in DOMAIN records THEN updated \cup {id} ELSE updated
  /\ UNCHANGED committed

Delete(id) ==
  /\ id \in DOMAIN records
  /\ records' = Restrict(records, DOMAIN records \ {id})
  /\ found' = [list \in DOMAIN found |-> found[list] \ {<<Key(list, records[id]), id>>}]
  /\ UNCHANGED <<committed, updated>>

Commit == /\ committed' = [records |-> records, found |-> found]
          /\ UNCHANGED <<records, found, updated>>

Abort == /\ records' = committed.records /\ found' = committed.found
         /\ UNCHANGED <<committed, updated>>

(* Indices appear and disappear between transactions.                      *)
NoTransaction == committed = [records |-> records, found |-> found]

Publish(list) ==
  /\ NoTransaction /\ list \notin DOMAIN found
  /\ DOMAIN found' = DOMAIN found \cup {list}
  /\ \A l \in DOMAIN found : found'[l] = found[l]
  /\ EntriesOf(list) \subseteq found'[list]
  /\ \A pair \in found'[list] \ EntriesOf(list) : pair[2] \in updated
  /\ committed' = [records |-> records, found |-> found'] /\ UNCHANGED <<records, updated>>

Withdraw(list) ==
  /\ NoTransaction
  /\ found' = Restrict(found, DOMAIN found \ {list})
  /\ committed' = [records |-> records, found |-> found'] /\ UNCHANGED <<records, updated>>

(* The process ends: what was committed stays, and no index is published.  *)
Restart == /\ records' = committed.records /\ found' = <<>>
           /\ committed' = [records |-> committed.records, found |-> <<>>]
           /\ UNCHANGED updated

Next == \/ \E id \in Ids, values \in Values : Write(id, values)
        \/ \E id \in DOMAIN records : Delete(id)
        \/ Commit \/ Abort
        \/ \E list \in Lists : Publish(list) \/ Withdraw(list)
        \/ Restart

Spec == Init /\ [][Next]_vars
=============================================================================
