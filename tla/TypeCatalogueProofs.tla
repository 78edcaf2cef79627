------------------------- MODULE TypeCatalogueProofs -------------------------
(***************************************************************************)
(* The catalogue of types is sound for any number of threads, names and    *)
(* types, whatever fails and whenever the process ends, as long as type    *)
(* ids fit: below what a byte can be, and with room for the entries that   *)
(* the array is extended by.  Where they do not, see the README.           *)
(***************************************************************************)
EXTENDS TypeCatalogue, TLAPS

Fits == TypeLimit <= ByteValues /\ TypeLimit + ExtraCount <= Width

Creating(p) == pc[p] \in {"numbered", "put", "cached"}

(* The array has an entry for every type of the tree.                      *)
Shape == /\ system \in [DOMAIN system -> Names]
         /\ cache \in [DOMAIN cache -> Names \cup {Unset, Garbage}]
         /\ \E length \in 1 .. Width : DOMAIN cache = 0 .. length - 1
         /\ DOMAIN system \subseteq DOMAIN cache

(* What a thread holds at each step of a creation or deletion.             *)
Roles ==
  \A p \in Threads :
    /\ pc[p] \in {"put", "cached", "delete", "uncached"} <=> writer = p
    /\ pc[p] \in {"named", "numbered", "put", "cached"} <=> name[p] # Unset
    /\ pc[p] \in {"cached", "delete", "uncached"} => id[p] \in DOMAIN cache
    /\ pc[p] = "cached" => cache[id[p]] = name[p]
    /\ pc[p] = "uncached" => cache[id[p]] = Unset

(* Ids are handed out once, and the sequence is beyond those in the tree.  *)
IdsTaken ==
  /\ \A i \in DOMAIN system : i < sequence
  /\ \A p \in Threads : Creating(p) => id[p] \in 1 .. sequence - 1 /\ id[p] \notin DOMAIN system
  /\ \A p, q \in Threads : p # q /\ Creating(p) /\ Creating(q) => id[p] # id[q]

(* The cache differs from the tree only where a commit is to come.         *)
Pending == {id[p] : p \in {q \in Threads : pc[q] \in {"cached", "uncached"}}}
Agrees(i) == IF i \in DOMAIN system THEN cache[i] = system[i] ELSE cache[i] \notin Names
Agreement == ~diverged => \A i \in DOMAIN cache : i \notin Pending => Agrees(i)

(* A name that was found free stays free until its type is stored.         *)
NamesAreFree ==
  ~raced => /\ UniqueNames
            /\ \A p \in Threads, i \in DOMAIN system : system[i] # name[p]
            /\ \A p, q \in Threads : p # q /\ name[p] # Unset => name[p] # name[q]

Sound == /\ TypeOK /\ Shape /\ Roles /\ IdsTaken
         /\ Agreement /\ NamesAreFree /\ GarbageIsUnstored
-----------------------------------------------------------------------------
(* Below the range of a byte ids are in the order of their bytes.          *)
LEMMA SmallRemainder ==
  ASSUME NEW b \in Nat \ {0}, NEW i \in 0 .. b - 1
  PROVE  i % b = i
  OBVIOUS

(* The sequence that is found on opening is beyond the types of the tree,  *)
(* and the array has room for them.                                        *)
LEMMA OpenedBeyond ==
  ASSUME Fits, TypeOK, NEW current \in DOMAIN system \cup {0}, Opened(current)
  PROVE  /\ sequence' \in 1 .. TypeLimit
         /\ \A i \in DOMAIN system : i < sequence'
         /\ OpenedLength(sequence') \in 1 .. Width
         /\ DOMAIN system \subseteq 0 .. OpenedLength(sequence') - 1
<1>1. CASE DOMAIN system = {}
  BY <1>1, CatalogueAssumption DEF Fits, Opened, OpenedSequence, OpenedLength
<1>2. CASE DOMAIN system # {}
  <2>1. IsLast(current, DOMAIN system) /\ current \in DOMAIN system
    BY <1>2 DEF Opened, IsLast
  <2>2. \A i \in DOMAIN system : i \in 1 .. TypeLimit - 1 /\ i \in 0 .. ByteValues - 1
    BY CatalogueAssumption DEF Fits, TypeOK
  <2>3. \A i \in DOMAIN system : i % ByteValues = i
    BY <2>2, SmallRemainder, CatalogueAssumption
  <2>4. \A i \in DOMAIN system : i <= current
    BY <2>1, <2>2, <2>3 DEF IsLast, Before
  <2>5. sequence' = 1 + current
    BY <2>1, <2>2, CatalogueAssumption DEF Opened, OpenedSequence
  <2> QED BY <2>1, <2>2, <2>4, <2>5, CatalogueAssumption DEF Fits, OpenedLength
<1> QED BY <1>1, <1>2

LEMMA InitSound == Fits /\ Init => Sound
<1> SUFFICES ASSUME Fits, Init PROVE Sound  OBVIOUS
<1>1. OpenedLength(1) \in 1 .. Width  BY CatalogueAssumption DEF Fits, OpenedLength
<1>2. DOMAIN system = {} /\ system = <<>>  BY DEF Init
<1>3. TypeOK  BY <1>2, CatalogueAssumption DEF Init, TypeOK
<1>4. Shape  BY <1>1, <1>2 DEF Init, Shape
<1>5. Roles  BY CatalogueAssumption DEF Init, Roles
<1>6. IdsTaken  BY <1>2 DEF Init, IdsTaken, Creating
<1>7. Agreement  BY <1>2, CatalogueAssumption DEF Init, Agreement, Agrees
<1>8. NamesAreFree  BY <1>2 DEF Init, NamesAreFree, UniqueNames
<1>9. GarbageIsUnstored  BY CatalogueAssumption DEF Init, GarbageIsUnstored
<1> QED BY <1>3, <1>4, <1>5, <1>6, <1>7, <1>8, <1>9 DEF Sound

LEMMA CheckNameSound ==
  ASSUME Fits, Sound, NEW p \in Threads, NEW n \in Names, CheckName(p, n)
  PROVE  Sound'
<1> USE CatalogueAssumption
<1>1. TypeOK'
  BY DEF CheckName, Goes, Found, Busy, Sound, TypeOK, Roles
<1>2. Shape'
  BY DEF CheckName, Goes, Found, Busy, Sound, TypeOK, Roles, Shape
<1>3. Roles'
  BY DEF CheckName, Goes, Found, Busy, Sound, TypeOK, Roles
<1>4. IdsTaken'
  BY DEF CheckName, Goes, Found, Busy, Sound, TypeOK, Roles, IdsTaken, Creating
<1>5. Agreement'
  BY DEF CheckName, Goes, Found, Busy, Sound, TypeOK, Roles, Agreement, Agrees, Pending
<1>6. NamesAreFree'
  <2> SUFFICES ASSUME ~raced' PROVE NamesAreFree'  BY DEF NamesAreFree
  <2>1. ~raced /\ ~Busy(n)  BY DEF CheckName
  <2>2. \A i \in DOMAIN system : system[i] # n
    <3> SUFFICES ASSUME NEW i \in DOMAIN system, system[i] = n PROVE FALSE  OBVIOUS
    <3>1. i \in DOMAIN cache /\ cache[i] # n  BY DEF Sound, Shape, CheckName, Found
    <3>2. i \in Pending  BY <3>1, <2>1 DEF Sound, Agreement, Agrees, Busy
    <3>3. PICK q \in Threads : pc[q] \in {"cached", "uncached"} /\ id[q] = i  BY <3>2 DEF Pending
    <3>4. pc[q] # "cached"  BY <3>3 DEF Sound, IdsTaken, Creating
    <3> QED BY <3>3, <3>4, <2>1 DEF Busy
  <2>3. \A q \in Threads : name[q] # n  BY <2>1 DEF Busy
  <2>4. name' = [name EXCEPT ![p] = n] /\ name \in [Threads -> Names \cup {Unset}] /\ UNCHANGED system
    BY DEF CheckName, Sound, TypeOK
  <2> QED BY <2>1, <2>2, <2>3, <2>4 DEF Sound, NamesAreFree, UniqueNames
<1>7. GarbageIsUnstored'
  BY DEF CheckName, Goes, Found, Busy, Sound, TypeOK, Roles, GarbageIsUnstored
<1> QED BY <1>1, <1>2, <1>3, <1>4, <1>5, <1>6, <1>7 DEF Sound

LEMMA TakeIdSound ==
  ASSUME Fits, Sound, NEW p \in Threads, TakeId(p)
  PROVE  Sound'
<1> USE CatalogueAssumption
<1>1. TypeOK'
  BY DEF TakeId, Goes, Ends, Sound, TypeOK, Roles
<1>2. Shape'
  BY DEF TakeId, Goes, Ends, Sound, TypeOK, Roles, Shape
<1>3. Roles'
  BY DEF TakeId, Goes, Ends, Sound, TypeOK, Roles
<1>4. IdsTaken'
  BY DEF TakeId, Goes, Ends, Sound, TypeOK, Roles, IdsTaken, Creating
<1>5. Agreement'
  BY DEF TakeId, Goes, Ends, Sound, TypeOK, Roles, Agreement, Agrees, Pending
<1>6. NamesAreFree'
  BY DEF TakeId, Goes, Ends, Sound, TypeOK, Roles, NamesAreFree, UniqueNames
<1>7. GarbageIsUnstored'
  BY DEF TakeId, Goes, Ends, Sound, TypeOK, Roles, GarbageIsUnstored
<1> QED BY <1>1, <1>2, <1>3, <1>4, <1>5, <1>6, <1>7 DEF Sound

LEMMA BeginCreateSound ==
  ASSUME Fits, Sound, NEW p \in Threads, BeginCreate(p)
  PROVE  Sound'
<1> USE CatalogueAssumption
<1>1. TypeOK'
  BY DEF BeginCreate, Goes, Sound, TypeOK, Roles
<1>2. Shape'
  BY DEF BeginCreate, Goes, Sound, TypeOK, Roles, Shape
<1>3. Roles'
  BY DEF BeginCreate, Goes, Sound, TypeOK, Roles
<1>4. IdsTaken'
  BY DEF BeginCreate, Goes, Sound, TypeOK, Roles, IdsTaken, Creating
<1>5. Agreement'
  BY DEF BeginCreate, Goes, Sound, TypeOK, Roles, Agreement, Agrees, Pending
<1>6. NamesAreFree'
  BY DEF BeginCreate, Goes, Sound, TypeOK, Roles, NamesAreFree, UniqueNames
<1>7. GarbageIsUnstored'
  BY DEF BeginCreate, Goes, Sound, TypeOK, Roles, GarbageIsUnstored
<1> QED BY <1>1, <1>2, <1>3, <1>4, <1>5, <1>6, <1>7 DEF Sound

(* The array keeps its entries when it grows, has room for the new type,   *)
(* and what is not written of it is below the new type.                    *)
LEMMA ExtendedKeeps ==
  ASSUME Fits, Shape, NEW type \in 1 .. TypeLimit - 1
  PROVE  /\ Extended(type) \in [DOMAIN Extended(type) -> Names \cup {Unset, Garbage}]
         /\ \E length \in 1 .. Width : DOMAIN Extended(type) = 0 .. length - 1
         /\ DOMAIN cache \subseteq DOMAIN Extended(type) /\ type \in DOMAIN Extended(type)
         /\ \A i \in DOMAIN cache : Extended(type)[i] = cache[i]
         /\ \A i \in DOMAIN Extended(type) \ DOMAIN cache :
              Extended(type)[i] = IF type <= i THEN Unset ELSE Garbage
<1> USE CatalogueAssumption
<1>1. CASE type \in DOMAIN cache
  BY <1>1 DEF Shape, Extended
<1>2. CASE type \notin DOMAIN cache
  <2>1. PICK length \in 1 .. Width : DOMAIN cache = 0 .. length - 1
    BY DEF Shape
  <2>2. length <= type  BY <1>2, <2>1
  <2>3. (ExtraCount + type) % Width = ExtraCount + type
    BY SmallRemainder DEF Fits
  <2>4. Extended(type) = [i \in 0 .. ExtraCount + type - 1 |->
                            IF i \in DOMAIN cache THEN cache[i] ELSE IF type <= i THEN Unset ELSE Garbage]
    BY <1>2, <2>3 DEF Extended
  <2>5. DOMAIN Extended(type) = 0 .. ExtraCount + type - 1  BY <2>4
  <2>6. ExtraCount + type \in 1 .. Width  BY DEF Fits
  <2>7. \A i \in DOMAIN cache : i \in 0 .. ExtraCount + type - 1  BY <2>1, <2>2
  <2>8. \A i \in 0 .. ExtraCount + type - 1 :
          Extended(type)[i] = IF i \in DOMAIN cache THEN cache[i] ELSE IF type <= i THEN Unset ELSE Garbage
    BY <2>4
  <2>9. \A i \in DOMAIN cache : cache[i] \in Names \cup {Unset, Garbage}  BY DEF Shape
  <2>10. Extended(type) \in [DOMAIN Extended(type) -> Names \cup {Unset, Garbage}]
    BY <2>4, <2>9
  <2> QED BY <2>5, <2>6, <2>7, <2>8, <2>10
<1> QED BY <1>1, <1>2

LEMMA CacheTypeSound ==
  ASSUME Fits, Sound, NEW p \in Threads, CacheType(p)
  PROVE  Sound'
<1> USE CatalogueAssumption
<1> DEFINE larger == Extended(id[p])
<1>a. /\ id[p] \in 1 .. TypeLimit - 1 /\ id[p] \in 1 .. sequence - 1 /\ id[p] \notin DOMAIN system
      /\ pc[p] = "put" /\ writer = p /\ name[p] \in Names
  BY DEF CacheType, Sound, TypeOK, Roles, IdsTaken, Creating
<1>b. /\ larger \in [DOMAIN larger -> Names \cup {Unset, Garbage}]
      /\ \E length \in 1 .. Width : DOMAIN larger = 0 .. length - 1
      /\ DOMAIN cache \subseteq DOMAIN larger /\ id[p] \in DOMAIN larger
      /\ \A i \in DOMAIN cache : larger[i] = cache[i]
      /\ \A i \in DOMAIN larger \ DOMAIN cache : larger[i] = IF id[p] <= i THEN Unset ELSE Garbage
  BY <1>a, ExtendedKeeps DEF Sound
<1> HIDE DEF larger
<1>c. /\ cache' = [larger EXCEPT ![id[p]] = name[p]] /\ pc' = [pc EXCEPT ![p] = "cached"]
      /\ UNCHANGED <<system, sequence, writer, name, id, diverged, raced>>
  BY DEF CacheType, Goes, larger
<1>d. /\ DOMAIN cache' = DOMAIN larger /\ cache'[id[p]] = name[p]
      /\ \A i \in DOMAIN larger : i # id[p] => cache'[i] = larger[i]
  BY <1>b, <1>c
<1>1. TypeOK'
  BY DEF CacheType, Goes, Extended, Sound, TypeOK, Roles
<1>2. Shape'
  BY <1>a, <1>b, <1>c, <1>d DEF Sound, Shape
<1>3. Roles'
  BY <1>a, <1>b, <1>c, <1>d DEF Sound, TypeOK, Roles
<1>4. IdsTaken'
  BY <1>c DEF CacheType, Sound, TypeOK, IdsTaken, Creating
<1>5. Agreement'
  <2> SUFFICES ASSUME ~diverged, NEW i \in DOMAIN larger, i \notin Pending' PROVE Agrees(i)'
    BY <1>c, <1>d DEF Agreement
  <2>1. id[p] \in Pending'  BY <1>c DEF Sound, TypeOK, Pending
  <2>2. i # id[p]  BY <2>1
  <2>3. Pending = {}  BY <1>a DEF Sound, Roles, Pending
  <2>4. CASE i \in DOMAIN cache
    <3>1. Agrees(i)  BY <2>3, <2>4 DEF Sound, Agreement
    <3> QED BY <2>2, <2>4, <3>1, <1>b, <1>c, <1>d DEF Agrees
  <2>5. CASE i \notin DOMAIN cache
    BY <2>2, <2>5, <1>b, <1>c, <1>d DEF Agrees, Sound, Shape
  <2> QED BY <2>4, <2>5
<1>6. NamesAreFree'
  BY <1>c DEF Sound, NamesAreFree, UniqueNames
<1>7. GarbageIsUnstored'
  <2> SUFFICES ASSUME NEW i \in DOMAIN larger, cache'[i] = Garbage
               PROVE  i \in 1 .. sequence - 1 /\ i \notin DOMAIN system
    BY <1>c, <1>d DEF GarbageIsUnstored
  <2>1. i # id[p] /\ larger[i] = Garbage  BY <1>a, <1>d
  <2>2. CASE i \in DOMAIN cache
    BY <2>1, <2>2, <1>b DEF Sound, GarbageIsUnstored
  <2>3. CASE i \notin DOMAIN cache
    <3>1. i \in Nat /\ i < id[p]  BY <2>1, <2>3, <1>b
    <3>2. i # 0  BY <2>3 DEF Sound, Shape
    <3> QED BY <2>3, <3>1, <3>2, <1>a DEF Sound, Shape, TypeOK
  <2> QED BY <2>2, <2>3
<1> QED BY <1>1, <1>2, <1>3, <1>4, <1>5, <1>6, <1>7 DEF Sound


LEMMA CommitCreateSound ==
  ASSUME Fits, Sound, NEW p \in Threads, CommitCreate(p)
  PROVE  Sound'
<1> USE CatalogueAssumption
<1>1. TypeOK'
  <2>1. id[p] \in 1 .. TypeLimit - 1 /\ name[p] \in Names
    BY DEF CommitCreate, Sound, TypeOK, Roles, IdsTaken, Creating
  <2>2. /\ DOMAIN system' \subseteq 1 .. TypeLimit - 1
        /\ \A i \in DOMAIN system' : system'[i] \in Names
    BY <2>1 DEF CommitCreate, Sound, TypeOK
  <2> QED BY <2>2, SMTT(20) DEF CommitCreate, Ends, Goes, Sound, TypeOK
<1>2. Shape'
  BY DEF CommitCreate, Ends, Goes, Sound, TypeOK, Roles, Shape
<1>3. Roles'
  BY DEF CommitCreate, Ends, Goes, Sound, TypeOK, Roles
<1>4. IdsTaken'
  BY DEF CommitCreate, Ends, Goes, Sound, TypeOK, Roles, IdsTaken, Creating
<1>5. Agreement'
  BY DEF CommitCreate, Ends, Goes, Sound, TypeOK, Roles, Agreement, Agrees, Pending
<1>6. NamesAreFree'
  BY DEF CommitCreate, Ends, Goes, Sound, TypeOK, Roles, NamesAreFree, UniqueNames
<1>7. GarbageIsUnstored'
  BY DEF CommitCreate, Ends, Goes, Sound, TypeOK, Roles, GarbageIsUnstored
<1> QED BY <1>1, <1>2, <1>3, <1>4, <1>5, <1>6, <1>7 DEF Sound

LEMMA BeginDeleteSound ==
  ASSUME Fits, Sound, NEW p \in Threads, NEW type \in {i \in DOMAIN cache : 0 < i /\ i < TypeLimit}, BeginDelete(p, type)
  PROVE  Sound'
<1> USE CatalogueAssumption
<1>1. TypeOK'
  <2>1. type \in 0 .. TypeLimit - 1  BY DEF Sound, Shape
  <2> QED BY <2>1 DEF BeginDelete, Goes, Sound, TypeOK
<1>2. Shape'
  BY DEF BeginDelete, Goes, Sound, TypeOK, Roles, Shape
<1>3. Roles'
  BY DEF BeginDelete, Goes, Sound, TypeOK, Roles
<1>4. IdsTaken'
  BY DEF BeginDelete, Goes, Sound, TypeOK, Roles, IdsTaken, Creating
<1>5. Agreement'
  BY DEF BeginDelete, Goes, Sound, TypeOK, Roles, Agreement, Agrees, Pending
<1>6. NamesAreFree'
  BY DEF BeginDelete, Goes, Sound, TypeOK, Roles, NamesAreFree, UniqueNames
<1>7. GarbageIsUnstored'
  BY DEF BeginDelete, Goes, Sound, TypeOK, Roles, GarbageIsUnstored
<1> QED BY <1>1, <1>2, <1>3, <1>4, <1>5, <1>6, <1>7 DEF Sound

LEMMA UncacheSound ==
  ASSUME Fits, Sound, NEW p \in Threads, Uncache(p)
  PROVE  Sound'
<1> USE CatalogueAssumption
<1>1. TypeOK'
  BY DEF Uncache, Goes, Sound, TypeOK, Roles
<1>2. Shape'
  BY DEF Uncache, Goes, Sound, TypeOK, Roles, Shape
<1>3. Roles'
  BY DEF Uncache, Goes, Sound, TypeOK, Roles
<1>4. IdsTaken'
  BY DEF Uncache, Goes, Sound, TypeOK, Roles, IdsTaken, Creating
<1>5. Agreement'
  BY DEF Uncache, Goes, Sound, TypeOK, Roles, Agreement, Agrees, Pending
<1>6. NamesAreFree'
  BY DEF Uncache, Goes, Sound, TypeOK, Roles, NamesAreFree, UniqueNames
<1>7. GarbageIsUnstored'
  BY DEF Uncache, Goes, Sound, TypeOK, Roles, GarbageIsUnstored
<1> QED BY <1>1, <1>2, <1>3, <1>4, <1>5, <1>6, <1>7 DEF Sound

LEMMA CommitDeleteSound ==
  ASSUME Fits, Sound, NEW p \in Threads, CommitDelete(p)
  PROVE  Sound'
<1> USE CatalogueAssumption
<1>1. TypeOK'
  BY DEF CommitDelete, Ends, Goes, Sound, TypeOK, Roles
<1>2. Shape'
  BY DEF CommitDelete, Ends, Goes, Sound, TypeOK, Roles, Shape
<1>3. Roles'
  BY DEF CommitDelete, Ends, Goes, Sound, TypeOK, Roles
<1>4. IdsTaken'
  BY DEF CommitDelete, Ends, Goes, Sound, TypeOK, Roles, IdsTaken, Creating
<1>5. Agreement'
  BY DEF CommitDelete, Ends, Goes, Sound, TypeOK, Roles, Agreement, Agrees, Pending
<1>6. NamesAreFree'
  BY DEF CommitDelete, Ends, Goes, Sound, TypeOK, Roles, NamesAreFree, UniqueNames
<1>7. GarbageIsUnstored'
  BY DEF CommitDelete, Ends, Goes, Sound, TypeOK, Roles, GarbageIsUnstored
<1> QED BY <1>1, <1>2, <1>3, <1>4, <1>5, <1>6, <1>7 DEF Sound

LEMMA FailSound ==
  ASSUME Fits, Sound, NEW p \in Threads, Fail(p)
  PROVE  Sound'
<1> USE CatalogueAssumption
<1>1. TypeOK'
  BY DEF Fail, Ends, Goes, Sound, TypeOK, Roles
<1>2. Shape'
  BY DEF Fail, Ends, Goes, Sound, TypeOK, Roles, Shape
<1>3. Roles'
  BY DEF Fail, Ends, Goes, Sound, TypeOK, Roles
<1>4. IdsTaken'
  BY DEF Fail, Ends, Goes, Sound, TypeOK, Roles, IdsTaken, Creating
<1>5. Agreement'
  BY ZenonT(30) DEF Fail, Ends, Goes, Sound, TypeOK, Roles, Agreement, Agrees, Pending
<1>6. NamesAreFree'
  BY DEF Fail, Ends, Goes, Sound, TypeOK, Roles, NamesAreFree, UniqueNames
<1>7. GarbageIsUnstored'
  BY DEF Fail, Ends, Goes, Sound, TypeOK, Roles, GarbageIsUnstored
<1> QED BY <1>1, <1>2, <1>3, <1>4, <1>5, <1>6, <1>7 DEF Sound

LEMMA ReopenSound ==
  ASSUME Fits, Sound, Reopen
  PROVE  Sound'
<1> USE CatalogueAssumption
<1>a. PICK current \in DOMAIN system \cup {0} : Opened(current)  BY DEF Reopen
<1> DEFINE length == OpenedLength(sequence')
<1>b. /\ sequence' \in 1 .. TypeLimit
      /\ \A i \in DOMAIN system : i < sequence'
      /\ length \in 1 .. Width /\ DOMAIN system \subseteq 0 .. length - 1
  BY <1>a, OpenedBeyond DEF Sound
<1>c. cache' = [i \in 0 .. length - 1 |-> IF i \in DOMAIN system THEN system[i] ELSE Unset]
  BY <1>a DEF Opened
<1> HIDE DEF length
<1>d. /\ DOMAIN cache' = 0 .. length - 1
      /\ \A i \in 0 .. length - 1 : cache'[i] = IF i \in DOMAIN system THEN system[i] ELSE Unset
  BY <1>c
<1>e. /\ writer' = Nobody /\ UNCHANGED <<system, raced>>
      /\ pc' = [q \in Threads |-> "idle"] /\ id' = [q \in Threads |-> 0]
      /\ name' = [q \in Threads |-> Unset] /\ diverged' = FALSE
  BY DEF Reopen
<1>f. \A i \in DOMAIN system : system[i] \in Names /\ i \in 1 .. TypeLimit - 1
  BY DEF Sound, TypeOK
<1>1. TypeOK'
  <2>1. \A i \in DOMAIN cache' : cache'[i] \in Names \cup {Unset, Garbage}  BY <1>d, <1>f
  <2>2. /\ writer' \in Threads \cup {Nobody} /\ id' \in [Threads -> 0 .. TypeLimit - 1]
        /\ name' \in [Threads -> Names \cup {Unset}]
        /\ pc' \in [Threads -> {"idle", "named", "numbered", "put", "cached", "delete", "uncached"}]
    BY <1>e
  <2> QED BY <1>b, <1>e, <2>1, <2>2 DEF Sound, TypeOK
<1>2. Shape'
  <2>1. cache' \in [DOMAIN cache' -> Names \cup {Unset, Garbage}]  BY <1>c, <1>d, <1>f
  <2> QED BY <2>1, <1>b, <1>d, <1>e DEF Sound, Shape
<1>3. Roles'
  BY <1>e DEF Roles
<1>4. IdsTaken'
  BY <1>b, <1>e DEF IdsTaken, Creating
<1>5. Agreement'
  BY <1>d, <1>e, <1>f DEF Agreement, Agrees
<1>6. NamesAreFree'
  BY <1>e, <1>f DEF Sound, NamesAreFree, UniqueNames
<1>7. GarbageIsUnstored'
  BY <1>d, <1>f DEF GarbageIsUnstored
<1> QED BY <1>1, <1>2, <1>3, <1>4, <1>5, <1>6, <1>7 DEF Sound

LEMMA StutterSound == ASSUME Sound, UNCHANGED vars PROVE Sound'
  BY DEF vars, Sound, TypeOK, Shape, Roles, IdsTaken, Creating, Agreement, Agrees, Pending,
         NamesAreFree, UniqueNames, GarbageIsUnstored
-----------------------------------------------------------------------------
(* The invariant holds in every state, for every value of the constants    *)
(* that Fits allows.                                                       *)
THEOREM Soundness == Fits => (Spec => []Sound)
<1> SUFFICES ASSUME Fits PROVE Spec => []Sound  OBVIOUS
<1>1. Init => Sound  BY InitSound
<1>2. Sound /\ [Next]_vars => Sound'
  <2> SUFFICES ASSUME Sound, [Next]_vars PROVE Sound'  OBVIOUS
  <2>1. CASE UNCHANGED vars  BY <2>1, StutterSound
  <2>2. CASE Reopen  BY <2>2, ReopenSound
  <2>3. ASSUME NEW p \in Threads, TakeId(p) PROVE Sound'  BY <2>3, TakeIdSound
  <2>4. ASSUME NEW p \in Threads, BeginCreate(p) PROVE Sound'  BY <2>4, BeginCreateSound
  <2>5. ASSUME NEW p \in Threads, CacheType(p) PROVE Sound'  BY <2>5, CacheTypeSound
  <2>6. ASSUME NEW p \in Threads, CommitCreate(p) PROVE Sound'  BY <2>6, CommitCreateSound
  <2>7. ASSUME NEW p \in Threads, Uncache(p) PROVE Sound'  BY <2>7, UncacheSound
  <2>8. ASSUME NEW p \in Threads, CommitDelete(p) PROVE Sound'  BY <2>8, CommitDeleteSound
  <2>9. ASSUME NEW p \in Threads, Fail(p) PROVE Sound'  BY <2>9, FailSound
  <2>10. ASSUME NEW p \in Threads, NEW n \in Names, CheckName(p, n) PROVE Sound'
    BY <2>10, CheckNameSound
  <2>11. ASSUME NEW p \in Threads, NEW type \in {i \in DOMAIN cache : 0 < i /\ i < TypeLimit},
                BeginDelete(p, type)
         PROVE  Sound'
    BY <2>11, BeginDeleteSound
  <2> QED BY <2>1, <2>2, <2>3, <2>4, <2>5, <2>6, <2>7, <2>8, <2>9, <2>10, <2>11 DEF Next
<1> QED BY <1>1, <1>2, PTL DEF Spec

(* The tree, the array and the threads keep to their types.                *)
THEOREM CatalogueTyped == Fits => (Spec => []TypeOK)
<1>1. Sound => TypeOK  BY DEF Sound
<1> QED BY <1>1, Soundness, PTL

(* Outside of transactions the array has the types of the tree, unless a   *)
(* creation or deletion failed after it had changed the array.             *)
THEOREM CacheAgrees == Fits => (Spec => []CacheMatchesSystem)
<1>1. Sound => CacheMatchesSystem
  <2> SUFFICES ASSUME Sound, writer = Nobody, ~diverged PROVE NameAt = system
    BY DEF CacheMatchesSystem
  <2>1. Pending = {}  BY CatalogueAssumption DEF Sound, Roles, Pending
  <2>2. \A i \in DOMAIN cache : Agrees(i)  BY <2>1 DEF Sound, Agreement
  <2>3. DOMAIN system \subseteq DOMAIN cache /\ system \in [DOMAIN system -> Names]
    BY DEF Sound, Shape
  <2>4. {j \in DOMAIN cache : cache[j] \in Names} = DOMAIN system
    BY <2>2, <2>3 DEF Agrees
  <2>5. \A i \in DOMAIN system : cache[i] = system[i]  BY <2>2, <2>3 DEF Agrees
  <2> QED BY <2>3, <2>4, <2>5 DEF NameAt
<1> QED BY <1>1, Soundness, PTL

(* No two types have one name, if names are looked up while nobody else    *)
(* creates or deletes a type of that name.                                 *)
THEOREM NamesUnique == Fits => (Spec => []NamesAreUnique)
<1>1. Sound => NamesAreUnique  BY DEF Sound, NamesAreFree, NamesAreUnique
<1> QED BY <1>1, Soundness, PTL

(* What was never written of the array belongs to no type and to no id     *)
(* that is still to come.                                                  *)
THEOREM GarbageUnstored == Fits => (Spec => []GarbageIsUnstored)
<1>1. Sound => GarbageIsUnstored  BY DEF Sound
<1> QED BY <1>1, Soundness, PTL

(* No commit of a creation replaces a type.                                *)
THEOREM TypeIdsNew == Fits => (Spec => TypeIdsAreNew)
<1>1. Sound => \A p \in Threads : CommitCreate(p) => id[p] \notin DOMAIN system
  BY DEF Sound, IdsTaken, Creating, CommitCreate
<1> QED BY <1>1, Soundness, PTL DEF TypeIdsAreNew
=============================================================================
