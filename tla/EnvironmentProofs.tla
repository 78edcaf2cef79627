--------------------------- MODULE EnvironmentProofs ---------------------------
(***************************************************************************)
(* What a failed or interrupted db_open leaves, for any declarations, type *)
(* ids and formats; and that the declared types come back, where one is    *)
(* read as it was written, which is model-checked.                         *)
(***************************************************************************)
EXTENDS Environment, TLAPS

Steps == {"closed", "root", "mdb", "txn", "records", "format", "types", "relation", "open"}
InTransaction == step \in {"txn", "records", "format", "types", "relation"}
AfterFormat == step \in {"format", "types", "relation"}

Kinds == /\ step \in Steps /\ program \in Formats
         /\ file = [format |-> file.format, types |-> file.types, trees |-> file.trees]
         /\ file.format \in Formats \cup {Null} /\ file.trees \subseteq AllTrees
         /\ env = [root |-> env.root, mdb |-> env.mdb, format |-> env.format,
                   types |-> env.types, is_open |-> env.is_open]
         /\ DOMAIN declared = DOMAIN file.types
         /\ \A i \in DOMAIN declared : declared[i].format \in Formats

(* What the transaction of db_open has done to the file so far.            *)
Transaction ==
  /\ ~InTransaction => txn = Null
  /\ InTransaction =>
       /\ txn = [format |-> txn.format, types |-> file.types, trees |-> txn.trees]
       /\ txn.trees \subseteq AllTrees
       /\ ~AfterFormat => txn.format = file.format
  /\ AfterFormat => /\ env.format = program /\ txn.format = program
                    /\ file.format = program \/ DOMAIN file.types = {}
  /\ step \in {"records", "format", "types"} => "records" \in txn.trees
  /\ step \in {"format", "types"} => "system" \in txn.trees
  /\ step = "relation" => txn.trees = AllTrees

Sound == Kinds /\ Transaction /\ FileIsWhole /\ FailedOpenReleases /\ DataHasTheFormat

LEMMA InitSound == Init => Sound
  BY EnvironmentAssumption
  DEF Init, Sound, Kinds, Transaction, FileIsWhole, FailedOpenReleases, DataHasTheFormat,
      None, Closed, Steps, InTransaction, AfterFormat, AllTrees

LEMMA OpenRootSound ==
  ASSUME Sound, OpenRoot
  PROVE  Sound'
<1> USE EnvironmentAssumption DEF Sound, Kinds
<1>1. Kinds'
  BY DEF OpenRoot, Steps, InTransaction, Transaction, AllTrees
<1>2. Transaction'
  BY DEF OpenRoot, Transaction, InTransaction, AfterFormat, AllTrees, FailedOpenReleases
<1>3. FileIsWhole'
  BY DEF OpenRoot, FileIsWhole, Transaction, InTransaction, AfterFormat
<1>4. FailedOpenReleases'
  BY DEF OpenRoot, FailedOpenReleases, Transaction, InTransaction
<1>5. DataHasTheFormat'
  BY DEF OpenRoot, DataHasTheFormat, Transaction, InTransaction, AfterFormat, FileIsWhole
<1> QED BY <1>1, <1>2, <1>3, <1>4, <1>5

LEMMA OpenMdbEnvSound ==
  ASSUME Sound, OpenMdbEnv
  PROVE  Sound'
<1> USE EnvironmentAssumption DEF Sound, Kinds
<1>1. Kinds'
  BY DEF OpenMdbEnv, Steps, InTransaction, Transaction, AllTrees
<1>2. Transaction'
  BY DEF OpenMdbEnv, Transaction, InTransaction, AfterFormat, AllTrees, FailedOpenReleases
<1>3. FileIsWhole'
  BY DEF OpenMdbEnv, FileIsWhole, Transaction, InTransaction, AfterFormat
<1>4. FailedOpenReleases'
  BY DEF OpenMdbEnv, FailedOpenReleases, Transaction, InTransaction
<1>5. DataHasTheFormat'
  BY DEF OpenMdbEnv, DataHasTheFormat, Transaction, InTransaction, AfterFormat, FileIsWhole
<1> QED BY <1>1, <1>2, <1>3, <1>4, <1>5

LEMMA BeginSound ==
  ASSUME Sound, Begin
  PROVE  Sound'
<1> USE EnvironmentAssumption DEF Sound, Kinds
<1>1. Kinds'
  BY DEF Begin, Steps, InTransaction, Transaction, AllTrees
<1>2. Transaction'
  BY DEF Begin, Transaction, InTransaction, AfterFormat, AllTrees, FailedOpenReleases
<1>3. FileIsWhole'
  BY DEF Begin, FileIsWhole, Transaction, InTransaction, AfterFormat
<1>4. FailedOpenReleases'
  BY DEF Begin, FailedOpenReleases, Transaction, InTransaction
<1>5. DataHasTheFormat'
  BY DEF Begin, DataHasTheFormat, Transaction, InTransaction, AfterFormat, FileIsWhole
<1> QED BY <1>1, <1>2, <1>3, <1>4, <1>5

LEMMA OpenRecordsSound ==
  ASSUME Sound, OpenRecords
  PROVE  Sound'
<1> USE EnvironmentAssumption DEF Sound, Kinds
<1>1. Kinds'
  BY DEF OpenRecords, Steps, InTransaction, Transaction, AllTrees
<1>2. Transaction'
  <2>1. txn = [format |-> txn.format, types |-> file.types, trees |-> txn.trees] /\ txn.trees \subseteq AllTrees
    BY DEF OpenRecords, Transaction, InTransaction
  <2>2. txn' = [format |-> txn.format, types |-> file.types, trees |-> txn.trees \cup {"records"}]
    BY <2>1, SMTT(20) DEF OpenRecords
  <2> QED BY <2>1, <2>2 DEF OpenRecords, Transaction, InTransaction, AfterFormat, AllTrees, FileIsWhole
<1>3. FileIsWhole'
  BY DEF OpenRecords, FileIsWhole, Transaction, InTransaction, AfterFormat
<1>4. FailedOpenReleases'
  BY DEF OpenRecords, FailedOpenReleases, Transaction, InTransaction
<1>5. DataHasTheFormat'
  BY DEF OpenRecords, DataHasTheFormat, Transaction, InTransaction, AfterFormat, FileIsWhole
<1> QED BY <1>1, <1>2, <1>3, <1>4, <1>5

LEMMA OpenFormatSound ==
  ASSUME Sound, OpenFormat
  PROVE  Sound'
<1> USE EnvironmentAssumption DEF Sound, Kinds
<1>1. Kinds'
  BY DEF OpenFormat, FormatMayChange, Steps, InTransaction, Transaction, AllTrees
<1>2. Transaction'
  <2>1. PICK f, t : txn = [format |-> f, types |-> file.types, trees |-> t] /\ t \subseteq AllTrees
    BY DEF OpenFormat, Transaction, InTransaction
  <2>2. txn.format = f /\ txn.trees = t /\ DOMAIN txn.types = DOMAIN file.types  BY <2>1
  <2>3. txn' = [format |-> program, types |-> file.types, trees |-> t \cup {"system"}]
    BY <2>1 DEF OpenFormat
  <2>4. /\ txn'.format = program /\ txn'.trees = t \cup {"system"}
        /\ txn' = [format |-> txn'.format, types |-> file.types, trees |-> txn'.trees]
    BY <2>3
  <2>5. txn.format = file.format  BY DEF OpenFormat, Transaction, InTransaction, AfterFormat
  <2>6. file.format = program \/ DOMAIN file.types = {}
    BY <2>2, <2>5 DEF OpenFormat, FormatMayChange, FileIsWhole
  <2>7. step' = "format" /\ env'.format = program /\ UNCHANGED <<file, program>>  BY DEF OpenFormat
  <2>8. txn'.trees \subseteq AllTrees  BY <2>1, <2>4 DEF AllTrees
  <2>9. "records" \in txn'.trees  BY <2>2, <2>4 DEF OpenFormat, Transaction
  <2> QED BY <2>4, <2>6, <2>7, <2>8, <2>9 DEF Transaction, InTransaction, AfterFormat
<1>3. FileIsWhole'
  BY DEF OpenFormat, FormatMayChange, FileIsWhole, Transaction, InTransaction, AfterFormat
<1>4. FailedOpenReleases'
  BY DEF OpenFormat, FormatMayChange, FailedOpenReleases, Transaction, InTransaction
<1>5. DataHasTheFormat'
  BY DEF OpenFormat, FormatMayChange, DataHasTheFormat, Transaction, InTransaction, AfterFormat, FileIsWhole
<1> QED BY <1>1, <1>2, <1>3, <1>4, <1>5

LEMMA OpenTypesSound ==
  ASSUME Sound, OpenTypes
  PROVE  Sound'
<1> USE EnvironmentAssumption DEF Sound, Kinds
<1>1. Kinds'
  BY DEF OpenTypes, Steps, InTransaction, Transaction, AllTrees
<1>2. Transaction'
  BY DEF OpenTypes, Transaction, InTransaction, AfterFormat, AllTrees, FailedOpenReleases
<1>3. FileIsWhole'
  BY DEF OpenTypes, FileIsWhole, Transaction, InTransaction, AfterFormat
<1>4. FailedOpenReleases'
  BY DEF OpenTypes, FailedOpenReleases, Transaction, InTransaction
<1>5. DataHasTheFormat'
  BY DEF OpenTypes, DataHasTheFormat, Transaction, InTransaction, AfterFormat, FileIsWhole
<1> QED BY <1>1, <1>2, <1>3, <1>4, <1>5

LEMMA OpenRelationSound ==
  ASSUME Sound, OpenRelation
  PROVE  Sound'
<1> USE EnvironmentAssumption DEF Sound, Kinds
<1>1. Kinds'
  BY DEF OpenRelation, Steps, InTransaction, Transaction, AllTrees
<1>2. Transaction'
  <2>1. PICK f, t : txn = [format |-> f, types |-> file.types, trees |-> t] /\ t \subseteq AllTrees
    BY DEF OpenRelation, Transaction, InTransaction
  <2>2. txn.format = f /\ txn.trees = t /\ DOMAIN txn.types = DOMAIN file.types  BY <2>1
  <2>3. txn' = [format |-> f, types |-> file.types,
               trees |-> t \cup {"relation-lr", "relation-rl", "relation-ll"}]
    BY <2>1 DEF OpenRelation
  <2>4. /\ txn'.format = f /\ txn'.trees = t \cup {"relation-lr", "relation-rl", "relation-ll"}
        /\ txn' = [format |-> txn'.format, types |-> file.types, trees |-> txn'.trees]
    BY <2>3
  <2>5. {"records", "system"} \subseteq t
    BY <2>2 DEF OpenRelation, Transaction
  <2>6. txn'.trees = AllTrees  BY <2>1, <2>4, <2>5 DEF AllTrees
  <2>7. step' = "relation" /\ UNCHANGED <<file, env, program>> /\ f = txn.format /\ step = "types"
    BY <2>2 DEF OpenRelation
  <2> QED BY <2>4, <2>6, <2>7 DEF Transaction, InTransaction, AfterFormat
<1>3. FileIsWhole'
  BY DEF OpenRelation, FileIsWhole, Transaction, InTransaction, AfterFormat
<1>4. FailedOpenReleases'
  BY DEF OpenRelation, FailedOpenReleases, Transaction, InTransaction
<1>5. DataHasTheFormat'
  BY DEF OpenRelation, DataHasTheFormat, Transaction, InTransaction, AfterFormat, FileIsWhole
<1> QED BY <1>1, <1>2, <1>3, <1>4, <1>5

LEMMA OpenCommitSound ==
  ASSUME Sound, OpenCommit
  PROVE  Sound'
<1> USE EnvironmentAssumption DEF Sound, Kinds
<1>1. Kinds'
  <2>1. PICK f, t : txn = [format |-> f, types |-> file.types, trees |-> t] /\ t \subseteq AllTrees
    BY DEF OpenCommit, Transaction, InTransaction
  <2>2. f = program  BY <2>1 DEF OpenCommit, Transaction, AfterFormat
  <2>3. file' = [format |-> f, types |-> file.types, trees |-> t]  BY <2>1 DEF OpenCommit
  <2>4. /\ file' = [format |-> file'.format, types |-> file'.types, trees |-> file'.trees]
        /\ DOMAIN file'.types = DOMAIN file.types
        /\ file'.format \in Formats /\ file'.trees \subseteq AllTrees
    BY <2>1, <2>2, <2>3
  <2>5. /\ env' = [root |-> env'.root, mdb |-> env'.mdb, format |-> env'.format,
                   types |-> env'.types, is_open |-> env'.is_open]
        /\ step' = "open" /\ UNCHANGED <<program, declared>>
    BY DEF OpenCommit
  <2> QED BY <2>4, <2>5 DEF Steps
<1>2. Transaction'
  BY DEF OpenCommit, Transaction, InTransaction, AfterFormat, AllTrees, FailedOpenReleases
<1>3. FileIsWhole'
  BY DEF OpenCommit, FileIsWhole, Transaction, InTransaction, AfterFormat
<1>4. FailedOpenReleases'
  BY DEF OpenCommit, FailedOpenReleases, Transaction, InTransaction
<1>5. DataHasTheFormat'
  BY DEF OpenCommit, DataHasTheFormat, Transaction, InTransaction, AfterFormat, FileIsWhole
<1> QED BY <1>1, <1>2, <1>3, <1>4, <1>5

LEMMA OpenFailsSound ==
  ASSUME Sound, OpenFails
  PROVE  Sound'
<1> USE EnvironmentAssumption DEF Sound, Kinds
<1>1. Kinds'
  BY DEF OpenFails, Released, Steps, InTransaction, Transaction, AllTrees
<1>2. Transaction'
  BY DEF OpenFails, Released, Transaction, InTransaction, AfterFormat, AllTrees, FailedOpenReleases
<1>3. FileIsWhole'
  BY DEF OpenFails, Released, FileIsWhole, Transaction, InTransaction, AfterFormat
<1>4. FailedOpenReleases'
  BY DEF OpenFails, Released, FailedOpenReleases, Transaction, InTransaction
<1>5. DataHasTheFormat'
  BY DEF OpenFails, Released, DataHasTheFormat, Transaction, InTransaction, AfterFormat, FileIsWhole
<1> QED BY <1>1, <1>2, <1>3, <1>4, <1>5

LEMMA CloseSound ==
  ASSUME Sound, Close
  PROVE  Sound'
<1> USE EnvironmentAssumption DEF Sound, Kinds
<1>1. Kinds'
  BY DEF Close, Released, Steps, InTransaction, Transaction, AllTrees
<1>2. Transaction'
  BY DEF Close, Released, Transaction, InTransaction, AfterFormat, AllTrees, FailedOpenReleases
<1>3. FileIsWhole'
  BY DEF Close, Released, FileIsWhole, Transaction, InTransaction, AfterFormat
<1>4. FailedOpenReleases'
  BY DEF Close, Released, FailedOpenReleases, Transaction, InTransaction
<1>5. DataHasTheFormat'
  BY DEF Close, Released, DataHasTheFormat, Transaction, InTransaction, AfterFormat, FileIsWhole
<1> QED BY <1>1, <1>2, <1>3, <1>4, <1>5

LEMMA CrashSound ==
  ASSUME Sound, Crash
  PROVE  Sound'
<1> USE EnvironmentAssumption DEF Sound, Kinds
<1>1. Kinds'
  BY DEF Crash, Closed, Steps, InTransaction, Transaction, AllTrees
<1>2. Transaction'
  BY DEF Crash, Closed, Transaction, InTransaction, AfterFormat, AllTrees, FailedOpenReleases
<1>3. FileIsWhole'
  BY DEF Crash, Closed, FileIsWhole, Transaction, InTransaction, AfterFormat
<1>4. FailedOpenReleases'
  BY DEF Crash, Closed, FailedOpenReleases, Transaction, InTransaction
<1>5. DataHasTheFormat'
  BY DEF Crash, Closed, DataHasTheFormat, Transaction, InTransaction, AfterFormat, FileIsWhole
<1> QED BY <1>1, <1>2, <1>3, <1>4, <1>5

LEMMA EnsureRelationSound ==
  ASSUME Sound, EnsureRelation
  PROVE  Sound'
<1> USE EnvironmentAssumption DEF Sound, Kinds
<1>1. Kinds'
  BY DEF EnsureRelation, Steps, InTransaction, Transaction, AllTrees
<1>2. Transaction'
  BY DEF EnsureRelation, Transaction, InTransaction, AfterFormat, AllTrees, FailedOpenReleases
<1>3. FileIsWhole'
  BY DEF EnsureRelation, FileIsWhole, Transaction, InTransaction, AfterFormat
<1>4. FailedOpenReleases'
  BY DEF EnsureRelation, FailedOpenReleases, Transaction, InTransaction
<1>5. DataHasTheFormat'
  BY DEF EnsureRelation, DataHasTheFormat, Transaction, InTransaction, AfterFormat, FileIsWhole
<1> QED BY <1>1, <1>2, <1>3, <1>4, <1>5

LEMMA CreateTypeSound ==
  ASSUME Sound, NEW i \in TypeIds, NEW type \in Declarable, CreateType(i, type)
  PROVE  Sound'
<1> USE EnvironmentAssumption DEF Sound, Kinds
<1>1. Kinds'
  BY DEF CreateType, Plus, Steps, InTransaction, Transaction, AllTrees
<1>2. Transaction'
  BY DEF CreateType, Plus, Transaction, InTransaction, AfterFormat, AllTrees, FailedOpenReleases
<1>3. FileIsWhole'
  BY DEF CreateType, Plus, FileIsWhole, DataHasTheFormat
<1>4. FailedOpenReleases'
  BY DEF CreateType, Plus, FailedOpenReleases, Transaction, InTransaction
<1>5. DataHasTheFormat'
  BY DEF CreateType, Plus, DataHasTheFormat, Transaction, InTransaction, AfterFormat, FileIsWhole
<1> QED BY <1>1, <1>2, <1>3, <1>4, <1>5

LEMMA DeleteTypeSound ==
  ASSUME Sound, NEW i \in TypeIds, DeleteType(i)
  PROVE  Sound'
<1> USE EnvironmentAssumption DEF Sound, Kinds
<1>1. Kinds'
  BY DEF DeleteType, Without, Steps, InTransaction, Transaction, AllTrees
<1>2. Transaction'
  BY DEF DeleteType, Without, Transaction, InTransaction, AfterFormat, AllTrees, FailedOpenReleases
<1>3. FileIsWhole'
  BY DEF DeleteType, Without, FileIsWhole, Transaction, InTransaction, AfterFormat
<1>4. FailedOpenReleases'
  BY DEF DeleteType, Without, FailedOpenReleases, Transaction, InTransaction
<1>5. DataHasTheFormat'
  BY DEF DeleteType, Without, DataHasTheFormat, Transaction, InTransaction, AfterFormat, FileIsWhole
<1> QED BY <1>1, <1>2, <1>3, <1>4, <1>5

LEMMA StutterSound ==
  ASSUME Sound, UNCHANGED vars
  PROVE  Sound'
<1> USE EnvironmentAssumption DEF Sound, Kinds
<1>1. Kinds'
  BY DEF vars, Steps, InTransaction, Transaction, AllTrees
<1>2. Transaction'
  BY DEF vars, Transaction, InTransaction, AfterFormat, AllTrees, FailedOpenReleases
<1>3. FileIsWhole'
  BY DEF vars, FileIsWhole, Transaction, InTransaction, AfterFormat
<1>4. FailedOpenReleases'
  BY DEF vars, FailedOpenReleases, Transaction, InTransaction
<1>5. DataHasTheFormat'
  BY DEF vars, DataHasTheFormat, Transaction, InTransaction, AfterFormat, FileIsWhole
<1> QED BY <1>1, <1>2, <1>3, <1>4, <1>5
-----------------------------------------------------------------------------
(* The invariant holds in every state.                                     *)
THEOREM Soundness == Spec => []Sound
<1>1. Init => Sound  BY InitSound
<1>2. Sound /\ [Next]_vars => Sound'
  <2> SUFFICES ASSUME Sound, [Next]_vars PROVE Sound'  OBVIOUS
  <2>1. CASE OpenRoot  BY <2>1, OpenRootSound
  <2>2. CASE OpenMdbEnv  BY <2>2, OpenMdbEnvSound
  <2>3. CASE Begin  BY <2>3, BeginSound
  <2>4. CASE OpenRecords  BY <2>4, OpenRecordsSound
  <2>5. CASE OpenFormat  BY <2>5, OpenFormatSound
  <2>6. CASE OpenTypes  BY <2>6, OpenTypesSound
  <2>7. CASE OpenRelation  BY <2>7, OpenRelationSound
  <2>8. CASE OpenCommit  BY <2>8, OpenCommitSound
  <2>9. CASE OpenFails  BY <2>9, OpenFailsSound
  <2>10. CASE Close  BY <2>10, CloseSound
  <2>11. CASE Crash  BY <2>11, CrashSound
  <2>12. CASE EnsureRelation  BY <2>12, EnsureRelationSound
  <2>13. ASSUME NEW i \in TypeIds, NEW type \in Declarable, CreateType(i, type) PROVE Sound'
    BY <2>13, CreateTypeSound
  <2>14. ASSUME NEW i \in TypeIds, DeleteType(i) PROVE Sound'  BY <2>14, DeleteTypeSound
  <2>15. CASE UNCHANGED vars  BY <2>15, StutterSound
  <2> QED BY <2>1, <2>2, <2>3, <2>4, <2>5, <2>6, <2>7, <2>8, <2>9, <2>10, <2>11, <2>12, <2>13, <2>14, <2>15 DEF Next
<1> QED BY <1>1, <1>2, PTL DEF Spec

(* A file has all its trees and a format, or nothing at all.               *)
THEOREM FilesAreWhole == Spec => []FileIsWhole
<1>1. Sound => FileIsWhole  BY DEF Sound
<1> QED BY <1>1, Soundness, PTL

(* An open that failed leaves no transaction and no environment.           *)
THEOREM OpenReleases == Spec => []FailedOpenReleases
<1>1. Sound => FailedOpenReleases  BY DEF Sound
<1> QED BY <1>1, Soundness, PTL

(* Types are only read by programs with the format they were written with. *)
THEOREM FormatsAgree == Spec => []DataHasTheFormat
<1>1. Sound => DataHasTheFormat  BY DEF Sound
<1> QED BY <1>1, Soundness, PTL
-----------------------------------------------------------------------------
(* The system tree has what was written for each declared type, and the    *)
(* cache what is read from that, once db_open_types has filled it.         *)
Cached == step \in {"types", "relation", "open"}
Written ==
  /\ \A i \in DOMAIN declared : declared[i].type \in Declarable /\ Accepted(declared[i].type)
  /\ file.types = [i \in DOMAIN declared |-> Encoded(declared[i].type)]
  /\ Cached => env.types = [i \in DOMAIN declared |-> Decoded(Encoded(declared[i].type))]

(* Until the commit the transaction of db_open leaves the types alone.     *)
LEMMA OpenWritten ==
  ASSUME Sound, Written,
         \/ OpenRoot \/ OpenMdbEnv \/ Begin \/ OpenRecords \/ OpenFormat \/ OpenRelation
         \/ OpenFails \/ Close \/ Crash \/ EnsureRelation
  PROVE  Written'
<1>1. file' = file /\ declared' = declared
  BY DEF OpenRoot, OpenMdbEnv, Begin, OpenRecords, OpenFormat, OpenRelation, OpenFails, Close, Crash,
         EnsureRelation
<1>2. Cached' => Cached /\ env' = env
  BY DEF Cached, OpenRoot, OpenMdbEnv, Begin, OpenRecords, OpenFormat, OpenRelation, OpenFails, Close,
         Crash, EnsureRelation
<1>3. QED
  BY <1>1, <1>2 DEF Written

LEMMA OpenTypesWritten ==
  ASSUME Sound, Written, OpenTypes
  PROVE  Written'
<1>1. txn.types = file.types
  BY DEF Sound, Transaction, InTransaction, OpenTypes
<1>2. env'.types = [i \in DOMAIN file.types |-> Decoded(file.types[i])]
  BY <1>1 DEF OpenTypes, Sound, Kinds
<1>3. file.types = [i \in DOMAIN declared |-> Encoded(declared[i].type)]
  BY DEF Written
<1>4. env'.types = [i \in DOMAIN declared |-> Decoded(Encoded(declared[i].type))]
  BY <1>2, <1>3
<1>5. file' = file /\ declared' = declared
  BY DEF OpenTypes
<1>6. QED
  BY <1>4, <1>5 DEF Written

LEMMA OpenCommitWritten ==
  ASSUME Sound, Written, OpenCommit
  PROVE  Written'
<1>1. txn.types = file.types /\ file' = txn /\ declared' = declared
  BY DEF Sound, Transaction, InTransaction, OpenCommit
<1>2. env'.types = env.types /\ Cached
  BY DEF OpenCommit, Cached, Sound, Kinds
<1>3. QED
  BY <1>1, <1>2 DEF Written

LEMMA CreateTypeWritten ==
  ASSUME Sound, Written, NEW i \in TypeIds, NEW type \in Declarable, CreateType(i, type)
  PROVE  Written'
<1> DEFINE ids == DOMAIN declared \cup {i}
<1>1. DOMAIN file.types = DOMAIN declared /\ i \notin DOMAIN declared /\ Accepted(type) /\ Cached
  BY DEF Sound, Kinds, CreateType, Cached
<1>2. /\ DOMAIN declared' = ids /\ declared'[i].type = type
      /\ \A k \in DOMAIN declared : declared'[k] = declared[k]
  BY <1>1 DEF CreateType, Plus
<1>3. file'.types = Plus(file.types, i, Encoded(type))
  BY DEF CreateType, Sound, Kinds
<1>4. env'.types = Plus(env.types, i, Decoded(Encoded(type)))
  BY DEF CreateType, Sound, Kinds
<1>5. file'.types = [k \in ids |-> Encoded(declared'[k].type)]
  <2>1. file.types = [k \in DOMAIN declared |-> Encoded(declared[k].type)]
    BY DEF Written
  <2>2. QED
    BY <1>1, <1>2, <1>3, <2>1 DEF Plus
<1>6. env'.types = [k \in ids |-> Decoded(Encoded(declared'[k].type))]
  <2>1. env.types = [k \in DOMAIN declared |-> Decoded(Encoded(declared[k].type))]
    BY <1>1 DEF Written
  <2>2. QED
    BY <1>1, <1>2, <1>4, <2>1 DEF Plus
<1>7. \A k \in ids : declared'[k].type \in Declarable /\ Accepted(declared'[k].type)
  BY <1>1, <1>2 DEF Written
<1>8. QED
  BY <1>2, <1>5, <1>6, <1>7 DEF Written

LEMMA DeleteTypeWritten ==
  ASSUME Sound, Written, NEW i \in TypeIds, DeleteType(i)
  PROVE  Written'
<1> DEFINE ids == DOMAIN declared \ {i}
<1>1. Cached
  BY DEF DeleteType, Cached
<1>2. DOMAIN declared' = ids /\ \A k \in ids : declared'[k] = declared[k]
  BY DEF DeleteType, Without
<1>3. file'.types = Without(file.types, i) /\ env'.types = Without(env.types, i)
  BY DEF DeleteType, Sound, Kinds
<1>4. file'.types = [k \in ids |-> Encoded(declared'[k].type)]
  <2>1. file.types = [k \in DOMAIN declared |-> Encoded(declared[k].type)]
    BY DEF Written
  <2>2. QED
    BY <1>2, <1>3, <2>1 DEF Without
<1>5. env'.types = [k \in ids |-> Decoded(Encoded(declared'[k].type))]
  <2>1. env.types = [k \in DOMAIN declared |-> Decoded(Encoded(declared[k].type))]
    BY <1>1 DEF Written
  <2>2. QED
    BY <1>2, <1>3, <2>1 DEF Without
<1>6. QED
  BY <1>2, <1>4, <1>5 DEF Written

(* Opening, however often it fails or is cut off, gives the types that     *)
(* were declared and not deleted, as they were declared (open.c:327).      *)
THEOREM DeclaredTypesSurvive == TypesComeBack => (Spec => []TypesSurvive)
<1> SUFFICES ASSUME TypesComeBack PROVE Spec => []TypesSurvive
  OBVIOUS
<1>1. Init => Written
  BY DEF Init, Written, Cached, None
<1>2. Sound /\ Written /\ [Next]_vars => Written'
  <2> SUFFICES ASSUME Sound, Written, [Next]_vars PROVE Written'
    OBVIOUS
  <2>1. CASE \/ OpenRoot \/ OpenMdbEnv \/ Begin \/ OpenRecords \/ OpenFormat \/ OpenRelation
             \/ OpenFails \/ Close \/ Crash \/ EnsureRelation
    BY <2>1, OpenWritten
  <2>2. CASE OpenTypes
    BY <2>2, OpenTypesWritten
  <2>3. CASE OpenCommit
    BY <2>3, OpenCommitWritten
  <2>4. ASSUME NEW i \in TypeIds, NEW type \in Declarable, CreateType(i, type)
        PROVE  Written'
    BY <2>4, CreateTypeWritten
  <2>5. ASSUME NEW i \in TypeIds, DeleteType(i)
        PROVE  Written'
    BY <2>5, DeleteTypeWritten
  <2>6. CASE UNCHANGED vars
    BY <2>6 DEF vars, Written, Cached
  <2>7. QED
    BY <2>1, <2>2, <2>3, <2>4, <2>5, <2>6 DEF Next
<1>3. Written => TypesSurvive
  <2> SUFFICES ASSUME Written, step = "open"
               PROVE  env.types = [i \in DOMAIN declared |-> Expected(declared[i].type)]
    BY DEF TypesSurvive
  <2>1. \A i \in DOMAIN declared : Decoded(Encoded(declared[i].type)) = Expected(declared[i].type)
    BY DEF Written, TypesComeBack
  <2>2. env.types = [i \in DOMAIN declared |-> Decoded(Encoded(declared[i].type))]
    BY DEF Written, Cached
  <2>3. QED
    BY <2>1, <2>2
<1>4. QED
  BY <1>1, <1>2, <1>3, Soundness, PTL DEF Spec
=============================================================================
