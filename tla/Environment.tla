------------------------------ MODULE Environment ------------------------------
(***************************************************************************)
(* db_open and db_close (open.c, main.c) step by step.  Opening acquires   *)
(* one thing after the other; any step can fail, which releases all of     *)
(* them, and the process can end at any step.  What is in the file is only *)
(* what was committed.  A program is compiled with sizes of ids and        *)
(* ordinals, its format; the next program that opens the file may have     *)
(* others.                                                                 *)
(***************************************************************************)
EXTENDS TypeData

CONSTANTS Formats,    \* db_open_format: version and sizes, as one value
          TypeIds,    \* ids that types can get, see TypeCatalogue
          Declarable, \* the types that a program declares
          Null        \* a null pointer, a missing entry

ASSUME EnvironmentAssumption == /\ Null \notin Formats
                                /\ TypeIds \subseteq Nat /\ 0 \notin TypeIds

VARIABLES file,     \* the committed trees: [format, types, trees]
          txn,      \* the same in the write transaction of db_open, or Null
          env,      \* db_env_t: [root, mdb, format, types, is_open]
          step,     \* where db_open is; "closed" and "open" outside of it
          readOnly, \* options->is_read_only
          program,  \* the format of the running program
          declared, \* history: type id -> the type as it was declared, and the
                    \* format of the program that declared it
          related   \* history: the formats that relations were written with

vars == <<file, txn, env, step, readOnly, program, declared, related>>

None == [i \in {} |-> Null]   \* no types
AllTrees == {"records", "system", "relation-lr", "relation-rl", "relation-ll"}

Closed == [root |-> FALSE, mdb |-> FALSE, format |-> Null, types |-> Null, is_open |-> FALSE]

Init == /\ file = [format |-> Null, types |-> None, trees |-> {}]
        /\ txn = Null /\ env = Closed /\ step = "closed" /\ readOnly = FALSE
        /\ program \in Formats /\ declared = None /\ related = {}
-----------------------------------------------------------------------------
(* db_open, up to db_open_root.                                            *)
OpenRoot == /\ step = "closed" /\ step' = "root" /\ readOnly' \in BOOLEAN
            /\ env' = [env EXCEPT !.root = TRUE]
            /\ UNCHANGED <<file, txn, program, declared, related>>

OpenMdbEnv == /\ step = "root" /\ step' = "mdb" /\ env' = [env EXCEPT !.mdb = TRUE]
              /\ UNCHANGED <<file, txn, readOnly, program, declared, related>>

(* The transaction is one that writes, and LMDB refuses it to an           *)
(* environment that is only read.                                          *)
Begin == /\ step = "mdb" /\ ~readOnly /\ step' = "txn" /\ txn' = file
         /\ UNCHANGED <<file, env, readOnly, program, declared, related>>

OpenRecords == /\ step = "txn" /\ step' = "records"
               /\ txn' = [txn EXCEPT !.trees = @ \cup {"records"}]
               /\ UNCHANGED <<file, env, readOnly, program, declared, related>>

(* A mutant: the format is replaced whatever the system tree has.          *)
FormatMayChange_Always == TRUE
FormatMayChange == txn.format = Null \/ DOMAIN txn.types = {}

(* db_open_system, db_open_format: without this step nothing but OpenFails *)
(* can follow.                                                             *)
OpenFormat ==
  /\ step = "records" /\ (program = txn.format \/ FormatMayChange)
  /\ step' = "format" /\ env' = [env EXCEPT !.format = program]
  /\ txn' = [txn EXCEPT !.trees = @ \cup {"system"}, !.format = program]
  /\ UNCHANGED <<file, readOnly, program, declared, related>>

(* A mutant: the trees of records and types are committed before the rest. *)
OpenTypes_Commits ==
  /\ step = "format" /\ step' = "types" /\ file' = txn
  /\ env' = [env EXCEPT !.types = [i \in DOMAIN txn.types |-> Decoded(txn.types[i])]]
  /\ UNCHANGED <<txn, readOnly, program, declared, related>>
(* db_open_types                                                           *)
OpenTypes ==
  /\ step = "format" /\ step' = "types"
  /\ env' = [env EXCEPT !.types = [i \in DOMAIN txn.types |-> Decoded(txn.types[i])]]
  /\ UNCHANGED <<file, txn, readOnly, program, declared, related>>

OpenRelation ==
  /\ step = "types" /\ step' = "relation"
  /\ txn' = [txn EXCEPT !.trees = @ \cup {"relation-lr", "relation-rl", "relation-ll"}]
  /\ UNCHANGED <<file, env, readOnly, program, declared, related>>

OpenCommit ==
  /\ step = "relation" /\ step' = "open" /\ file' = txn /\ txn' = Null
  /\ env' = [env EXCEPT !.is_open = TRUE]
  /\ UNCHANGED <<readOnly, program, declared, related>>

Released == [env EXCEPT !.root = FALSE, !.mdb = FALSE, !.types = Null, !.is_open = FALSE]

(* A mutant: the transaction stays.                                        *)
OpenFails_KeepsTxn ==
  /\ step \notin {"closed", "open"} /\ step' = "closed" /\ env' = Released
  /\ UNCHANGED <<file, txn, readOnly, program, declared, related>>
(* The exit of db_open: what was begun is aborted, and db_close called.    *)
OpenFails ==
  /\ step \notin {"closed", "open"} /\ step' = "closed" /\ env' = Released /\ txn' = Null
  /\ UNCHANGED <<file, readOnly, program, declared, related>>

(* db_close                                                                *)
Close == /\ step = "open" /\ step' = "closed" /\ env' = Released
         /\ UNCHANGED <<file, txn, readOnly, program, declared, related>>

(* The process ends, and another program starts.                           *)
Crash == /\ step' = "closed" /\ env' = Closed /\ txn' = Null /\ readOnly' = FALSE
         /\ program' \in Formats /\ UNCHANGED <<file, declared, related>>
-----------------------------------------------------------------------------
Plus(f, i, value)  == [k \in DOMAIN f \cup {i} |-> IF k = i THEN value ELSE f[k]]
Without(f, i)      == [k \in DOMAIN f \ {i} |-> f[k]]

(* db_type_create, db_type_delete and db_relation_ensure with their        *)
(* transactions, of which TypeCatalogue and RelationTrees have the steps.  *)
CreateType(i, type) ==
  /\ step = "open" /\ i \notin DOMAIN file.types /\ Accepted(type)
  /\ \A k \in DOMAIN env.types : env.types[k].name # type.name
  /\ file' = [file EXCEPT !.types = Plus(@, i, Encoded(type))]
  /\ env' = [env EXCEPT !.types = Plus(@, i, Decoded(Encoded(type)))]
  /\ declared' = Plus(declared, i, [type |-> type, format |-> program])
  /\ UNCHANGED <<txn, step, readOnly, program, related>>

DeleteType(i) ==
  /\ step = "open" /\ i \in DOMAIN file.types
  /\ file' = [file EXCEPT !.types = Without(@, i)]
  /\ env' = [env EXCEPT !.types = Without(@, i)]
  /\ declared' = Without(declared, i)
  /\ UNCHANGED <<txn, step, readOnly, program, related>>

EnsureRelation ==
  /\ step = "open" /\ related' = related \cup {program}
  /\ UNCHANGED <<file, txn, env, step, readOnly, program, declared>>
-----------------------------------------------------------------------------
Next ==
  \/ OpenRoot \/ OpenMdbEnv \/ Begin \/ OpenRecords \/ OpenFormat \/ OpenTypes
  \/ OpenRelation \/ OpenCommit \/ OpenFails \/ Close \/ Crash \/ EnsureRelation
  \/ \E i \in TypeIds : DeleteType(i) \/ \E type \in Declarable : CreateType(i, type)

Spec == Init /\ [][Next]_vars
-----------------------------------------------------------------------------
(* What a program can ask of a type it declared.                           *)
Expected(type) ==
  LET fixed == SelectSeq(type.fields, LAMBDA field : IsFixed(field.code))
      start(i) == FoldSeq(+, 0, [k \in 1 .. i - 1 |-> FieldSize(fixed[k].code)])
  IN [flags |-> type.flags, name |-> type.name,
      fields |-> [i \in DOMAIN type.fields |->
                    [code |-> type.fields[i].code, name |-> type.fields[i].name,
                     offset |-> i - 1, size |-> FieldSize(type.fields[i].code)]],
      fixed |-> Len(fixed),
      offsets |-> IF fixed = <<>> THEN <<>> ELSE [i \in 1 .. Len(fixed) + 1 |-> start(i)]]

(* What db_type_create writes of the types that programs declare is read   *)
(* back: the names, fields and sizes fit into the octets there are.        *)
TypesComeBack == \A type \in Declarable : Accepted(type) => Decoded(Encoded(type)) = Expected(type)

(* The types of an open database are those that were declared and not      *)
(* deleted, with fields, sizes and offsets as declared, whatever closings, *)
(* failures and ends of the process are between.                           *)
TypesSurvive == step = "open" => env.types = [i \in DOMAIN declared |-> Expected(declared[i].type)]

(* An open that failed leaves nothing behind: no transaction, which would  *)
(* keep all writers out, no environment, and no way to take it for open.   *)
FailedOpenReleases ==
  step = "closed" => txn = Null /\ ~env.root /\ ~env.mdb /\ ~env.is_open /\ env.types = Null

(* All types of the file were written with the format that the file says   *)
(* it has, and only programs with that format have it open.                *)
DataHasTheFormat ==
  /\ \A i \in DOMAIN declared : declared[i].format = file.format
  /\ step = "open" => file.format = program /\ env.format = program

(* A file has all of its trees and a format, or nothing yet, wherever an   *)
(* open failed or the process ended.                                       *)
FileIsWhole == \/ file.trees = {} /\ file.format = Null /\ DOMAIN file.types = {}
               \/ file.trees = AllTrees /\ file.format # Null

(* Not checked, see the README: types can be deleted and their relations   *)
(* stay.                                                                   *)
RelationsHaveTheFormat == step = "open" => related \subseteq {program}
=============================================================================
