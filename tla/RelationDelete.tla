--------------------------- MODULE RelationDelete ---------------------------
(***************************************************************************)
(* db_relation_delete, cursor step by cursor step (relation-delete.c).     *)
(* Which of the nine walks runs depends on which arguments are given.  A   *)
(* walk moves a cursor through one tree, deletes under it, and looks the   *)
(* counterparts up in the other two; its control is made of labels and     *)
(* gotos, kept here as the values of pc.  A walk must visit every matching *)
(* entry although it deletes the entry it stands on, and must end although *)
(* it goes back to where it was.                                           *)
(*                                                                         *)
(* The walks implement the deletions of RelationTrees, where each is one   *)
(* step on sets.                                                           *)
(***************************************************************************)
EXTENDS RelationCursors

CONSTANTS Calls,      \* the arguments deletions are called with
          Relations   \* bound: the relations that are created, as entries of lr

VARIABLES trees,    \* [lr, rl, ll]
          pc,       \* the label the walk has come to, or "idle"
          call,     \* the arguments of the running deletion
          left, right, label,   \* what is left of the id arrays
          at,       \* the entry the cursor that walks has landed on
          at2,      \* the same for the lr cursor of 0010
          from,     \* relation_key[1]: the label a range scan starts at
          start     \* history: trees when the deletion was called

vars == <<trees, pc, call, left, right, label, at, at2, from, start>>
arrays == <<left, right, label>>

ASSUME CallsAssumption == Calls \subseteq Call
ASSUME RelationsAssumption == Relations \subseteq LrEntry

(* db_relation_internal_delete: the walk for the arguments that are given. *)
Walk(c) ==
  CASE c.left # Null /\ c.ordinal # Null -> IF c.label = Null THEN "1001_1101" ELSE "1011_1111"
    [] c.left # Null /\ c.ordinal = Null /\ c.label # Null -> IF c.right = Null THEN "1010" ELSE "1110"
    [] c.left # Null /\ c.ordinal = Null /\ c.label = Null -> IF c.right = Null THEN "1000" ELSE "1100"
    [] c.left = Null /\ c.right # Null -> IF c.label = Null THEN "0100" ELSE "0110"
    [] c.left = Null /\ c.right = Null -> IF c.label = Null THEN "none" ELSE "0010"

(* The label a walk begins at; without ids the call is not_implemented.    *)
Entry(walk) == CASE walk \in {"1000", "1100", "1001_1101"} -> "set_range"
                 [] walk \in {"1010", "1110", "1011_1111", "0110", "0010"} -> "set_key"
                 [] walk = "0100" -> "set_range_right"
                 [] walk = "none" -> "exit"

walk == Walk(call)
Goto(p) == pc' = p
At(walks, p) == pc = p /\ walk \in walks

RightIsIn(e) == Selects(Ids(call.right), e.data[2])
Above(e) == call.ordinal # Null /\ call.ordinal.max # 0 /\ e.data[1] > call.ordinal.max

(* The trees without an entry of lr, the entry of rl or ll that belongs to *)
(* it, or the entry of ll if lr has no data for its key any more.          *)
WithoutLr(t, e) == [t EXCEPT !.lr = @ \ {e}]
WithoutRl(t, e) == [t EXCEPT !.rl = @ \ {RlOf(e)}]
WithoutLl(t, key) == [t EXCEPT !.ll = @ \ {Ll(key[2], key[1])}]
WithoutLlIfLast(t, key) == IF HasKey(t.lr, key[1], key[2]) THEN t ELSE WithoutLl(t, key)

(* db_pointer_to_id_at(key, 1), and a mutant with the other index.         *)
LabelOf_Index0(key) == key[1]
LabelOf(key) == key[2]

(* db_mdb_relation_lr_seek_right: the first data of the key with the right.*)
SeekRight(lr, key, id) == LR!Least({e \in lr : e.key = key /\ e.data[2] = id})

Advance(inner, rewound, outer) ==
  LET next == AfterForward(inner, rewound, outer)
  IN /\ inner' = next[1] /\ outer' = next[2]
     /\ Goto(IF next[2] = <<>> THEN "exit" ELSE "set_key")
-----------------------------------------------------------------------------
(* 1000, 1100 and 1001_1101 walk the keys of a left.                       *)
SetRange ==
  /\ At({"1000", "1100", "1001_1101"}, "set_range")
  /\ at' = LR!SetRange(trees.lr, <<Head(left), from>>)
  /\ Goto("each_key")
  /\ UNCHANGED <<trees, call, arrays, at2, from, start>>

NextLeft == /\ ~ \E e \in at : e.key[1] = Head(left)
            /\ left' = Tail(left)
            /\ from' = 0
            /\ Goto(IF Tail(left) = <<>> THEN "exit" ELSE "set_range")
            /\ UNCHANGED <<trees, call, right, label, at, at2, start>>

EachKey ==
  /\ At({"1000", "1100"}, "each_key")
  /\ \/ /\ \E e \in at : e.key[1] = Head(left)
        /\ Goto("each_data")
        /\ UNCHANGED <<trees, call, arrays, at, at2, from, start>>
     \/ NextLeft

EachKey_1001_1101 ==
  /\ At({"1001_1101"}, "each_key")
  /\ \/ \E e \in at :
          LET found == LR!GetBothRange(trees.lr, e.key, <<ScanStart(call.ordinal.min), 0>>)
          IN /\ e.key[1] = Head(left)
             /\ IF found # {}
                THEN at' = found /\ Goto("each_data")
                ELSE at' = LR!NextNodup(trees.lr, e) /\ Goto("each_key")
             /\ UNCHANGED <<trees, call, arrays, at2, from, start>>
     \/ NextLeft

(* A mutant: the key is deleted before the last of its data has been read. *)
EachData_1000_KeyFirst ==
  /\ At({"1000"}, "each_data")
  /\ \E e \in at :
       LET t == WithoutLl(WithoutRl(trees, e), e.key)
           next == LR!NextDup(trees.lr, e)
       IN /\ trees' = [t EXCEPT !.lr = {d \in @ : d.key # e.key}]
          /\ IF next # {}
             THEN at' = next /\ Goto("each_data")
             ELSE at' = LR!NextNodup(trees.lr, e) /\ Goto("each_key")
  /\ UNCHANGED <<call, arrays, at2, from, start>>

EachData_1000 ==
  /\ At({"1000"}, "each_data")
  /\ \E e \in at :
       LET t == WithoutLl(WithoutRl(trees, e), e.key)
           next == LR!NextDup(trees.lr, e)
       IN IF next # {}
          THEN trees' = t /\ at' = next /\ Goto("each_data")
          ELSE /\ trees' = [t EXCEPT !.lr = {d \in @ : d.key # e.key}]
               /\ at' = LR!NextNodup(trees.lr, e)
               /\ Goto("each_key")
  /\ UNCHANGED <<call, arrays, at2, from, start>>

(* A mutant: the cursor is not set to the key again, so that a deletion    *)
(* that emptied it skips to the key after the next.                        *)
KeyAgain_Skips(t, e) ==
  LET next == LR!NextNodup(t.lr, e)
  IN IF LR!SetKey(t.lr, e.key) # {} \/ next = {}
     THEN at' = next /\ Goto("each_key")
     ELSE at' = UNION {LR!NextNodup(t.lr, d) : d \in next} /\ Goto("each_key")

(* The lr cursor has been used to ask for the last one: set it to the key  *)
(* again and go to the next, or scan from the key if that is gone.         *)
KeyAgain(t, e) ==
  IF LR!SetKey(t.lr, e.key) # {}
  THEN at' = LR!NextNodup(t.lr, e) /\ Goto("each_key")
  ELSE UNCHANGED at /\ Goto("set_range")

EachData_1100_1001_1101 ==
  /\ At({"1100", "1001_1101"}, "each_data")
  /\ \E e \in at :
       LET t == IF RightIsIn(e) THEN WithoutLr(WithoutRl(trees, e), e) ELSE trees
           next == LR!NextDup(trees.lr, e)
       IN \/ /\ ~Above(e) /\ next # {}
             /\ trees' = t /\ at' = next
             /\ Goto("each_data") /\ UNCHANGED from
          \/ /\ ~Above(e) /\ next = {}
             /\ trees' = WithoutLlIfLast(t, e.key)
             /\ from' = LabelOf(e.key) /\ KeyAgain(t, e)
          \/ /\ Above(e)
             /\ from' = LabelOf(e.key) /\ KeyAgain(trees, e)
             /\ UNCHANGED trees
  /\ UNCHANGED <<call, arrays, at2, start>>
-----------------------------------------------------------------------------
(* 1010, 1110 and 1011_1111 look up every left and label.                  *)
NextLeftLabel == Advance(label, call.label, left) /\ UNCHANGED right
NextLabelLeft == Advance(left, call.left, label) /\ UNCHANGED right

SetKey_1010_1110 ==
  /\ At({"1010", "1110"}, "set_key")
  /\ LET key == <<Head(left), Head(label)>>
         found == LR!SetKey(trees.lr, key)
     IN /\ at' = found
        /\ IF found # {}
           THEN Goto("each_data") /\ UNCHANGED <<trees, arrays>>
           ELSE /\ trees' = IF walk = "1110" THEN WithoutLlIfLast(trees, key) ELSE trees
                /\ NextLeftLabel
  /\ UNCHANGED <<call, at2, from, start>>

EachData_1010 ==
  /\ At({"1010"}, "each_data")
  /\ \E e \in at :
       LET t == WithoutLl(WithoutRl(trees, e), e.key)
           next == LR!NextDup(trees.lr, e)
       IN /\ at' = next
          /\ IF next # {}
             THEN trees' = t /\ Goto("each_data") /\ UNCHANGED arrays
             ELSE trees' = [t EXCEPT !.lr = {d \in @ : d.key # e.key}] /\ NextLeftLabel
  /\ UNCHANGED <<call, at2, from, start>>

EachData_1110 ==
  /\ At({"1110"}, "each_data")
  /\ \E e \in at :
       LET t == IF RightIsIn(e) THEN WithoutLr(WithoutRl(trees, e), e) ELSE trees
           next == LR!NextDup(trees.lr, e)
       IN /\ at' = next
          /\ IF next # {}
             THEN trees' = t /\ Goto("each_data") /\ UNCHANGED arrays
             ELSE trees' = WithoutLlIfLast(t, e.key) /\ NextLeftLabel
  /\ UNCHANGED <<call, at2, from, start>>

SetKey_1011_1111 ==
  /\ At({"1011_1111"}, "set_key")
  /\ at' = LR!GetBothRange(trees.lr, <<Head(left), Head(label)>>,
                           <<ScanStart(call.ordinal.min), 0>>)
  /\ IF at' # {} THEN Goto("each_data") /\ UNCHANGED arrays ELSE NextLabelLeft
  /\ UNCHANGED <<trees, call, at2, from, start>>

EachData_1011_1111 ==
  /\ At({"1011_1111"}, "each_data")
  /\ \E e \in at :
       LET t == IF ~Above(e) /\ RightIsIn(e) THEN WithoutLr(WithoutRl(trees, e), e) ELSE trees
           next == LR!NextDup(trees.lr, e)
       IN /\ at' = next
          /\ IF ~Above(e) /\ next # {}
             THEN trees' = t /\ Goto("each_data") /\ UNCHANGED arrays
             ELSE trees' = WithoutLlIfLast(t, e.key) /\ NextLabelLeft
  /\ UNCHANGED <<call, at2, from, start>>
-----------------------------------------------------------------------------
(* 0110 and 0100 walk rl.  The cursor deletes the entry it stands on.      *)
SetKey_0110 ==
  /\ At({"0110"}, "set_key")
  /\ at' = RL!SetKey(trees.rl, <<Head(right), Head(label)>>)
  /\ IF at' # {}
     THEN Goto("each_data") /\ UNCHANGED arrays
     ELSE Advance(right, call.right, label) /\ UNCHANGED left
  /\ UNCHANGED <<trees, call, at2, from, start>>

(* The trees without the relation of an entry of rl.                       *)
WithoutRelation(t, x) ==
  [t EXCEPT !.lr = @ \ SeekRight(@, <<x.data, x.key[2]>>, x.key[1]), !.rl = @ \ {x}]

EachData_0110 ==
  /\ At({"0110"}, "each_data")
  /\ \E x \in at :
       LET next == RL!NextDup(trees.rl, x)
       IN /\ trees' = WithoutLl(WithoutRelation(trees, x), <<x.data, x.key[2]>>)
          /\ at' = next
          /\ IF next # {}
             THEN Goto("each_data") /\ UNCHANGED arrays
             ELSE Advance(right, call.right, label) /\ UNCHANGED left
  /\ UNCHANGED <<call, at2, from, start>>

SetRange_0100 ==
  /\ At({"0100"}, "set_range_right")
  /\ at' = RL!SetRange(trees.rl, <<Head(right), 0>>)
  /\ IF \E x \in at' : x.key[1] = Head(right)
     THEN Goto("each_data") /\ UNCHANGED right
     ELSE /\ right' = Tail(right)
          /\ Goto(IF Tail(right) = <<>> THEN "exit" ELSE "set_range_right")
  /\ UNCHANGED <<trees, call, left, label, at2, from, start>>

(* A mutant: the entry of rl stays.                                        *)
EachData_0100_KeepsRl ==
  /\ At({"0100"}, "each_data")
  /\ \E x \in at :
       LET next == RL!NextDup(trees.rl, x)
           t == [WithoutRelation(trees, x) EXCEPT !.rl = trees.rl]
       IN /\ trees' = WithoutLlIfLast(t, <<x.data, x.key[2]>>)
          /\ at' = next
          /\ Goto(IF next # {} THEN "each_data" ELSE "set_range_right")
  /\ UNCHANGED <<call, arrays, at2, from, start>>

EachData_0100 ==
  /\ At({"0100"}, "each_data")
  /\ \E x \in at :
       LET next == RL!NextDup(trees.rl, x)
       IN /\ trees' = WithoutLlIfLast(WithoutRelation(trees, x), <<x.data, x.key[2]>>)
          /\ at' = next
          /\ Goto(IF next # {} THEN "each_data" ELSE "set_range_right")
  /\ UNCHANGED <<call, arrays, at2, from, start>>
-----------------------------------------------------------------------------
(* 0010 walks ll and, for every left it finds, the data of one key of lr.  *)
NextLabel == /\ label' = Tail(label)
             /\ Goto(IF Tail(label) = <<>> THEN "exit" ELSE "set_key")

SetKey_0010 ==
  /\ At({"0010"}, "set_key")
  /\ at' = LL!SetKey(trees.ll, Head(label))
  /\ IF at' # {} THEN Goto("each_data") /\ UNCHANGED label ELSE NextLabel
  /\ UNCHANGED <<trees, call, left, right, at2, from, start>>

EachData_0010 ==
  /\ At({"0010"}, "each_data")
  /\ \E x \in at : at2' = LR!SetKey(trees.lr, <<x.data, x.key>>)
  /\ Goto("each_data_2")
  /\ UNCHANGED <<trees, call, arrays, at, from, start>>

EachData2_0010 ==
  /\ At({"0010"}, "each_data_2")
  /\ \/ \E e \in at2 :
          /\ trees' = WithoutLr(WithoutRl(trees, e), e)
          /\ at2' = LR!NextDup(trees.lr, e)
          /\ UNCHANGED <<pc, at, label>>
     \/ /\ at2 = {}
        /\ \E x \in at : /\ trees' = [trees EXCEPT !.ll = @ \ {x}]
                         /\ at' = LL!NextDup(trees.ll, x)
        /\ IF at' # {} THEN Goto("each_data") /\ UNCHANGED label ELSE NextLabel
        /\ UNCHANGED at2
  /\ UNCHANGED <<call, left, right, from, start>>
-----------------------------------------------------------------------------
Delete(c) ==
  /\ pc = "idle" /\ Goto(Entry(Walk(c)))
  /\ call' = c
  /\ left' = ArrayIn(c.left) /\ right' = ArrayIn(c.right) /\ label' = ArrayIn(c.label)
  /\ start' = trees
  /\ UNCHANGED <<trees, at, at2, from>>

Idle == /\ pc' = "idle" /\ call' = Null
        /\ left' = <<>> /\ right' = <<>> /\ label' = <<>>
        /\ at' = {} /\ at2' = {} /\ from' = 0
Return == pc = "exit" /\ Idle /\ start' = trees /\ UNCHANGED trees

(* db_relation_ensure for one relation, as RelationTrees has it.           *)
T == INSTANCE RelationTrees WITH trees <- IF pc = "idle" THEN trees ELSE start,
                                 Filters <- {FilterOf(c) : c \in Calls}

Ensure == /\ pc = "idle"
          /\ \E e \in Relations :
               trees' = T!Ensured(trees, {e.key[1]}, {e.key[2]}, {e.data[2]},
                                  [x \in {<<e.key[1], e.key[2], e.data[2]>>} |-> e.data[1]])
          /\ start' = trees'
          /\ UNCHANGED <<pc, call, arrays, at, at2, from>>

Init == /\ trees = [lr |-> {}, rl |-> {}, ll |-> {}]
        /\ start = trees
        /\ pc = "idle" /\ call = Null
        /\ left = <<>> /\ right = <<>> /\ label = <<>>
        /\ at = {} /\ at2 = {} /\ from = 0

Step == \/ SetRange \/ EachKey \/ EachKey_1001_1101
        \/ EachData_1000 \/ EachData_1100_1001_1101
        \/ SetKey_1010_1110 \/ EachData_1010 \/ EachData_1110
        \/ SetKey_1011_1111 \/ EachData_1011_1111
        \/ SetKey_0110 \/ EachData_0110 \/ SetRange_0100 \/ EachData_0100
        \/ SetKey_0010 \/ EachData_0010 \/ EachData2_0010
        \/ Return

Next == \/ Step
        \/ Ensure
        \/ \E c \in Calls : Delete(c)

Spec == Init /\ [][Next]_vars /\ WF_vars(Step)
-----------------------------------------------------------------------------
(* Trees hold entries of their kind, cursors entries of the tree they walk.*)
TypeOK ==
  /\ trees \in Trees /\ start \in Trees
  /\ at \subseteq (IF pc = "idle" THEN {}
                   ELSE CASE walk \in {"0100", "0110"} -> RlEntry
                          [] walk = "0010" -> LlEntry
                          [] OTHER -> LrEntry)
  /\ at2 \subseteq LrEntry
  /\ from \in Label \cup {0}

(* The cursor that walks stands on an entry that is there when its data is *)
(* read: nothing that was deleted since it landed took the entry away.     *)
CursorIsOnAnEntry ==
  pc \in {"each_data", "each_data_2"} =>
    \E e \in at : CASE walk \in {"0100", "0110"} -> e \in trees.rl
                    [] walk = "0010" -> e \in trees.ll
                    [] OTHER -> e \in trees.lr

(* A walk has deleted exactly what RelationTrees says of the call when it  *)
(* comes to exit, in whatever order the ids were given: it misses no entry *)
(* by deleting under its cursor, and takes none that does not match.       *)
WalkIsExact == pc = "exit" => trees = T!Deleted(start, FilterOf(call))

(* A deletion ends: the walks that go back to a label by goto have taken   *)
(* something out in between.                                               *)
DeletionEnds == pc # "idle" ~> pc = "idle"
=============================================================================
