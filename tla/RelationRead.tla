---------------------------- MODULE RelationRead ----------------------------
(***************************************************************************)
(* db_relation_select, db_relation_read and db_relation_skip, cursor step  *)
(* by cursor step (relation-read.c).  A selection picks one of ten readers *)
(* by which filters are given.  A reader is called again and again for the *)
(* next results: it keeps its place in the cursor and in the current       *)
(* positions of the id arrays, stops in the middle of a key when enough    *)
(* has been read, and has to find its way back in at the next call.        *)
(* The trees do not change while a selection is open: it belongs to a read *)
(* transaction, a snapshot.                                                *)
(***************************************************************************)
EXTENDS RelationCursors

CONSTANTS Calls,    \* the arguments selections are made with
          Counts,   \* the counts read and skip are called with
          Skips,    \* the counts skip is called with
          Relations \* bound: the relations that may exist, as entries of lr

VARIABLES trees,    \* [lr, rl, ll]
          pc,       \* "closed", "open" between calls, a label of the reader, "end"
          call,     \* the filters selections are made with
          left, right, label,   \* what is left of the id arrays
          at,       \* the entry the cursor of the selection has landed on
          at2,      \* where the second cursor stands, on lr, for 0010
          count,    \* what is left to read of the count asked for
          skip,     \* db_selection_flag_skip
          status,   \* of the last call
          seen,     \* history: the matches read or skipped, in order
          asked     \* history: how many matches seen should come to

vars == <<trees, pc, call, left, right, label, at, at2, count, skip, status, seen, asked>>
arrays == <<left, right, label>>
selection == <<trees, call, skip>>

ASSUME CallsAssumption == Calls \subseteq Call
(* One ordinal for a left, label and right.                                *)
Unique(lr) == \A d, e \in lr : d.key = e.key /\ d.data[2] = e.data[2] => d = e

ASSUME RelationsAssumption == Relations \subseteq LrEntry /\ Unique(Relations)
ASSUME CountsAssumption == Counts \subseteq Nat \ {0} /\ Skips \subseteq Nat \ {0}

(* db_relation_select: the reader for the filters that are given.          *)
Reader(c) ==
  CASE c.left # Null /\ c.ordinal # Null -> IF c.label = Null THEN "1001_1101" ELSE "1011_1111"
    [] c.left # Null /\ c.ordinal = Null /\ c.right # Null -> IF c.label = Null THEN "1100" ELSE "1110"
    [] c.left # Null /\ c.ordinal = Null /\ c.right = Null -> IF c.label = Null THEN "1000" ELSE "1010"
    [] c.left = Null /\ c.right # Null -> IF c.label = Null THEN "0100" ELSE "0110"
    [] c.left = Null /\ c.right = Null -> IF c.label = Null THEN "0000" ELSE "0010"

(* The selections that are read as they are meant (README, divergences):   *)
(* no id is given twice, a condition on ordinals comes with lefts, which   *)
(* readers need to heed it, and the reader 0010 finds no other label where *)
(* its lr cursor stands already.                                           *)
OneLabelEach == \A d, e \in Relations : d.key[1] = e.key[1] => d.key[2] = e.key[2]
Sound(c) ==
  /\ \A array \in {c.left, c.label, c.right} : array # Null => IsInjective(array)
  /\ c.ordinal # Null => c.left # Null
  /\ Reader(c) = "0010" => \/ OneLabelEach
                          \/ /\ Len(c.label) = 1
                             /\ \A e \in Relations : c.label[1] <= e.key[2]

reader == Reader(call)
OverRl == {"1100", "1110", "0110", "0100"}       \* the readers with a cursor on rl

Goto(p) == pc' = p
At(readers, p) == pc = p /\ reader \in readers

NextDup(e) == IF reader \in OverRl THEN RL!NextDup(trees.rl, e) ELSE LR!NextDup(trees.lr, e)
NextNodup(e) == IF reader \in OverRl THEN RL!NextNodup(trees.rl, e) ELSE LR!NextNodup(trees.lr, e)

(* The relation an entry stands for.                                       *)
RelationAt(e) == IF reader \in OverRl THEN <<e.data, e.key[2], e.key[1]>>
                 ELSE <<e.key[1], e.key[2], e.data[2]>>

(* The conditions of 1001_1101 and 1011_1111 on an entry of lr.            *)
HasOrdinal == call.ordinal # Null
Above(e) == HasOrdinal /\ call.ordinal.max # 0 /\ e.data[1] > call.ordinal.max
Counted(e) == HasOrdinal => /\ call.ordinal.min <= e.data[1]
                            /\ Selects(Ids(call.right), e.data[2])

(* A mutant: what is skipped is not counted.                              *)
Take_SkipIsFree(relation) ==
  seen' = Append(seen, relation) /\ count' = IF skip THEN count ELSE count - 1

(* A match is added to the result, or only counted when skipping.          *)
Take(relation) == seen' = Append(seen, relation) /\ count' = count - 1
Pass == UNCHANGED <<seen, count>>

End == Goto("end") /\ status' = "notfound"
(* The status of LMDB is left as it is; only db_relation_read converts it. *)
EndUnconverted == Goto("end") /\ status' = IF skip THEN "MDB_NOTFOUND" ELSE "notfound"
(* The loop went on to the next array element p, or the arrays are through.*)
OnOrEnd(array, p) == IF array = <<>> THEN End ELSE Goto(p) /\ UNCHANGED status

(* stop_if_count_zero                                                      *)
Stop == /\ pc \in {"each_data", "each_left", "each_left_data"} /\ count = 0
        /\ Goto("open") /\ status' = "success"
        /\ UNCHANGED <<selection, arrays, at, at2, count, seen, asked>>
-----------------------------------------------------------------------------
(* 1000, 1001_1101, 0100 and 0000 walk ranges of keys: those of one id, or *)
(* all of them.                                                            *)
RangeReaders == {"1000", "1001_1101", "0100", "0000"}

InCurrentRange(e) == CASE reader = "0000" -> TRUE
                       [] reader \in {"0100", "1100"} -> e.key[1] = Head(right)
                       [] OTHER -> e.key[1] = Head(left)

(* The next id, whose range is looked up, if there is one.                 *)
ForwardRange ==
  CASE reader = "0000" -> EndUnconverted /\ UNCHANGED arrays
    [] reader \in {"0100", "1100"} ->
         right' = Tail(right) /\ OnOrEnd(right', "set_range") /\ UNCHANGED <<left, label>>
    [] OTHER -> left' = Tail(left) /\ OnOrEnd(left', "set_range") /\ UNCHANGED <<right, label>>

ResumeRange ==
  /\ At(RangeReaders \cup {"1100"}, "resume")
  /\ Goto(IF ~ \E e \in at : InCurrentRange(e) THEN "set_range"
          ELSE IF reader = "1100" THEN "each_left" ELSE "each_data")
  /\ UNCHANGED <<selection, arrays, at, at2, count, status, seen, asked>>

SetRange ==
  /\ pc = "set_range"
  /\ at' = IF reader \in OverRl THEN RL!SetRange(trees.rl, <<Head(right), 0>>)
           ELSE LR!SetRange(trees.lr, <<Head(left), 0>>)
  /\ Goto("each_key")
  /\ UNCHANGED <<selection, arrays, at2, count, status, seen, asked>>

EachKey ==
  /\ At(RangeReaders \cup {"1100"}, "each_key")
  /\ IF \E e \in at : InCurrentRange(e)
     THEN /\ IF reader # "1001_1101"
             THEN Goto(IF reader = "1100" THEN "each_left" ELSE "each_data") /\ UNCHANGED at
             ELSE \E e \in at :
                    LET found == LR!GetBothRange(trees.lr, e.key, <<call.ordinal.min, 0>>)
                    IN IF found # {} THEN at' = found /\ Goto("each_data")
                       ELSE at' = NextNodup(e) /\ Goto("each_key")
          /\ UNCHANGED <<arrays, status>>
     ELSE ForwardRange /\ UNCHANGED at
  /\ UNCHANGED <<selection, at2, count, seen, asked>>

EachDataOfRange ==
  /\ At(RangeReaders, "each_data") /\ count # 0
  /\ \E e \in at :
       /\ IF ~Above(e) /\ Counted(e) THEN Take(RelationAt(e)) ELSE Pass
       /\ IF ~Above(e) /\ NextDup(e) # {}
          THEN at' = NextDup(e) /\ Goto("each_data")
          ELSE at' = NextNodup(e) /\ Goto("each_key")
  /\ UNCHANGED <<selection, arrays, at2, status, asked>>
-----------------------------------------------------------------------------
(* 1010, 1011_1111 and 0110 look up keys: every left, or right, for every  *)
(* label.                                                                  *)
KeyReaders == {"1010", "1011_1111", "0110"}

CurrentKey == <<IF reader = "0110" THEN Head(right) ELSE Head(left), Head(label)>>

NextKey ==
  LET next == IF reader = "0110" THEN AfterForward(right, call.right, label)
              ELSE AfterForward(left, call.left, label)
  IN /\ label' = next[2]
     /\ IF reader = "0110" THEN right' = next[1] /\ UNCHANGED left
        ELSE left' = next[1] /\ UNCHANGED right
     /\ OnOrEnd(label', "set_key")

(* A mutant: the key is looked up again.                                   *)
ResumeKey_Again ==
  /\ At(KeyReaders, "resume")
  /\ Goto("set_key")
  /\ UNCHANGED <<selection, arrays, at, at2, count, status, seen, asked>>

ResumeKey ==
  /\ At(KeyReaders, "resume")
  /\ Goto(IF \E e \in at : e.key = CurrentKey THEN "each_data" ELSE "set_key")
  /\ UNCHANGED <<selection, arrays, at, at2, count, status, seen, asked>>

(* A mutant: a key that is not found is looked up again.                   *)
SetKey_Retries ==
  /\ At(KeyReaders, "set_key")
  /\ at' = CASE reader = "0110" -> RL!SetKey(trees.rl, CurrentKey)
             [] reader = "1010" -> LR!SetKey(trees.lr, CurrentKey)
             [] reader = "1011_1111" ->
                  LR!GetBothRange(trees.lr, CurrentKey, <<call.ordinal.min, 0>>)
  /\ Goto(IF at' # {} THEN "each_data" ELSE "set_key")
  /\ UNCHANGED <<selection, arrays, status, at2, count, seen, asked>>
SetKey ==
  /\ At(KeyReaders, "set_key")
  /\ at' = CASE reader = "0110" -> RL!SetKey(trees.rl, CurrentKey)
             [] reader = "1010" -> LR!SetKey(trees.lr, CurrentKey)
             [] reader = "1011_1111" ->
                  LR!GetBothRange(trees.lr, CurrentKey, <<call.ordinal.min, 0>>)
  /\ IF at' # {} THEN Goto("each_data") /\ UNCHANGED <<arrays, status>> ELSE NextKey
  /\ UNCHANGED <<selection, at2, count, seen, asked>>

EachDataOfKey ==
  /\ At(KeyReaders, "each_data") /\ count # 0
  /\ \E e \in at :
       /\ IF ~Above(e) /\ Counted(e) THEN Take(RelationAt(e)) ELSE Pass
       /\ IF ~Above(e) /\ NextDup(e) # {}
          THEN at' = NextDup(e) /\ Goto("each_data") /\ UNCHANGED <<arrays, status>>
          ELSE NextKey /\ UNCHANGED at
  /\ UNCHANGED <<selection, at2, asked>>
-----------------------------------------------------------------------------
(* 1100 looks up every left under each key of a right.  count goes down    *)
(* only where a relation is added to the result.                           *)
EachLeft ==
  /\ At({"1100"}, "each_left") /\ count # 0
  /\ \E e \in at :
       LET found == RL!GetBoth(trees.rl, e.key, Head(left))
       IN /\ IF found = {} THEN Pass
             ELSE /\ seen' = Append(seen, <<Head(left), e.key[2], e.key[1]>>)
                  /\ count' = IF skip THEN count ELSE count - 1
          /\ IF Tail(left) # <<>>
             THEN /\ left' = Tail(left) /\ Goto("each_left")
                  /\ at' = IF found = {} THEN at ELSE found
             ELSE /\ left' = call.left /\ Goto("each_key")
                  /\ at' = NextNodup(e)
  /\ UNCHANGED <<selection, right, label, at2, status, asked>>

(* 1110 looks up every right, left and label.  The place to continue at is *)
(* in the arrays alone.                                                    *)
NextQuery ==
  LET lefts == AfterForward(right, call.right, left)
      labels == IF lefts[2] # <<>> THEN <<lefts[2], label>> ELSE <<call.left, Tail(label)>>
  IN right' = lefts[1] /\ left' = labels[1] /\ label' = labels[2]

ResumeQuery ==
  /\ At({"1110"}, "resume")
  /\ Goto("set_cursor")
  /\ UNCHANGED <<selection, arrays, at, at2, count, status, seen, asked>>

SetCursor ==
  /\ At({"1110"}, "set_cursor")
  /\ at' = RL!GetBoth(trees.rl, <<Head(right), Head(label)>>, Head(left))
  /\ IF at' # {} THEN Take(<<Head(left), Head(label), Head(right)>>) ELSE Pass
  /\ NextQuery
  /\ CASE label' = <<>> -> End
       [] label' # <<>> /\ count' = 0 -> Goto("open") /\ status' = "success"
       [] OTHER -> Goto("set_cursor") /\ UNCHANGED status
  /\ UNCHANGED <<selection, at2, asked>>
-----------------------------------------------------------------------------
(* 0010 walks ll and, for every left it finds, the data of a key of lr.    *)
(* The lr cursor is left where it is when it stands on the left already,   *)
(* whatever the label there.                                               *)
Resume_0010 ==
  /\ At({"0010"}, "resume")
  /\ Goto(IF \E x \in at : x.key = Head(label) THEN "each_label_data" ELSE "set_label_key")
  /\ UNCHANGED <<selection, arrays, at, at2, count, status, seen, asked>>

ForwardLabel == label' = Tail(label) /\ OnOrEnd(label', "set_label_key")

SetLabelKey ==
  /\ At({"0010"}, "set_label_key")
  /\ LET found == LL!SetKey(trees.ll, Head(label))
     IN IF found # {}
        THEN at' = found /\ Goto("each_label_data") /\ UNCHANGED <<label, status>>
        ELSE ForwardLabel /\ UNCHANGED at
  /\ UNCHANGED <<selection, left, right, at2, count, seen, asked>>

EachLabelData ==
  /\ At({"0010"}, "each_label_data")
  /\ \E x \in at :
       LET found == LR!SetKey(trees.lr, <<x.data, Head(label)>>)
       IN IF \E e \in at2 : e.key[1] = x.data
          THEN Goto("each_left_data") /\ UNCHANGED <<at2, status>>
          ELSE IF found # {}
               THEN at2' = found /\ Goto("each_left_data") /\ UNCHANGED status
               ELSE EndUnconverted /\ UNCHANGED at2
  /\ UNCHANGED <<selection, arrays, at, count, seen, asked>>

EachLeftData ==
  /\ At({"0010"}, "each_left_data") /\ count # 0
  /\ \E x \in at, e \in at2 :
       LET left_data == LR!NextDup(trees.lr, e)
           label_data == LL!NextDup(trees.ll, x)
       IN /\ Take(<<x.data, Head(label), e.data[2]>>)
          /\ IF left_data # {} THEN at2' = left_data ELSE UNCHANGED at2
          /\ IF left_data = {} /\ label_data # {} THEN at' = label_data ELSE UNCHANGED at
          /\ CASE left_data # {} -> Goto("each_left_data") /\ UNCHANGED <<label, status>>
               [] left_data = {} /\ label_data # {} ->
                    Goto("each_label_data") /\ UNCHANGED <<label, status>>
               [] OTHER -> ForwardLabel
  /\ UNCHANGED <<selection, left, right, asked>>
-----------------------------------------------------------------------------
(* The trees a set of relations is stored in.                              *)
Stored(relations) == [lr |-> relations, rl |-> {RlOf(e) : e \in relations},
                      ll |-> {LlOf(e) : e \in relations}]

Init == /\ trees \in {Stored(lr) : lr \in SUBSET Relations}
        /\ pc = "closed" /\ call \in Calls
        /\ left = <<>> /\ right = <<>> /\ label = <<>>
        /\ at = {} /\ at2 = {} /\ count = 0 /\ skip = FALSE
        /\ status = "success" /\ seen = <<>> /\ asked = 0

(* The cursors start at the first entry of their tree.                     *)
Select ==
  /\ pc = "closed"
  /\ left' = ArrayIn(call.left) /\ right' = ArrayIn(call.right) /\ label' = ArrayIn(call.label)
  /\ at' = CASE reader \in OverRl -> RL!First(trees.rl)
             [] reader = "0010" -> LL!First(trees.ll)
             [] OTHER -> LR!First(trees.lr)
  /\ at2' = IF reader = "0010" THEN LR!First(trees.lr) ELSE {}
  /\ IF at' = {} THEN End ELSE Goto("open") /\ UNCHANGED status
  /\ UNCHANGED <<trees, call, count, skip, seen, asked>>

(* db_relation_read, and db_relation_skip that sets a flag for the call.   *)
Read(n, skipping) ==
  /\ pc = "open"
  /\ Goto("resume")
  /\ count' = n /\ skip' = skipping /\ asked' = asked + n
  /\ UNCHANGED <<trees, call, arrays, at, at2, status, seen>>

(* db_relation_selection_finish: at the end or before.                     *)
Finish == /\ pc \in {"open", "end"} /\ Goto("closed")
          /\ left' = <<>> /\ right' = <<>> /\ label' = <<>>
          /\ at' = {} /\ at2' = {} /\ count' = 0 /\ skip' = FALSE
          /\ status' = "success" /\ seen' = <<>> /\ asked' = 0
          /\ UNCHANGED <<trees, call>>

Step == \/ Stop
        \/ ResumeRange \/ SetRange \/ EachKey \/ EachDataOfRange
        \/ ResumeKey \/ SetKey \/ EachDataOfKey
        \/ EachLeft \/ ResumeQuery \/ SetCursor
        \/ Resume_0010 \/ SetLabelKey \/ EachLabelData \/ EachLeftData

Next == \/ Step
        \/ Select
        \/ \E n \in Counts : Read(n, FALSE)
        \/ \E n \in Skips : Read(n, TRUE)
        \/ Finish

Spec == Init /\ [][Next]_vars /\ WF_vars(Step)
-----------------------------------------------------------------------------
(* The matches of the selection, which are what db_relation_delete with    *)
(* the same arguments is to delete.                                        *)
Matches == LET f == FilterOf(call)
           IN {<<e.key[1], e.key[2], e.data[2]>> :
                 e \in {d \in trees.lr :
                          /\ Selects(f.left, d.key[1])
                          /\ Selects(f.label, d.key[2])
                          /\ Selects(f.right, d.data[2])
                          /\ f.ordinal # Null =>
                               /\ f.ordinal.min <= d.data[1]
                               /\ f.ordinal.max = 0 \/ d.data[1] <= f.ordinal.max}}

TypeOK ==
  /\ trees \in Trees
  /\ at \subseteq (IF pc = "closed" THEN {}
                   ELSE CASE reader \in OverRl -> RlEntry
                          [] reader = "0010" -> LlEntry
                          [] OTHER -> LrEntry)
  /\ at2 \subseteq LrEntry
  /\ count \in Nat
  /\ status \in {"success", "notfound", "MDB_NOTFOUND"}

(* "relations are filtered by giving lists of ids to match as arguments"   *)
(* (internals.md): what is read matches, and no relation is read twice,    *)
(* over all calls of read and skip.                                        *)
ReadsMatchesOnce == /\ Range(seen) \subseteq Matches
                    /\ \A i, j \in DOMAIN seen : seen[i] = seen[j] => i = j

(* The end is not signalled before every match has been read: wherever the *)
(* calls before it stopped.                                                *)
NothingIsMissed == pc = "end" => Matches \subseteq Range(seen)

(* "skip the next count result matches" (relation-read.c): a call that is  *)
(* not at the end takes as many matches as were asked for, read or not.    *)
(* The reader 1100 takes them all when it skips (README, divergences).     *)
CallsTakeTheirCount ==
  reader # "1100" => /\ Len(seen) <= asked
                     /\ pc = "open" => Len(seen) = asked

(* "if no results are found or the end of results has been reached, the    *)
(* returned status id is db_status_id_notfound" (readme.md).               *)
EndIsNotfound == pc = "end" => status = "notfound"

(* "readers always leave cursors at a valid entry" (relation-read.c).      *)
OpenOnAnEntry == pc = "open" /\ reader # "1110" => at # {}

(* Every call returns.                                                     *)
CallsReturn == pc \notin {"closed", "open", "end"} ~> pc \in {"open", "end"}
=============================================================================
