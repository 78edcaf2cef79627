------------------------- MODULE RelationDeleteProofs -------------------------
(***************************************************************************)
(* That every walk of db_relation_delete is exact, for any ids, ordinals,  *)
(* relations and arguments: it deletes what its arguments match although   *)
(* it deletes under its cursor, and nothing else.                          *)
(*                                                                         *)
(* The inductive invariant says of a running walk where its cursor is,     *)
(* that what it has deleted matches, that what matches and is still there  *)
(* is ahead of it, and that the other two trees follow.                    *)
(***************************************************************************)
EXTENDS RelationDelete, WellFoundedInduction, NaturalsInduction, TLAPS

(* The trees in step, as RelationTrees keeps them.                         *)
InStep(t) == /\ t \in Trees
             /\ \A d, e \in t.lr : d.key = e.key /\ d.data[2] = e.data[2] => d = e
             /\ t.rl = {RlOf(e) : e \in t.lr}
             /\ \A x \in t.ll : HasKey(t.lr, x.data, x.key)

KeyWalks == {"1000", "1100", "1001_1101"}
LabelWalks == {"1010", "1110", "1011_1111"}
LrWalks == KeyWalks \cup LabelWalks
RlWalks == {"0100", "0110"}
Running(walks) == pc # "idle" /\ walk \in walks

(* Data that mdb_cursor_del with MDB_NODUPDATA takes at the end of its key.*)
Passed == {d \in trees.lr : /\ Running({"1000", "1010"}) /\ pc = "each_data"
                            /\ \E a \in at : d.key = a.key /\ RelationDataBefore(d.data, a.data)}
Kept == trees.lr \ Passed

MatchedLr(e) == /\ e.key[1] \in Ids(call.left)
                /\ Selects(Ids(call.label), e.key[2])
                /\ Selects(Ids(call.right), e.data[2])
                /\ T!InScan(call.ordinal, e.data[1])
MatchedRl(x) == x.key[1] \in Ids(call.right) /\ Selects(Ids(call.label), x.key[2])
MatchedLl(x) == x.key \in Ids(call.label)

OnOrAfter(e) == \E a \in at : e = a \/ LR!Before(a, e)

AheadKeys(e) ==
  /\ pc # "exit"
  /\ \/ e.key[1] \in Range(Tail(left))
     \/ /\ e.key[1] = Head(left)
        /\ pc = "set_range" => from <= e.key[2]
        /\ pc # "set_range" => OnOrAfter(e)

Ahead(outer, inner, o, i, rest) ==
  /\ pc # "exit"
  /\ \/ o \in Range(Tail(outer))
     \/ /\ o = Head(outer)
        /\ i \in Range(Tail(inner)) \/ (i = Head(inner) /\ (pc = "each_data" => rest))

AheadLr(e) ==
  \/ walk \in KeyWalks /\ AheadKeys(e)
  \/ walk \in {"1010", "1110"} /\ Ahead(left, label, e.key[1], e.key[2], OnOrAfter(e))
  \/ walk = "1011_1111" /\ Ahead(label, left, e.key[2], e.key[1], OnOrAfter(e))

AheadRl(x) ==
  \/ walk = "0100" /\ pc # "exit" /\ x.key[1] \in Range(right)
  \/ walk = "0110" /\ Ahead(label, right, x.key[2], x.key[1],
                            \E a \in at : x = a \/ a.data < x.data)

AheadLl(x) ==
  /\ pc # "exit"
  /\ \/ x.key \in Range(Tail(label))
     \/ x.key = Head(label) /\ (pc # "set_key" => \E a \in at : x = a \/ a.data < x.data)

Rest(array, given) == pc # "exit" => array \in Seq(Ids(given)) \ {<<>>}

Labels == CASE walk \in KeyWalks -> {"set_range", "each_key", "each_data"}
            [] walk \in LabelWalks \cup {"0110"} -> {"set_key", "each_data"}
            [] walk = "0100" -> {"set_range_right", "each_data"}
            [] walk = "0010" -> {"set_key", "each_data", "each_data_2"}
            [] walk = "none" -> {}
Control ==
  /\ trees \in Trees /\ InStep(start) /\ from \in Label \cup {0}
  /\ pc = "idle" => trees = start /\ at = {} /\ at2 = {} /\ from = 0
  /\ pc # "idle" => call \in Calls /\ pc \in Labels \cup {"exit"}
  /\ Running({"none"}) => trees = start
  /\ Running(LrWalks) => Rest(left, call.left)
  /\ Running(LabelWalks \cup {"0110", "0010"}) => Rest(label, call.label)
  /\ Running(RlWalks) => Rest(right, call.right)

LrCursor ==
  /\ Running(LrWalks) /\ pc = "each_data" =>
       \E a \in trees.lr : /\ at = {a} /\ a.key[1] = Head(left)
                           /\ walk \in LabelWalks => a.key[2] = Head(label)
                           /\ call.ordinal # Null => ScanStart(call.ordinal.min) <= a.data[1]
  /\ Running(KeyWalks) /\ pc = "each_key" =>
       at = {} \/ \E a \in trees.lr : /\ at = {a} /\ Head(left) <= a.key[1]
                                      /\ \A d \in trees.lr : d.key = a.key => d = a \/ LR!Before(a, d)
LrContents ==
  Running(LrWalks) =>
    /\ trees.lr \subseteq start.lr
    /\ \A e \in start.lr \ Kept : MatchedLr(e)
    /\ \A e \in Kept : MatchedLr(e) => AheadLr(e)
    /\ trees.rl = {RlOf(e) : e \in Kept}
    /\ trees.ll = {x \in start.ll : HasKey(trees.lr, x.data, x.key)} \ {LlOf(d) : d \in Passed}

RlCursor ==
  Running(RlWalks) /\ pc = "each_data" =>
    \E a \in trees.rl : /\ at = {a} /\ a.key[1] = Head(right)
                        /\ walk = "0110" => a.key[2] = Head(label)
RlContents ==
  Running(RlWalks) =>
    /\ trees.rl \subseteq start.rl
    /\ \A x \in start.rl \ trees.rl : MatchedRl(x)
    /\ \A x \in trees.rl : MatchedRl(x) => AheadRl(x)
    /\ trees.lr = {e \in start.lr : RlOf(e) \in trees.rl}
    /\ trees.ll = IF walk = "0100" THEN {x \in start.ll : HasKey(trees.lr, x.data, x.key)}
                  ELSE start.ll \ {Ll(x.key[2], x.data) : x \in start.rl \ trees.rl}

LlCursor ==
  /\ Running({"0010"}) /\ pc \in {"each_data", "each_data_2"} =>
       \E a \in trees.ll : at = {a} /\ a.key = Head(label)
  /\ Running({"0010"}) /\ pc = "each_data_2" =>
       at2 = {} \/ \E b \in trees.lr : at2 = {b} /\ LlOf(b) \in at

Remains(e) == \/ LlOf(e) \notin start.ll
              \/ /\ LlOf(e) \in trees.ll
                 /\ pc = "each_data_2" /\ LlOf(e) \in at =>
                      \E b \in at2 : e = b \/ RelationDataBefore(b.data, e.data)
LlContents ==
  Running({"0010"}) =>
    /\ trees.ll \subseteq start.ll
    /\ \A x \in start.ll \ trees.ll : MatchedLl(x)
    /\ \A x \in trees.ll : MatchedLl(x) => AheadLl(x)
    /\ trees.lr = {e \in start.lr : Remains(e)}
    /\ trees.rl = {RlOf(e) : e \in trees.lr}
-----------------------------------------------------------------------------
(* The orders of the trees.                                                *)

LEMMA LeastNumber ==
  ASSUME NEW S, S # {}, NEW f \in [S -> Nat]
  PROVE  \E m \in S : \A d \in S : f[m] <= f[d]
<1> DEFINE values == {f[d] : d \in S}
<1>1. values \in SUBSET Nat /\ values # {}
  OBVIOUS
<1> HIDE DEF values
<1>2. PICK n \in values : \A k \in values : <<k, n>> \notin OpToRel(<, Nat)
  BY <1>1, WFMin, NatLessThanWellFounded, Zenon
<1>3. \A k \in values : ~(k < n)
  BY <1>1, <1>2, Zenon DEF OpToRel
<1>4. \A k \in values : n <= k
  BY <1>1, <1>3
<1>5. QED
  BY <1>4 DEF values

LEMMA LrTyped ==
  ASSUME NEW e \in LrEntry
  PROVE  /\ e.key[1] \in Nat /\ e.key[2] \in Nat /\ e.data[1] \in Nat /\ e.data[2] \in Nat
         /\ e.key[1] \in Left /\ e.key[2] \in Label /\ e.data[2] \in Right
         /\ e = Lr(e.key[1], e.key[2], e.data[1], e.data[2])
         /\ e.key = <<e.key[1], e.key[2]>> /\ e.data = <<e.data[1], e.data[2]>>
<1>1. e.key[1] \in Left /\ e.key[2] \in Label /\ e.data[1] \in Ordinal /\ e.data[2] \in Right
      /\ e.key = <<e.key[1], e.key[2]>> /\ e.data = <<e.data[1], e.data[2]>>
  BY DEF LrEntry
<1>2. e = Lr(e.key[1], e.key[2], e.data[1], e.data[2])
  BY <1>1 DEF LrEntry, Lr
<1>3. QED
  BY <1>1, <1>2, IdsAssumption, OrdinalAssumption

LEMMA RlTyped ==
  ASSUME NEW x \in RlEntry
  PROVE  /\ x.key[1] \in Nat /\ x.key[2] \in Nat /\ x.data \in Nat
         /\ x.key[1] \in Right /\ x.key[2] \in Label /\ x.data \in Left
         /\ x = Rl(x.key[1], x.key[2], x.data) /\ x.key = <<x.key[1], x.key[2]>>
BY IdsAssumption DEF RlEntry, Rl

LEMMA LlTyped ==
  ASSUME NEW x \in LlEntry
  PROVE  x.key \in Nat /\ x.data \in Nat /\ x.key \in Label /\ x.data \in Left
         /\ x = Ll(x.key, x.data)
BY IdsAssumption DEF LlEntry, Ll

(* A lookup lands on the first of the entries it is about, if there is one.*)
LEMMA LrLands ==
  ASSUME NEW S \in SUBSET LrEntry
  PROVE  /\ S = {} => LR!Least(S) = {}
         /\ S # {} => \E m \in S : LR!Least(S) = {m} /\ \A d \in S : d = m \/ LR!Before(m, d)
<1>1. ASSUME S # {}
      PROVE  \E m \in S : \A d \in S : d = m \/ LR!Before(m, d)
  <2>1. \A d \in S : /\ d.key[1] \in Nat /\ d.key[2] \in Nat
                     /\ d.data[1] \in Nat /\ d.data[2] \in Nat
                     /\ d.key = <<d.key[1], d.key[2]>> /\ d.data = <<d.data[1], d.data[2]>>
                     /\ d = Lr(d.key[1], d.key[2], d.data[1], d.data[2])
    BY LrTyped
  <2>2. PICK m1 \in S : \A d \in S : m1.key[1] <= d.key[1]
    <3> DEFINE f == [d \in S |-> d.key[1]]
    <3>1. f \in [S -> Nat]
      BY <2>1
    <3>2. \E m \in S : \A d \in S : f[m] <= f[d]
      BY <1>1, <3>1, LeastNumber
    <3>3. QED
      BY <3>2
  <2> DEFINE S1 == {d \in S : d.key[1] = m1.key[1]}
  <2>3. PICK m2 \in S1 : \A d \in S1 : m2.key[2] <= d.key[2]
    <3> DEFINE f == [d \in S1 |-> d.key[2]]
    <3>1. f \in [S1 -> Nat] /\ S1 # {}
      BY <2>1
    <3>2. \E m \in S1 : \A d \in S1 : f[m] <= f[d]
      BY <3>1, LeastNumber
    <3>3. QED
      BY <3>2
  <2> DEFINE S2 == {d \in S1 : d.key[2] = m2.key[2]}
  <2>4. PICK m3 \in S2 : \A d \in S2 : m3.data[1] <= d.data[1]
    <3> DEFINE f == [d \in S2 |-> d.data[1]]
    <3>1. f \in [S2 -> Nat] /\ S2 # {}
      BY <2>1
    <3>2. \E m \in S2 : \A d \in S2 : f[m] <= f[d]
      BY <3>1, LeastNumber
    <3>3. QED
      BY <3>2
  <2> DEFINE S3 == {d \in S2 : d.data[1] = m3.data[1]}
  <2>5. PICK m \in S3 : \A d \in S3 : m.data[2] <= d.data[2]
    <3> DEFINE f == [d \in S3 |-> d.data[2]]
    <3>1. f \in [S3 -> Nat] /\ S3 # {}
      BY <2>1
    <3>2. \E n \in S3 : \A d \in S3 : f[n] <= f[d]
      BY <3>1, LeastNumber
    <3>3. QED
      BY <3>2
  <2>6. ASSUME NEW d \in S
        PROVE  d = m \/ LR!Before(m, d)
    <3>1. m.key[1] <= d.key[1] /\ (d.key[1] = m.key[1] => m.key[2] <= d.key[2])
      BY <2>2, <2>3, <2>4, <2>5
    <3>2. d.key = m.key => m.data[1] <= d.data[1]
      BY <2>3, <2>4, <2>5
    <3>3. d.key = m.key /\ d.data[1] = m.data[1] => m.data[2] <= d.data[2]
      BY <2>3, <2>4, <2>5
    <3> HIDE DEF S1, S2, S3
    <3>4. m \in S
      BY <2>5 DEF S1, S2, S3
    <3>5. QED
      BY <2>1, <3>1, <3>2, <3>3, <3>4 DEF LR!Before, RelationKeyBefore, RelationDataBefore, Lr
  <2>7. QED
    BY <2>6
<1>2. \A m, n \in S : LR!Before(m, n) => ~LR!Before(n, m) /\ m # n
  BY LrTyped DEF LR!Before, RelationKeyBefore, RelationDataBefore
<1>3. QED
  BY <1>1, <1>2 DEF LR!Least

LEMMA RlLands ==
  ASSUME NEW S \in SUBSET RlEntry
  PROVE  /\ S = {} => RL!Least(S) = {}
         /\ S # {} => \E m \in S : RL!Least(S) = {m} /\ \A d \in S : d = m \/ RL!Before(m, d)
<1>1. ASSUME S # {}
      PROVE  \E m \in S : \A d \in S : d = m \/ RL!Before(m, d)
  <2>1. \A d \in S : /\ d.key[1] \in Nat /\ d.key[2] \in Nat /\ d.data \in Nat
                     /\ d.key = <<d.key[1], d.key[2]>> /\ d = Rl(d.key[1], d.key[2], d.data)
    BY RlTyped
  <2>2. PICK m1 \in S : \A d \in S : m1.key[1] <= d.key[1]
    <3> DEFINE f == [d \in S |-> d.key[1]]
    <3>1. f \in [S -> Nat]
      BY <2>1
    <3>2. \E m \in S : \A d \in S : f[m] <= f[d]
      BY <1>1, <3>1, LeastNumber
    <3>3. QED
      BY <3>2
  <2> DEFINE S1 == {d \in S : d.key[1] = m1.key[1]}
  <2>3. PICK m2 \in S1 : \A d \in S1 : m2.key[2] <= d.key[2]
    <3> DEFINE f == [d \in S1 |-> d.key[2]]
    <3>1. f \in [S1 -> Nat] /\ S1 # {}
      BY <2>1
    <3>2. \E m \in S1 : \A d \in S1 : f[m] <= f[d]
      BY <3>1, LeastNumber
    <3>3. QED
      BY <3>2
  <2> DEFINE S2 == {d \in S1 : d.key[2] = m2.key[2]}
  <2>4. PICK m \in S2 : \A d \in S2 : m.data <= d.data
    <3> DEFINE f == [d \in S2 |-> d.data]
    <3>1. f \in [S2 -> Nat] /\ S2 # {}
      BY <2>1
    <3>2. \E n \in S2 : \A d \in S2 : f[n] <= f[d]
      BY <3>1, LeastNumber
    <3>3. QED
      BY <3>2
  <2>5. ASSUME NEW d \in S
        PROVE  d = m \/ RL!Before(m, d)
    <3>1. m.key[1] <= d.key[1] /\ (d.key[1] = m.key[1] => m.key[2] <= d.key[2])
      BY <2>2, <2>3, <2>4
    <3>2. d.key = m.key => m.data <= d.data
      BY <2>3, <2>4
    <3> HIDE DEF S1, S2
    <3>3. m \in S
      BY <2>4 DEF S1, S2
    <3>4. QED
      BY <2>1, <3>1, <3>2, <3>3 DEF RL!Before, RelationKeyBefore, IdBefore, Rl
  <2>6. QED
    BY <2>5
<1>2. \A m, n \in S : RL!Before(m, n) => ~RL!Before(n, m) /\ m # n
  BY RlTyped DEF RL!Before, RelationKeyBefore, IdBefore
<1>3. QED
  BY <1>1, <1>2 DEF RL!Least

LEMMA LlLands ==
  ASSUME NEW S \in SUBSET LlEntry
  PROVE  /\ S = {} => LL!Least(S) = {}
         /\ S # {} => \E m \in S : LL!Least(S) = {m} /\ \A d \in S : d = m \/ LL!Before(m, d)
<1>1. ASSUME S # {}
      PROVE  \E m \in S : \A d \in S : d = m \/ LL!Before(m, d)
  <2>1. \A d \in S : d.key \in Nat /\ d.data \in Nat /\ d = Ll(d.key, d.data)
    BY LlTyped
  <2>2. PICK m1 \in S : \A d \in S : m1.key <= d.key
    <3> DEFINE f == [d \in S |-> d.key]
    <3>1. f \in [S -> Nat]
      BY <2>1
    <3>2. \E m \in S : \A d \in S : f[m] <= f[d]
      BY <1>1, <3>1, LeastNumber
    <3>3. QED
      BY <3>2
  <2> DEFINE S1 == {d \in S : d.key = m1.key}
  <2>3. PICK m \in S1 : \A d \in S1 : m.data <= d.data
    <3> DEFINE f == [d \in S1 |-> d.data]
    <3>1. f \in [S1 -> Nat] /\ S1 # {}
      BY <2>1
    <3>2. \E n \in S1 : \A d \in S1 : f[n] <= f[d]
      BY <3>1, LeastNumber
    <3>3. QED
      BY <3>2
  <2>4. ASSUME NEW d \in S
        PROVE  d = m \/ LL!Before(m, d)
    BY <2>1, <2>2, <2>3 DEF LL!Before, IdBefore, Ll
  <2>5. QED
    BY <2>4
<1>2. \A m, n \in S : LL!Before(m, n) => ~LL!Before(n, m) /\ m # n
  BY LlTyped DEF LL!Before, IdBefore
<1>3. QED
  BY <1>1, <1>2 DEF LL!Least

(* The arrays: the current id and those that follow it.                    *)
LEMMA Current ==
  ASSUME NEW S, NEW array \in Seq(S) \ {<<>>}
  PROVE  /\ Head(array) \in S /\ Tail(array) \in Seq(S)
         /\ Range(array) = {Head(array)} \cup Range(Tail(array)) /\ Range(array) \subseteq S
<1>1. /\ Len(array) \in Nat \ {0} /\ Head(array) = array[1] /\ DOMAIN array = 1 .. Len(array)
      /\ Tail(array) \in Seq(S) /\ DOMAIN Tail(array) = 1 .. Len(array) - 1
      /\ \A i \in 1 .. Len(array) - 1 : Tail(array)[i] = array[i + 1]
      /\ \A i \in 1 .. Len(array) : array[i] \in S
  OBVIOUS
<1>2. \A i \in 1 .. Len(array) : i = 1 \/ (i - 1 \in 1 .. Len(array) - 1 /\ (i - 1) + 1 = i)
  BY <1>1
<1>3. \A i \in 1 .. Len(array) - 1 : i + 1 \in 1 .. Len(array)
  BY <1>1
<1>4. 1 \in 1 .. Len(array)
  BY <1>1
<1> DEFINE t == Tail(array)
<1>5. Range(array) = {array[1]} \cup {t[i] : i \in 1 .. Len(array) - 1}
  <2> HIDE DEF t
  <2>1. \A i \in 1 .. Len(array) : i = 1 \/ (i - 1 \in 1 .. Len(array) - 1 /\ array[i] = t[i - 1])
    BY <1>1, <1>2 DEF t
  <2>2. \A i \in 1 .. Len(array) - 1 : i + 1 \in 1 .. Len(array) /\ t[i] = array[i + 1]
    BY <1>1, <1>3 DEF t
  <2>3. Range(array) = {array[i] : i \in 1 .. Len(array)}
    BY <1>1 DEF Range
  <2>4. QED
    BY <1>4, <2>1, <2>2, <2>3
<1>6. Range(t) = {t[i] : i \in 1 .. Len(array) - 1}
  BY <1>1 DEF Range
<1>7. Range(array) \subseteq S
  BY <1>1 DEF Range
<1>8. QED
  BY <1>1, <1>4, <1>5, <1>6, <1>7

LEMMA CurrentOfRest ==
  ASSUME NEW S, NEW array \in Seq(S) \ {<<>>}, Tail(array) # <<>>
  PROVE  Range(Tail(array)) = {Head(Tail(array))} \cup Range(Tail(Tail(array)))
<1>1. Tail(array) \in Seq(S)
  BY Current
<1>2. QED
  BY <1>1, Current

LEMMA Given ==
  ASSUME NEW c \in Call
  PROVE  /\ c.left # Null => Ids(c.left) \in SUBSET Left /\ c.left \in Seq(Ids(c.left)) \ {<<>>}
         /\ c.label # Null => Ids(c.label) \in SUBSET Label /\ c.label \in Seq(Ids(c.label)) \ {<<>>}
         /\ c.right # Null => Ids(c.right) \in SUBSET Right /\ c.right \in Seq(Ids(c.right)) \ {<<>>}
         /\ c.left = Null <=> Ids(c.left) = Null
         /\ c.label = Null <=> Ids(c.label) = Null
         /\ c.right = Null <=> Ids(c.right) = Null
         /\ c.ordinal # Null => c.ordinal \in OrdinalCondition
<1>1. ASSUME NEW S, NEW array \in ArrayOf(S)
      PROVE  Range(array) \in SUBSET S /\ array \in Seq(Range(array)) \ {<<>>}
  <2> DEFINE n == Len(array)
  <2>1. n \in Nat \ {0} /\ array \in [1 .. n -> S] /\ array # <<>>
    BY DEF ArrayOf
  <2> HIDE DEF n
  <2>2. \A i \in 1 .. n : array[i] \in Range(array) /\ array[i] \in S
    BY <2>1 DEF Range
  <2>3. array \in [1 .. n -> Range(array)]
    BY <2>1, <2>2
  <2>4. array \in Seq(Range(array))
    BY <2>1, <2>3
  <2>5. QED
    BY <2>1, <2>2, <2>4 DEF Range
<1>2. /\ c.left # Null => c.left \in ArrayOf(Left)
      /\ c.label # Null => c.label \in ArrayOf(Label)
      /\ c.right # Null => c.right \in ArrayOf(Right)
      /\ c.ordinal # Null => c.ordinal \in OrdinalCondition
  BY DEF Call
<1>3. \A S \in SUBSET (Left \cup Label \cup Right) : S # Null
  BY NullAssumption
<1>4. QED
  BY <1>1, <1>2, <1>3 DEF Ids
-----------------------------------------------------------------------------
(* What the deletions of RelationTrees are for each walk.                  *)

LEMMA WalkOf ==
  ASSUME NEW c \in Call
  PROVE  /\ c.left # Null <=> Walk(c) \in LrWalks
         /\ Walk(c) \in KeyWalks \ {"1001_1101"} => c.label = Null /\ c.ordinal = Null
         /\ Walk(c) = "1001_1101" => c.label = Null /\ c.ordinal # Null
         /\ Walk(c) \in LabelWalks => c.label # Null
         /\ Walk(c) \in {"1010", "1110"} => c.ordinal = Null
         /\ Walk(c) = "1011_1111" => c.ordinal # Null
         /\ Walk(c) \in {"1000", "1010"} => c.right = Null
         /\ Walk(c) \in RlWalks <=> c.left = Null /\ c.right # Null
         /\ Walk(c) = "0100" => c.label = Null
         /\ Walk(c) = "0110" => c.label # Null
         /\ Walk(c) = "0010" <=> c.left = Null /\ c.right = Null /\ c.label # Null
         /\ Walk(c) = "none" <=> c.left = Null /\ c.right = Null /\ c.label = Null
         /\ Walk(c) \in LrWalks \cup RlWalks \cup {"0010", "none"}
BY DEF Walk, LrWalks, KeyWalks, LabelWalks, RlWalks

GoneLr == {e \in start.lr : MatchedLr(e)}
LEMMA DeletedByLeftIs ==
  ASSUME call \in Call, walk \in LrWalks
  PROVE  T!Deleted(start, FilterOf(call)) =
           [lr |-> start.lr \ GoneLr, rl |-> start.rl \ {RlOf(e) : e \in GoneLr},
            ll |-> {x \in start.ll : x.data \in Ids(call.left) /\ Selects(Ids(call.label), x.key)
                                       => HasKey(start.lr \ GoneLr, x.data, x.key)}]
<1>1. FilterOf(call).left # Null
  BY WalkOf, Given DEF FilterOf, walk
<1>2. T!Deleted(start, FilterOf(call)) = T!DeletedByLeft(start, FilterOf(call))
  BY <1>1 DEF T!Deleted
<1>3. QED
  BY <1>2 DEF T!DeletedByLeft, T!Selects, T!RlOf, T!Rl, T!HasKey, RlOf, Rl, HasKey, Selects,
              GoneLr, MatchedLr, FilterOf

FoundRl == {x \in start.rl : MatchedRl(x)}
LEMMA DeletedByRightIs ==
  ASSUME call \in Call, walk = "0100"
  PROVE  T!Deleted(start, FilterOf(call)) =
           LET lr == {e \in start.lr : RlOf(e) \notin FoundRl}
           IN [lr |-> lr, rl |-> start.rl \ FoundRl,
               ll |-> start.ll \ {Ll(x.key[2], x.data) :
                                    x \in {y \in FoundRl : ~HasKey(lr, y.data, y.key[2])}}]
<1>1. FilterOf(call).left = Null /\ FilterOf(call).right # Null /\ FilterOf(call).label = Null
      /\ Ids(call.label) = Null
  BY WalkOf, Given DEF FilterOf, RlWalks, walk
<1>2. T!Deleted(start, FilterOf(call)) = T!DeletedByRight(start, FilterOf(call))
  BY <1>1 DEF T!Deleted
<1>3. FoundRl = {x \in start.rl : x.key[1] \in FilterOf(call).right}
  BY <1>1 DEF FoundRl, MatchedRl, Selects, FilterOf
<1>4. QED
  BY <1>2, <1>3 DEF T!DeletedByRight, T!RlOf, T!Rl, T!Ll, T!HasKey, RlOf, Rl, Ll, HasKey

LEMMA DeletedByRightAndLabelIs ==
  ASSUME call \in Call, walk = "0110"
  PROVE  T!Deleted(start, FilterOf(call)) =
           [lr |-> {e \in start.lr : RlOf(e) \notin FoundRl}, rl |-> start.rl \ FoundRl,
            ll |-> start.ll \ {Ll(x.key[2], x.data) : x \in FoundRl}]
<1>1. FilterOf(call).left = Null /\ FilterOf(call).right # Null /\ FilterOf(call).label # Null
      /\ Ids(call.label) # Null
  BY WalkOf, Given DEF FilterOf, RlWalks, walk
<1>2. T!Deleted(start, FilterOf(call)) = T!DeletedByRightAndLabel(start, FilterOf(call))
  BY <1>1 DEF T!Deleted
<1>3. FoundRl = {x \in start.rl : x.key[1] \in FilterOf(call).right
                                   /\ x.key[2] \in FilterOf(call).label}
  BY <1>1 DEF FoundRl, MatchedRl, Selects, FilterOf
<1>4. QED
  BY <1>2, <1>3 DEF T!DeletedByRightAndLabel, T!RlOf, T!Rl, T!Ll, RlOf, Rl, Ll

FoundLl == {x \in start.ll : MatchedLl(x)}
LEMMA DeletedByLabelIs ==
  ASSUME call \in Call, walk = "0010"
  PROVE  T!Deleted(start, FilterOf(call)) =
           LET gone == {e \in start.lr : LlOf(e) \in FoundLl}
           IN [lr |-> start.lr \ gone, rl |-> start.rl \ {RlOf(e) : e \in gone},
               ll |-> start.ll \ FoundLl]
<1>1. FilterOf(call).left = Null /\ FilterOf(call).right = Null /\ FilterOf(call).label # Null
  BY WalkOf, Given DEF FilterOf, walk
<1>2. T!Deleted(start, FilterOf(call)) = T!DeletedByLabel(start, FilterOf(call))
  BY <1>1 DEF T!Deleted
<1>3. FoundLl = {x \in start.ll : x.key \in FilterOf(call).label}
  BY DEF FoundLl, MatchedLl, FilterOf
<1>4. QED
  BY <1>2, <1>3 DEF T!DeletedByLabel, T!LlOf, T!RlOf, T!Rl, T!Ll, LlOf, RlOf, Rl, Ll

LEMMA NoneDeleted ==
  ASSUME call \in Call, walk = "none"
  PROVE  T!Deleted(start, FilterOf(call)) = start
<1>1. FilterOf(call).left = Null /\ FilterOf(call).right = Null /\ FilterOf(call).label = Null
  BY WalkOf, Given DEF FilterOf, walk
<1>2. QED
  BY <1>1 DEF T!Deleted

(* rl loses the images of what lr loses.                                   *)
LEMMA ImagesApart ==
  ASSUME InStep(start), NEW d \in start.lr, NEW e \in start.lr, RlOf(d) = RlOf(e)
  PROVE  d = e
<1>1. d \in LrEntry /\ e \in LrEntry
  BY DEF InStep, Trees
<1>2. d.key[1] = e.key[1] /\ d.key[2] = e.key[2] /\ d.data[2] = e.data[2]
  BY DEF RlOf, Rl
<1>3. d.key = e.key
  BY <1>1, <1>2, LrTyped
<1>4. QED
  BY <1>2, <1>3 DEF InStep

LEMMA ImagesLeft ==
  ASSUME InStep(start), NEW kept \in SUBSET start.lr, NEW gone \in SUBSET kept
  PROVE  {RlOf(e) : e \in kept \ gone} = {RlOf(e) : e \in kept} \ {RlOf(e) : e \in gone}
BY ImagesApart

IInv == /\ Control /\ LrCursor /\ LrContents /\ RlCursor /\ RlContents
        /\ LlCursor /\ LlContents
-----------------------------------------------------------------------------
(* At exit nothing is ahead: what is left is what does not match.          *)

LEMMA LrExit ==
  ASSUME IInv, pc = "exit", walk \in LrWalks
  PROVE  trees = T!Deleted(start, FilterOf(call)) /\ InStep(trees)
<1>1. Running(LrWalks) /\ Passed = {} /\ Kept = trees.lr /\ call \in Call /\ trees \in Trees
  BY CallsAssumption DEF IInv, Control, Running, Passed, Kept
<1>2. \A e : ~AheadLr(e)
  BY DEF AheadLr, AheadKeys, Ahead, LrWalks, KeyWalks, LabelWalks
<1>3. trees.lr = start.lr \ GoneLr
  BY <1>1, <1>2 DEF IInv, LrContents, GoneLr
<1>4. /\ trees.lr \in SUBSET start.lr /\ trees.rl = {RlOf(e) : e \in trees.lr}
      /\ trees.ll = {x \in start.ll : HasKey(trees.lr, x.data, x.key)}
  BY <1>1 DEF IInv, LrContents
<1>5. /\ InStep(start) /\ start.rl = {RlOf(e) : e \in start.lr}
      /\ \A x \in start.ll : HasKey(start.lr, x.data, x.key)
  BY DEF IInv, Control, InStep
<1>6. trees.rl = start.rl \ {RlOf(e) : e \in GoneLr}
  <2>1. start.lr \in SUBSET start.lr /\ GoneLr \in SUBSET start.lr
    BY DEF GoneLr
  <2>2. QED
    BY <1>3, <1>4, <1>5, <2>1, ImagesLeft
<1>7. \A x \in start.ll : ~(x.data \in Ids(call.left) /\ Selects(Ids(call.label), x.key))
                            => HasKey(trees.lr, x.data, x.key)
  <2> SUFFICES ASSUME NEW x \in start.ll,
                      ~(x.data \in Ids(call.left) /\ Selects(Ids(call.label), x.key))
               PROVE  HasKey(trees.lr, x.data, x.key)
    OBVIOUS
  <2>1. PICK e \in start.lr : e.key = <<x.data, x.key>>
    BY <1>5 DEF HasKey
  <2>2. e \notin GoneLr
    BY <2>1 DEF GoneLr, MatchedLr
  <2>3. QED
    BY <1>3, <2>1, <2>2 DEF HasKey
<1>8. trees = T!Deleted(start, FilterOf(call))
  <2>1. trees.ll = {x \in start.ll : x.data \in Ids(call.left) /\ Selects(Ids(call.label), x.key)
                                       => HasKey(trees.lr, x.data, x.key)}
    BY <1>4, <1>7
  <2>2. trees = [lr |-> trees.lr, rl |-> trees.rl, ll |-> trees.ll]
    BY <1>1 DEF Trees
  <2>3. QED
    BY <1>1, <1>3, <1>6, <2>1, <2>2, DeletedByLeftIs
<1>9. InStep(trees)
  BY <1>1, <1>4, <1>5 DEF InStep
<1>10. QED
  BY <1>8, <1>9

LEMMA RlImages ==
  ASSUME InStep(start), NEW rl \in SUBSET start.rl
  PROVE  rl = {RlOf(e) : e \in {d \in start.lr : RlOf(d) \in rl}}
BY DEF InStep

LEMMA RlExit ==
  ASSUME IInv, pc = "exit", walk \in RlWalks
  PROVE  trees = T!Deleted(start, FilterOf(call)) /\ InStep(trees)
<1>1. Running(RlWalks) /\ call \in Call /\ trees \in Trees
  BY CallsAssumption DEF IInv, Control, Running
<1>2. \A x : ~AheadRl(x)
  BY DEF AheadRl, Ahead, RlWalks
<1>3. trees.rl = start.rl \ FoundRl /\ start.rl \ trees.rl = FoundRl
  BY <1>1, <1>2 DEF IInv, RlContents, FoundRl
<1>4. /\ trees.rl \in SUBSET start.rl /\ trees.lr = {e \in start.lr : RlOf(e) \in trees.rl}
      /\ trees.ll = IF walk = "0100" THEN {x \in start.ll : HasKey(trees.lr, x.data, x.key)}
                    ELSE start.ll \ {Ll(x.key[2], x.data) : x \in start.rl \ trees.rl}
  BY <1>1 DEF IInv, RlContents
<1>5. /\ InStep(start) /\ start.rl = {RlOf(e) : e \in start.lr} /\ start \in Trees
      /\ \A x \in start.ll : HasKey(start.lr, x.data, x.key)
  BY DEF IInv, Control, InStep
<1>6. trees.lr = {e \in start.lr : RlOf(e) \notin FoundRl}
  BY <1>3, <1>4, <1>5
<1>7. ASSUME NEW x \in start.ll, ~HasKey(trees.lr, x.data, x.key)
      PROVE  \E y \in FoundRl : x = Ll(y.key[2], y.data) /\ ~HasKey(trees.lr, y.data, y.key[2])
  <2>1. PICK e \in start.lr : e.key = <<x.data, x.key>>
    BY <1>5 DEF HasKey
  <2>2. RlOf(e) \in FoundRl
    BY <1>6, <1>7, <2>1 DEF HasKey
  <2>3. RlOf(e).data = x.data /\ RlOf(e).key[2] = x.key
    BY <2>1 DEF RlOf, Rl
  <2>4. x = Ll(x.key, x.data)
    BY <1>5, LlTyped DEF Trees
  <2>5. QED
    BY <1>7, <2>2, <2>3, <2>4
<1>8. trees = [lr |-> trees.lr, rl |-> trees.rl, ll |-> trees.ll]
  BY <1>1 DEF Trees
<1>9. CASE walk = "0100"
  <2>1. trees.ll = start.ll \ {Ll(x.key[2], x.data) :
                       x \in {y \in FoundRl : ~HasKey(trees.lr, y.data, y.key[2])}}
    <3>1. \A y : ~HasKey(trees.lr, y.data, y.key[2])
                   => ~HasKey(trees.lr, Ll(y.key[2], y.data).data, Ll(y.key[2], y.data).key)
      BY DEF Ll
    <3>2. QED
      BY <1>4, <1>7, <1>9, <3>1
  <2>2. trees = T!Deleted(start, FilterOf(call))
    <3> DEFINE lone == {Ll(x.key[2], x.data) :
                          x \in {y \in FoundRl : ~HasKey(trees.lr, y.data, y.key[2])}}
    <3>1. T!Deleted(start, FilterOf(call)) =
            [lr |-> trees.lr, rl |-> start.rl \ FoundRl, ll |-> start.ll \ lone]
      BY <1>1, <1>6, <1>9, DeletedByRightIs
    <3>2. trees.ll = start.ll \ lone
      BY <2>1
    <3> HIDE DEF lone
    <3>3. QED
      BY <1>3, <1>8, <3>1, <3>2
  <2>3. trees.rl = {RlOf(e) : e \in trees.lr}
    BY <1>4, <1>5, RlImages
  <2>4. InStep(trees)
    BY <1>1, <1>4, <1>5, <1>9, <2>3 DEF InStep
  <2>5. QED
    BY <2>2, <2>4
<1>10. CASE walk = "0110"
  <2>1. trees.ll = start.ll \ {Ll(x.key[2], x.data) : x \in FoundRl}
    BY <1>3, <1>4, <1>10
  <2>2. trees = T!Deleted(start, FilterOf(call))
    BY <1>1, <1>3, <1>6, <1>8, <1>10, <2>1, DeletedByRightAndLabelIs
  <2>3. trees.rl = {RlOf(e) : e \in trees.lr}
    BY <1>4, <1>5, RlImages
  <2>4. \A x \in trees.ll : HasKey(trees.lr, x.data, x.key)
    BY <1>7, <2>1
  <2>5. InStep(trees)
    BY <1>1, <1>4, <1>5, <2>3, <2>4 DEF InStep
  <2>6. QED
    BY <2>2, <2>5
<1>11. QED
  BY <1>9, <1>10 DEF RlWalks

LEMMA LlExit ==
  ASSUME IInv, pc = "exit", walk = "0010"
  PROVE  trees = T!Deleted(start, FilterOf(call)) /\ InStep(trees)
<1>1. Running({"0010"}) /\ call \in Call /\ trees \in Trees
  BY CallsAssumption DEF IInv, Control, Running
<1>2. \A x : ~AheadLl(x)
  BY DEF AheadLl
<1>3. trees.ll = start.ll \ FoundLl /\ FoundLl \in SUBSET start.ll
  BY <1>1, <1>2 DEF IInv, LlContents, FoundLl
<1>4. /\ trees.lr = {e \in start.lr : Remains(e)} /\ trees.rl = {RlOf(e) : e \in trees.lr}
  BY <1>1 DEF IInv, LlContents
<1> DEFINE gone == {e \in start.lr : LlOf(e) \in FoundLl}
<1>5. trees.lr = start.lr \ gone /\ gone \in SUBSET start.lr
  BY <1>3, <1>4 DEF Remains
<1> HIDE DEF gone
<1>6. /\ InStep(start) /\ start.rl = {RlOf(e) : e \in start.lr} /\ start \in Trees
      /\ \A x \in start.ll : HasKey(start.lr, x.data, x.key)
  BY DEF IInv, Control, InStep
<1>7. trees.rl = start.rl \ {RlOf(e) : e \in gone}
  <2>1. start.lr \in SUBSET start.lr
    OBVIOUS
  <2>2. QED
    BY <1>4, <1>5, <1>6, <2>1, ImagesLeft
<1>8. trees = T!Deleted(start, FilterOf(call))
  <2>1. trees = [lr |-> trees.lr, rl |-> trees.rl, ll |-> trees.ll]
    BY <1>1 DEF Trees
  <2>2. QED
    BY <1>1, <1>3, <1>5, <1>7, <2>1, DeletedByLabelIs DEF gone
<1>9. ASSUME NEW x \in trees.ll
      PROVE  HasKey(trees.lr, x.data, x.key)
  <2>1. x \in start.ll /\ x \notin FoundLl
    BY <1>3
  <2>2. PICK e \in start.lr : e.key = <<x.data, x.key>>
    BY <1>6, <2>1 DEF HasKey
  <2>3. LlOf(e) = x
    BY <1>6, <2>1, <2>2, LlTyped DEF LlOf, Ll, Trees
  <2>4. e \in trees.lr
    BY <1>5, <2>1, <2>3 DEF gone
  <2>5. QED
    BY <2>2, <2>4 DEF HasKey
<1>10. InStep(trees)
  BY <1>1, <1>4, <1>5, <1>6, <1>9 DEF InStep
<1>11. QED
  BY <1>8, <1>10

LEMMA Exit ==
  ASSUME IInv, pc = "exit"
  PROVE  trees = T!Deleted(start, FilterOf(call)) /\ InStep(trees)
<1>1. pc # "idle" /\ call \in Call
  BY CallsAssumption DEF IInv, Control
<1>2. CASE walk = "none"
  <2>1. trees = start /\ InStep(start)
    BY <1>1, <1>2 DEF IInv, Control, Running
  <2>2. QED
    BY <1>1, <1>2, <2>1, NoneDeleted
<1>3. QED
  BY <1>1, <1>2, WalkOf, LrExit, RlExit, LlExit DEF walk
-----------------------------------------------------------------------------
(* A deletion begins with all that matches ahead of it, and ends.          *)

LEMMA InitInv == Init => IInv
<1> SUFFICES ASSUME Init PROVE IInv
  OBVIOUS
<1>1. InStep(start) /\ trees \in Trees
  BY DEF Init, InStep, Trees
<1>2. Control
  BY <1>1 DEF Init, Control, Running
<1>3. QED
  BY <1>2 DEF Init, IInv, LrCursor, LrContents, RlCursor, RlContents, LlCursor, LlContents, Running

(* Between deletions only the trees matter.                                *)
LEMMA IdleInv ==
  ASSUME pc' = "idle", InStep(trees)', trees' = start', at' = {}, at2' = {}, from' = 0
  PROVE  IInv'
<1>1. Control'
  BY DEF Control, Running, InStep
<1>2. QED
  BY <1>1 DEF IInv, LrCursor, LrContents, RlCursor, RlContents, LlCursor, LlContents, Running

LEMMA ReturnInv ==
  ASSUME IInv, Return
  PROVE  IInv'
BY Exit, IdleInv DEF Return, Idle, InStep

LEMMA EnsureInv ==
  ASSUME IInv, Ensure
  PROVE  IInv'
<1> USE DEF Ensure
<1>1. InStep(trees)
  BY DEF IInv, Control
<1>2. PICK e \in Relations :
        trees' = T!Ensured(trees, {e.key[1]}, {e.key[2]}, {e.data[2]},
                           [x \in {<<e.key[1], e.key[2], e.data[2]>>} |-> e.data[1]])
  OBVIOUS
<1> DEFINE missing == {x \in {e.key[1]} \X {e.key[2]} \X {e.data[2]} :
                         Rl(x[3], x[2], x[1]) \notin trees.rl}
<1>3. missing = IF RlOf(e) \in trees.rl THEN {} ELSE {<<e.key[1], e.key[2], e.data[2]>>}
  BY DEF RlOf
<1>4. trees' = [lr |-> trees.lr \cup {Lr(x[1], x[2], e.data[1], x[3]) : x \in missing},
                rl |-> trees.rl \cup {Rl(x[3], x[2], x[1]) : x \in missing},
                ll |-> trees.ll \cup {Ll(x[2], x[1]) : x \in missing}]
  <2> DEFINE generator == [x \in {<<e.key[1], e.key[2], e.data[2]>>} |-> e.data[1]]
  <2>1. \A x \in missing : generator[x] = e.data[1]
    BY <1>3
  <2> HIDE DEF generator
  <2>2. trees' = [lr |-> trees.lr \cup {Lr(x[1], x[2], generator[x], x[3]) : x \in missing},
                  rl |-> trees.rl \cup {Rl(x[3], x[2], x[1]) : x \in missing},
                  ll |-> trees.ll \cup {Ll(x[2], x[1]) : x \in missing}]
    BY <1>2 DEF generator, T!Ensured, T!Lr, T!Rl, T!Ll, Lr, Rl, Ll
  <2> HIDE DEF missing
  <2>3. {Lr(x[1], x[2], generator[x], x[3]) : x \in missing}
        = {Lr(x[1], x[2], e.data[1], x[3]) : x \in missing}
    BY <2>1
  <2>4. QED
    BY <2>2, <2>3
<1>5. e \in LrEntry /\ e = Lr(e.key[1], e.key[2], e.data[1], e.data[2])
  BY RelationsAssumption, LrTyped
<1>6. CASE RlOf(e) \in trees.rl
  <2>1. trees' = [lr |-> trees.lr, rl |-> trees.rl, ll |-> trees.ll]
    BY <1>3, <1>4, <1>6
  <2>2. trees' = trees
    BY <1>1, <2>1 DEF InStep, Trees
  <2>3. QED
    BY <1>1, <2>2, IdleInv DEF IInv, Control, InStep
<1>7. CASE RlOf(e) \notin trees.rl
  <2>1. trees' = [lr |-> trees.lr \cup {e}, rl |-> trees.rl \cup {RlOf(e)},
                  ll |-> trees.ll \cup {LlOf(e)}]
    <3> DEFINE x0 == <<e.key[1], e.key[2], e.data[2]>>
    <3>1. missing = {x0} /\ x0[1] = e.key[1] /\ x0[2] = e.key[2] /\ x0[3] = e.data[2]
      BY <1>3, <1>7
    <3> HIDE DEF missing, x0
    <3>2. trees' = [lr |-> trees.lr \cup {Lr(x0[1], x0[2], e.data[1], x0[3])},
                    rl |-> trees.rl \cup {Rl(x0[3], x0[2], x0[1])},
                    ll |-> trees.ll \cup {Ll(x0[2], x0[1])}]
      BY <1>4, <3>1
    <3>3. QED
      BY <1>5, <3>1, <3>2 DEF RlOf, LlOf
  <2>2. RlOf(e) \in RlEntry /\ LlOf(e) \in LlEntry
    BY <1>5, LrTyped DEF RlOf, LlOf, RlEntry, LlEntry, Rl, Ll
  <2>3. trees' \in Trees
    BY <1>1, <1>5, <2>1, <2>2 DEF InStep, Trees
  <2>4. \A d \in trees.lr : ~(d.key = e.key /\ d.data[2] = e.data[2])
    <3>1. \A d \in trees.lr : RlOf(d) \in trees.rl
      BY <1>1 DEF InStep
    <3>2. QED
      BY <1>7, <3>1 DEF RlOf
  <2>5. \A x \in trees.ll \cup {LlOf(e)} : HasKey(trees.lr \cup {e}, x.data, x.key)
    <3>1. e.key = <<LlOf(e).data, LlOf(e).key>>
      BY <1>5, LrTyped DEF LlOf, Ll
    <3>2. QED
      BY <1>1, <3>1 DEF InStep, HasKey
  <2>6. InStep(trees')
    <3>1. trees'.lr = trees.lr \cup {e} /\ trees'.rl = trees.rl \cup {RlOf(e)}
          /\ trees'.ll = trees.ll \cup {LlOf(e)}
      BY <2>1
    <3>2. \A d, f \in trees'.lr : d.key = f.key /\ d.data[2] = f.data[2] => d = f
      BY <1>1, <2>4, <3>1 DEF InStep
    <3>3. trees'.rl = {RlOf(d) : d \in trees'.lr}
      BY <1>1, <3>1 DEF InStep
    <3>4. QED
      BY <2>3, <2>5, <3>1, <3>2, <3>3 DEF InStep
  <2>7. QED
    BY <2>6, IdleInv DEF IInv, Control, InStep
<1>8. QED
  BY <1>6, <1>7

LEMMA DeleteInv ==
  ASSUME IInv, NEW c \in Calls, Delete(c)
  PROVE  IInv'
<1>1. /\ c \in Call /\ InStep(start) /\ trees = start /\ trees \in Trees /\ from = 0
      /\ call' = c /\ walk' = Walk(c) /\ pc' = Entry(Walk(c)) /\ start' = start /\ trees' = trees
      /\ from' = from
  BY CallsAssumption DEF IInv, Control, walk, Delete, Goto
<1>2. /\ pc' \notin {"idle", "each_key", "each_data", "each_data_2"}
      /\ walk' = "none" <=> pc' = "exit"
      /\ walk' \in KeyWalks => pc' = "set_range"
      /\ walk' \in LabelWalks \cup {"0110", "0010"} => pc' = "set_key"
      /\ walk' = "0100" => pc' = "set_range_right"
  BY <1>1, WalkOf DEF Entry, KeyWalks, LabelWalks, LrWalks, RlWalks
<1>3. /\ walk' \in LrWalks => left' = c.left /\ c.left \in Seq(Ids(c.left)) \ {<<>>}
      /\ walk' \in LabelWalks \cup {"0110", "0010"} =>
           label' = c.label /\ c.label \in Seq(Ids(c.label)) \ {<<>>} /\ Ids(c.label) # Null
      /\ walk' \in RlWalks => right' = c.right /\ c.right \in Seq(Ids(c.right)) \ {<<>>}
  BY <1>1, WalkOf, Given DEF ArrayIn, Delete
<1>4. /\ walk' \in LrWalks => Ids(c.left) = {Head(left')} \cup Range(Tail(left'))
      /\ walk' \in LabelWalks \cup {"0110", "0010"} =>
           Ids(c.label) = {Head(label')} \cup Range(Tail(label'))
      /\ walk' \in RlWalks => Ids(c.right) = {Head(right')} \cup Range(Tail(right'))
                              /\ Ids(c.right) = Range(right')
  BY <1>1, <1>3, WalkOf, Current DEF Ids
<1>5. Control'
  <2>1. InStep(start)'
    BY <1>1 DEF InStep
  <2>2. (pc \in Labels \cup {"exit"})'
    BY <1>1, <1>2, WalkOf DEF Labels, LrWalks, RlWalks, KeyWalks, LabelWalks
  <2>3. QED
    BY <1>1, <1>2, <1>3, <2>1, <2>2 DEF Control, Running, Rest, LrWalks
<1>6. Passed' = {} /\ Kept' = trees.lr
  BY <1>1, <1>2 DEF Passed, Kept
<1>7. LrContents'
  <2> SUFFICES ASSUME walk' \in LrWalks
               PROVE  LrContents'
    BY DEF LrContents, Running
  <2>0. walk' \in LrWalks
    OBVIOUS
  <2>1. ASSUME NEW e \in trees.lr, MatchedLr(e)'
        PROVE  AheadLr(e)'
    <3>1. /\ e.key[1] \in Ids(c.left) /\ e.key[2] \in Nat
          /\ Ids(c.label) # Null => e.key[2] \in Ids(c.label)
      BY <1>1, <2>1, LrTyped DEF MatchedLr, Selects, Trees
    <3>2. CASE walk' \in KeyWalks
      <4>1. pc' = "set_range" /\ from' <= e.key[2]
            /\ e.key[1] \in {Head(left')} \cup Range(Tail(left'))
        <5>1. pc' = "set_range"
          BY <1>2, <3>2
        <5>2. from' <= e.key[2]
          BY <1>1, <3>1
        <5>3. e.key[1] \in {Head(left')} \cup Range(Tail(left'))
          BY <1>4, <2>0, <3>1
        <5>4. QED
          BY <5>1, <5>2, <5>3
      <4>2. AheadKeys(e)'
        BY <4>1 DEF AheadKeys
      <4>3. QED
        BY <3>2, <4>2 DEF AheadLr
    <3>3. CASE walk' \in LabelWalks
      <4>1. pc' = "set_key" /\ e.key[1] \in {Head(left')} \cup Range(Tail(left'))
            /\ e.key[2] \in {Head(label')} \cup Range(Tail(label'))
        <5>1. pc' = "set_key"
          BY <1>2, <3>3
        <5>2. e.key[1] \in {Head(left')} \cup Range(Tail(left'))
          BY <1>4, <2>0, <3>1
        <5>3. e.key[2] \in {Head(label')} \cup Range(Tail(label'))
          BY <1>3, <1>4, <3>1, <3>3
        <5>4. QED
          BY <5>1, <5>2, <5>3
      <4>2. /\ Ahead(left, label, e.key[1], e.key[2], OnOrAfter(e))'
            /\ Ahead(label, left, e.key[2], e.key[1], OnOrAfter(e))'
        BY <4>1 DEF Ahead
      <4>3. QED
        BY <3>3, <4>2 DEF AheadLr, LabelWalks
    <3>4. QED
      BY <2>1, <3>2, <3>3, <1>1 DEF LrWalks
  <2>2. trees.rl = {RlOf(e) : e \in trees.lr}
        /\ trees.ll = {x \in start.ll : HasKey(trees.lr, x.data, x.key)}
    BY <1>1 DEF InStep
  <2>3. QED
    BY <1>1, <1>6, <2>1, <2>2 DEF LrContents
<1>8. RlContents'
  <2> SUFFICES ASSUME walk' \in RlWalks
               PROVE  RlContents'
    BY DEF RlContents, Running
  <2>1. ASSUME NEW x \in trees.rl, MatchedRl(x)'
        PROVE  AheadRl(x)'
    <3>1. x.key[1] \in Ids(c.right) /\ (Ids(c.label) # Null => x.key[2] \in Ids(c.label))
      BY <1>1, <2>1 DEF MatchedRl, Selects
    <3>2. CASE walk' = "0100"
      BY <1>1, <1>2, <1>4, <3>1, <3>2 DEF AheadRl
    <3>3. CASE walk' = "0110"
      BY <1>1, <1>2, <1>3, <1>4, <3>1, <3>3 DEF AheadRl, Ahead
    <3>4. QED
      BY <3>2, <3>3 DEF RlWalks
  <2>2. trees.lr = {e \in start.lr : RlOf(e) \in trees.rl}
        /\ trees.ll = {x \in start.ll : HasKey(trees.lr, x.data, x.key)}
    BY <1>1 DEF InStep
  <2>3. trees.ll = start.ll \ {Ll(x.key[2], x.data) : x \in start.rl \ trees.rl}
    BY <1>1
  <2>4. QED
    BY <1>1, <2>1, <2>2, <2>3 DEF RlContents
<1>9. LlContents'
  <2> SUFFICES ASSUME walk' = "0010"
               PROVE  LlContents'
    BY DEF LlContents, Running
  <2>1. ASSUME NEW x, MatchedLl(x)'
        PROVE  AheadLl(x)'
    BY <1>1, <1>2, <1>4, <2>1 DEF MatchedLl, AheadLl
  <2>2. \A e : Remains(e)'
    BY <1>1, <1>2 DEF Remains
  <2>3. trees.rl = {RlOf(e) : e \in trees.lr}
    BY <1>1 DEF InStep
  <2>4. QED
    BY <1>1, <2>1, <2>2, <2>3 DEF LlContents
<1>10. LrCursor' /\ RlCursor' /\ LlCursor'
  BY <1>2 DEF LrCursor, RlCursor, LlCursor
<1>11. QED
  BY <1>5, <1>7, <1>8, <1>9, <1>10 DEF IInv
-----------------------------------------------------------------------------
(* Where the lookups of the lr cursor land.                                *)

LEMMA LrOrder ==
  ASSUME NEW d \in LrEntry, NEW e \in LrEntry, NEW f \in LrEntry
  PROVE  /\ d.data = e.data \/ RelationDataBefore(d.data, e.data) \/ RelationDataBefore(e.data, d.data)
         /\ ~(RelationDataBefore(d.data, e.data) /\ RelationDataBefore(e.data, d.data))
         /\ ~RelationDataBefore(d.data, d.data)
         /\ RelationDataBefore(d.data, e.data) /\ RelationDataBefore(e.data, f.data)
              => RelationDataBefore(d.data, f.data)
         /\ RelationDataBefore(d.data, e.data) => d.data[1] <= e.data[1]
         /\ d.key = e.key /\ d.data = e.data => d = e
         /\ RelationKeyBefore(d.key, e.key) => d.key[1] <= e.key[1] /\ d.key # e.key
         /\ RelationKeyBefore(d.key, e.key) /\ d.key[1] = e.key[1] => d.key[2] < e.key[2]
         /\ LR!Before(d, e) <=> \/ RelationKeyBefore(d.key, e.key)
                                \/ d.key = e.key /\ RelationDataBefore(d.data, e.data)
<1>1. \A x \in {d, e, f} : /\ x.key[1] \in Nat /\ x.key[2] \in Nat /\ x.data[1] \in Nat /\ x.data[2] \in Nat
                           /\ x.key = <<x.key[1], x.key[2]>> /\ x.data = <<x.data[1], x.data[2]>>
  BY LrTyped
<1>2. d.key = e.key /\ d.data = e.data => d = e
  BY DEF LrEntry
<1>3. LR!Before(d, e) <=> \/ RelationKeyBefore(d.key, e.key)
                          \/ d.key = e.key /\ RelationDataBefore(d.data, e.data)
  BY DEF LR!Before
<1>4. QED
  BY <1>1, <1>2, <1>3 DEF RelationDataBefore, RelationKeyBefore

LEMMA LrNextDup ==
  ASSUME NEW lr \in SUBSET LrEntry, NEW a \in lr
  PROVE  /\ LR!NextDup(lr, a) = {} =>
              \A e \in lr : e.key = a.key => e = a \/ RelationDataBefore(e.data, a.data)
         /\ LR!NextDup(lr, a) # {} =>
              \E m \in lr : /\ LR!NextDup(lr, a) = {m} /\ m.key = a.key
                            /\ RelationDataBefore(a.data, m.data)
                            /\ \A e \in lr : e.key = a.key =>
                                 \/ e = a \/ RelationDataBefore(e.data, a.data)
                                 \/ e = m \/ RelationDataBefore(m.data, e.data)
<1> DEFINE S == {e \in lr : e.key = a.key /\ RelationDataBefore(a.data, e.data)}
<1>1. LR!NextDup(lr, a) = LR!Least(S) /\ S \in SUBSET LrEntry
  BY DEF LR!NextDup
<1>2. \A e \in lr : e.key = a.key => e = a \/ RelationDataBefore(e.data, a.data) \/ e \in S
  BY LrOrder
<1>3. ASSUME S = {} PROVE LR!Least(S) = {}
  BY <1>1, <1>3, LrLands
<1>4. ASSUME S # {}
      PROVE  \E m \in S : LR!Least(S) = {m} /\ \A d \in S : d = m \/ RelationDataBefore(m.data, d.data)
  <2>1. PICK m \in S : LR!Least(S) = {m} /\ \A d \in S : d = m \/ LR!Before(m, d)
    BY <1>1, <1>4, LrLands
  <2>2. \A d \in S : d.key = m.key /\ d \in LrEntry
    BY <2>1
  <2>3. QED
    BY <2>1, <2>2, LrOrder
<1>5. \A e \in S : e \in lr /\ e.key = a.key /\ RelationDataBefore(a.data, e.data)
  OBVIOUS
<1> HIDE DEF S
<1>6. QED
  BY <1>1, <1>2, <1>3, <1>4, <1>5

LEMMA LrNextNodup ==
  ASSUME NEW lr \in SUBSET LrEntry, NEW a \in LrEntry
  PROVE  /\ \/ LR!NextNodup(lr, a) = {}
            \/ \E m \in lr : /\ LR!NextNodup(lr, a) = {m} /\ RelationKeyBefore(a.key, m.key)
                             /\ \A d \in lr : d.key = m.key => d = m \/ LR!Before(m, d)
         /\ \A e \in lr : RelationKeyBefore(a.key, e.key) =>
              \E m \in LR!NextNodup(lr, a) : e = m \/ LR!Before(m, e)
<1> DEFINE S == {e \in lr : RelationKeyBefore(a.key, e.key)}
<1>1. LR!NextNodup(lr, a) = LR!Least(S) /\ S \in SUBSET LrEntry
  BY DEF LR!NextNodup
<1>2. \A e \in lr : RelationKeyBefore(a.key, e.key) <=> e \in S
  OBVIOUS
<1>3. \A d, e \in lr : e \in S /\ d.key = e.key => d \in S
  OBVIOUS
<1>4. S \subseteq lr
  OBVIOUS
<1> HIDE DEF S
<1>5. LR!NextNodup(lr, a) = {} <=> S = {}
  BY <1>1, LrLands
<1>6. ASSUME S # {}
      PROVE  \E m \in S : LR!NextNodup(lr, a) = {m} /\ \A d \in S : d = m \/ LR!Before(m, d)
  BY <1>1, <1>6, LrLands
<1>7. QED
  BY <1>2, <1>3, <1>4, <1>5, <1>6

LEMMA LrSetRange ==
  ASSUME trees.lr \in SUBSET LrEntry, Head(left) \in Nat, from \in Nat,
         at' = LR!SetRange(trees.lr, <<Head(left), from>>)
  PROVE  /\ \/ at' = {}
            \/ \E m \in trees.lr : /\ at' = {m} /\ Head(left) <= m.key[1]
                                   /\ \A d \in trees.lr : d.key = m.key => d = m \/ LR!Before(m, d)
         /\ \A e \in trees.lr : e.key[1] = Head(left) /\ from <= e.key[2] =>
              \E m \in at' : e = m \/ LR!Before(m, e)
<1> DEFINE lr == trees.lr
           left0 == Head(left)
           key == <<left0, from>>
           S == {e \in lr : e.key = key \/ RelationKeyBefore(key, e.key)}
<1>0. lr \in SUBSET LrEntry /\ left0 \in Nat /\ from \in Nat /\ at' = LR!SetRange(lr, key)
  OBVIOUS
<1> HIDE DEF lr, left0
<1>1. LR!SetRange(lr, key) = LR!Least(S) /\ S \in SUBSET LrEntry
  BY <1>0 DEF LR!SetRange
<1>2. \A e \in S : left0 <= e.key[1]
  BY <1>0, LrTyped DEF RelationKeyBefore
<1>3. \A e \in lr : e.key[1] = left0 /\ from <= e.key[2] => e \in S
  BY <1>0, LrTyped DEF RelationKeyBefore
<1>4. \A d, e \in lr : e \in S /\ d.key = e.key => d \in S
  OBVIOUS
<1> HIDE DEF S
<1>5. S \subseteq lr
  BY DEF S
<1> HIDE DEF key
<1>6. LR!SetRange(lr, key) = {} <=> S = {}
  BY <1>1, LrLands
<1>7. ASSUME S # {}
      PROVE  \E m \in S : LR!SetRange(lr, key) = {m} /\ \A d \in S : d = m \/ LR!Before(m, d)
  BY <1>1, <1>7, LrLands
<1>8. QED
  BY <1>0, <1>2, <1>3, <1>4, <1>5, <1>6, <1>7 DEF key, lr, left0

LEMMA LrSetKey ==
  ASSUME NEW lr \in SUBSET LrEntry, NEW key
  PROVE  /\ LR!SetKey(lr, key) = {} <=> \A e \in lr : e.key # key
         /\ LR!SetKey(lr, key) # {} =>
              \E m \in lr : /\ LR!SetKey(lr, key) = {m} /\ m.key = key
                            /\ \A e \in lr : e.key = key => e = m \/ RelationDataBefore(m.data, e.data)
<1> DEFINE S == {e \in lr : e.key = key}
<1>1. LR!SetKey(lr, key) = LR!Least(S) /\ S \in SUBSET LrEntry
  BY DEF LR!SetKey
<1>2. ASSUME S # {}
      PROVE  \E m \in S : LR!Least(S) = {m} /\ \A d \in S : d = m \/ RelationDataBefore(m.data, d.data)
  <2>1. PICK m \in S : LR!Least(S) = {m} /\ \A d \in S : d = m \/ LR!Before(m, d)
    BY <1>1, <1>2, LrLands
  <2>2. \A d \in S : d.key = m.key /\ d \in LrEntry
    BY <2>1
  <2>3. QED
    BY <2>1, <2>2, LrOrder
<1>3. S = {} => LR!Least(S) = {}
  BY <1>1, LrLands
<1>4. QED
  BY <1>1, <1>2, <1>3

(* The data that a range scan from data finds.                             *)
From(data, e) == e.data = data \/ RelationDataBefore(data, e.data)
LEMMA FromOrdinal ==
  ASSUME NEW e \in LrEntry, NEW ordinal \in Nat
  PROVE  From(<<ordinal, 0>>, e) <=> ordinal <= e.data[1]
BY LrTyped DEF From, RelationDataBefore

LEMMA LrGetBothRange ==
  ASSUME NEW lr \in SUBSET LrEntry, NEW key, NEW data
  PROVE  /\ LR!GetBothRange(lr, key, data) = {} =>
              \A e \in lr : e.key = key => ~From(data, e)
         /\ LR!GetBothRange(lr, key, data) # {} =>
              \E m \in lr : /\ LR!GetBothRange(lr, key, data) = {m} /\ m.key = key /\ From(data, m)
                            /\ \A e \in lr : e.key = key /\ From(data, e) =>
                                 e = m \/ RelationDataBefore(m.data, e.data)
<1> DEFINE S == {e \in lr : e.key = key /\ From(data, e)}
<1>1. LR!GetBothRange(lr, key, data) = LR!Least(S) /\ S \in SUBSET LrEntry
  BY DEF LR!GetBothRange, From
<1>2. ASSUME S # {}
      PROVE  \E m \in S : LR!Least(S) = {m} /\ \A d \in S : d = m \/ RelationDataBefore(m.data, d.data)
  <2>1. PICK m \in S : LR!Least(S) = {m} /\ \A d \in S : d = m \/ LR!Before(m, d)
    BY <1>1, <1>2, LrLands
  <2>2. \A d \in S : d.key = m.key /\ d \in LrEntry
    BY <2>1
  <2>3. QED
    BY <2>1, <2>2, LrOrder
<1>3. S = {} => LR!Least(S) = {}
  BY <1>1, LrLands
<1>4. QED
  BY <1>1, <1>2, <1>3
-----------------------------------------------------------------------------
(* What a step of a walk through lr has to do.                             *)

LEMMA Without ==
  ASSUME NEW t \in Trees, NEW e, NEW key
  PROVE  /\ WithoutLr(t, e) \in Trees /\ WithoutLr(t, e).lr = t.lr \ {e}
         /\ WithoutLr(t, e).rl = t.rl /\ WithoutLr(t, e).ll = t.ll
         /\ WithoutRl(t, e) \in Trees /\ WithoutRl(t, e).rl = t.rl \ {RlOf(e)}
         /\ WithoutRl(t, e).lr = t.lr /\ WithoutRl(t, e).ll = t.ll
         /\ WithoutLl(t, key) \in Trees /\ WithoutLl(t, key).ll = t.ll \ {Ll(key[2], key[1])}
         /\ WithoutLl(t, key).lr = t.lr /\ WithoutLl(t, key).rl = t.rl
BY DEF Trees, WithoutLr, WithoutRl, WithoutLl

LEMMA LrStep ==
  ASSUME IInv, Running(LrWalks), call' = call, start' = start,
         pc' \in Labels \cup {"exit"}, from' \in Label \cup {0}, trees' \in Trees,
         Rest(left, call.left)', walk \in LabelWalks => Rest(label, call.label)',
         LrCursor',
         NEW gone \in SUBSET Kept, \A e \in gone : MatchedLr(e), Kept' = Kept \ gone,
         trees'.lr \subseteq trees.lr,
         trees'.rl = trees.rl \ {RlOf(e) : e \in gone},
         trees'.ll = {x \in start.ll : HasKey(trees'.lr, x.data, x.key)} \ {LlOf(d) : d \in Passed'},
         \A e \in Kept \ gone : MatchedLr(e) /\ AheadLr(e) => AheadLr(e)'
  PROVE  IInv'
<1>1. walk' = walk /\ walk \in LrWalks /\ pc # "idle" /\ pc' # "idle"
      /\ walk \notin RlWalks /\ walk \notin {"0010", "none"}
  BY DEF walk, Running, Labels, LrWalks, KeyWalks, LabelWalks, RlWalks
<1>2. Control'
  <2>1. InStep(start)'
    BY DEF IInv, Control, InStep
  <2>2. (pc \in Labels \cup {"exit"})'
    BY <1>1 DEF Labels
  <2>3. call \in Calls
    BY <1>1 DEF IInv, Control
  <2>4. walk' \notin LabelWalks => walk' \notin LabelWalks \cup {"0110", "0010"}
    BY <1>1 DEF RlWalks
  <2>5. QED
    BY <1>1, <2>1, <2>2, <2>3, <2>4 DEF Control, Running
<1>3. \A e : MatchedLr(e)' <=> MatchedLr(e)
  BY DEF MatchedLr
<1>4. LrContents'
  <2>1. /\ trees.lr \subseteq start.lr /\ \A e \in start.lr \ Kept : MatchedLr(e)
        /\ \A e \in Kept : MatchedLr(e) => AheadLr(e)
        /\ trees.rl = {RlOf(e) : e \in Kept}
    BY DEF IInv, LrContents
  <2>2. trees'.rl = {RlOf(e) : e \in Kept'}
    <3>1. Kept \in SUBSET start.lr /\ InStep(start)
      BY <2>1 DEF Kept, IInv, Control
    <3>2. QED
      BY <2>1, <3>1, ImagesLeft
  <2>3. \A e \in start.lr \ Kept' : MatchedLr(e)
    BY <2>1
  <2>4. \A e \in Kept' : MatchedLr(e) => AheadLr(e)'
    BY <2>1
  <2>5. QED
    BY <1>1, <1>3, <2>1, <2>2, <2>3, <2>4 DEF LrContents
<1>5. RlCursor' /\ RlContents' /\ LlCursor' /\ LlContents'
  BY <1>1 DEF RlCursor, RlContents, LlCursor, LlContents, Running
<1>6. QED
  BY <1>2, <1>4, <1>5 DEF IInv

(* A step that takes nothing out.                                          *)
LEMMA LrStay ==
  ASSUME IInv, Running(LrWalks), call' = call, start' = start, trees' = trees,
         pc' \in Labels \cup {"exit"}, from' \in Label \cup {0},
         Rest(left, call.left)', walk \in LabelWalks => Rest(label, call.label)',
         LrCursor', Passed = {}, Passed' = {},
         \A e \in trees.lr : MatchedLr(e) /\ AheadLr(e) => AheadLr(e)'
  PROVE  IInv'
<1>1. Kept = trees.lr /\ Kept' = trees.lr
  BY DEF Kept
<1>2. trees.ll = {x \in start.ll : HasKey(trees.lr, x.data, x.key)} \ {LlOf(d) : d \in Passed}
  BY DEF IInv, LrContents
<1>3. trees \in Trees
  BY DEF IInv, Control
<1>4. trees'.rl = trees.rl \ {RlOf(e) : e \in {}}
  OBVIOUS
<1>5. {} \in SUBSET Kept /\ (\A e \in {} : MatchedLr(e)) /\ Kept' = Kept \ {}
  BY <1>1
<1>6. trees'.ll = {x \in start.ll : HasKey(trees'.lr, x.data, x.key)} \ {LlOf(d) : d \in Passed'}
  BY <1>2
<1>7. QED
  BY <1>1, <1>3, <1>4, <1>5, <1>6, LrStep

LEMMA LrRunning ==
  ASSUME IInv, Running(LrWalks), pc # "exit"
  PROVE  /\ call \in Call /\ InStep(start) /\ start.ll \in SUBSET LlEntry
         /\ trees \in Trees /\ trees.lr \in SUBSET LrEntry
         /\ left \in Seq(Ids(call.left)) \ {<<>>} /\ Head(left) \in Ids(call.left)
         /\ Head(left) \in Nat /\ Tail(left) \in Seq(Ids(call.left)) /\ Ids(call.left) \in SUBSET Nat
         /\ from \in Label \cup {0} /\ from \in Nat
         /\ walk \in LabelWalks =>
              /\ label \in Seq(Ids(call.label)) \ {<<>>} /\ Head(label) \in Ids(call.label)
              /\ Tail(label) \in Seq(Ids(call.label)) /\ Ids(call.label) # Null
              /\ Head(label) \in Label /\ Ids(call.label) \in SUBSET Nat
<1>1. call \in Call /\ walk \in LrWalks
  BY CallsAssumption DEF IInv, Control, Running
<1>2. InStep(start) /\ start.ll \in SUBSET LlEntry /\ trees \in Trees /\ trees.lr \in SUBSET LrEntry
      /\ from \in Label \cup {0}
  BY DEF IInv, Control, InStep, Trees
<1>3. left \in Seq(Ids(call.left)) \ {<<>>} /\ Ids(call.left) \in SUBSET Left
  BY <1>1, WalkOf, Given DEF IInv, Control, Rest, walk
<1>4. Head(left) \in Ids(call.left) /\ Tail(left) \in Seq(Ids(call.left))
  BY <1>3, Current
<1>5. ASSUME walk \in LabelWalks
      PROVE  /\ label \in Seq(Ids(call.label)) \ {<<>>} /\ Ids(call.label) \in SUBSET Label
             /\ Ids(call.label) # Null
  BY <1>1, <1>5, WalkOf, Given DEF IInv, Control, Rest, walk, Running
<1>6. walk \in LabelWalks => Head(label) \in Ids(call.label) /\ Tail(label) \in Seq(Ids(call.label))
  BY <1>5, Current
<1>7. QED
  BY <1>1, <1>2, <1>3, <1>4, <1>5, <1>6, IdsAssumption DEF walk
-----------------------------------------------------------------------------
(* 1000, 1100 and 1001_1101.                                               *)

LEMMA KeyWalk ==
  ASSUME walk \in KeyWalks
  PROVE  /\ walk \in LrWalks /\ walk \notin LabelWalks
         /\ \A e : AheadLr(e) <=> AheadKeys(e)
         /\ Labels = {"set_range", "each_key", "each_data"}
BY DEF LrWalks, KeyWalks, LabelWalks, AheadLr, Labels

LEMMA SetRangeInv ==
  ASSUME IInv, SetRange
  PROVE  IInv'
<1>1. /\ walk \in KeyWalks /\ pc = "set_range" /\ pc' = "each_key"
      /\ trees' = trees /\ call' = call /\ start' = start /\ left' = left /\ from' = from
      /\ at' = LR!SetRange(trees.lr, <<Head(left), from>>) /\ walk' = walk
  BY DEF SetRange, At, Goto, KeyWalks, walk, arrays
<1>2. Running(LrWalks) /\ Passed = {} /\ Passed' = {} /\ Labels = {"set_range", "each_key", "each_data"}
  BY <1>1, KeyWalk DEF Running, Passed
<1>3. /\ \/ at' = {}
         \/ \E m \in trees.lr : /\ at' = {m} /\ Head(left) <= m.key[1]
                                /\ \A d \in trees.lr : d.key = m.key => d = m \/ LR!Before(m, d)
      /\ \A e \in trees.lr : e.key[1] = Head(left) /\ from <= e.key[2] =>
           \E m \in at' : e = m \/ LR!Before(m, e)
  <2>1. trees.lr \in SUBSET LrEntry /\ Head(left) \in Nat /\ from \in Nat
    BY <1>1, <1>2, LrRunning
  <2>2. at' = LR!SetRange(trees.lr, <<Head(left), from>>)
    BY <1>1
  <2>3. QED
    BY <2>1, <2>2, LrSetRange
<1>4. LrCursor'
  BY <1>1, <1>3 DEF LrCursor
<1>5. ASSUME NEW e \in trees.lr, AheadLr(e)
      PROVE  AheadLr(e)'
  <2>1. AheadKeys(e)
    BY <1>1, <1>5, KeyWalk
  <2>2. AheadKeys(e)'
    BY <1>1, <1>3, <2>1 DEF AheadKeys, OnOrAfter
  <2>3. QED
    BY <1>1, <2>2 DEF AheadLr
<1>6. Rest(left, call.left)' /\ from' \in Label \cup {0} /\ walk \notin LabelWalks
  BY <1>1, <1>2, LrRunning, KeyWalk DEF Rest
<1>7. QED
  BY <1>1, <1>2, <1>4, <1>5, <1>6, LrStay

LEMMA NextLeftInv ==
  ASSUME IInv, NextLeft, walk \in KeyWalks, pc = "each_key"
  PROVE  IInv'
<1>1. /\ left' = Tail(left) /\ from' = 0 /\ pc' = IF Tail(left) = <<>> THEN "exit" ELSE "set_range"
      /\ trees' = trees /\ call' = call /\ start' = start /\ walk' = walk
      /\ ~ \E e \in at : e.key[1] = Head(left)
  BY DEF NextLeft, Goto, walk
<1>2. Running(LrWalks) /\ Passed = {} /\ Passed' = {} /\ Labels = {"set_range", "each_key", "each_data"}
  BY <1>1, KeyWalk DEF Running, Passed
<1>3. LrCursor'
  BY <1>1 DEF LrCursor
<1>4. ASSUME NEW e \in trees.lr, AheadLr(e)
      PROVE  AheadLr(e)'
  <2>1. AheadKeys(e)
    BY <1>4, KeyWalk
  <2>2. ASSUME OnOrAfter(e)
        PROVE  e.key[1] # Head(left)
    <3>1. PICK a \in trees.lr : at = {a} /\ Head(left) <= a.key[1]
      BY <1>2, <2>2 DEF IInv, LrCursor, OnOrAfter, Running
    <3>2. e = a \/ LR!Before(a, e)
      BY <2>2, <3>1 DEF OnOrAfter
    <3>3. a \in LrEntry /\ e \in LrEntry /\ a.key[1] \in Nat /\ e.key[1] \in Nat
      BY <1>2, LrRunning, LrTyped
    <3>4. a.key[1] <= e.key[1]
      BY <3>2, <3>3, LrOrder
    <3>5. QED
      BY <1>1, <1>2, <3>1, <3>3, <3>4, LrRunning
  <2>3. e.key[1] \in Range(Tail(left))
    BY <2>1, <2>2 DEF AheadKeys
  <2>4. Tail(left) # <<>> /\ Tail(left) \in Seq(Ids(call.left))
    BY <1>2, <2>3, LrRunning DEF Range
  <2>5. e.key[1] \in {Head(left')} \cup Range(Tail(left'))
    BY <1>1, <2>3, <2>4, Current
  <2>6. e.key[2] \in Nat
    BY <1>2, LrRunning, LrTyped
  <2>7. AheadKeys(e)'
    BY <1>1, <2>4, <2>5, <2>6 DEF AheadKeys
  <2>8. QED
    BY <1>1, <2>7 DEF AheadLr
<1>5. Rest(left, call.left)' /\ from' \in Label \cup {0} /\ walk \notin LabelWalks
  BY <1>1, <1>2, LrRunning, KeyWalk DEF Rest
<1>6. pc' \in Labels \cup {"exit"}
  BY <1>1, <1>2
<1>7. QED
  BY <1>1, <1>2, <1>3, <1>4, <1>5, <1>6, LrStay

LEMMA EachKeyInv ==
  ASSUME IInv, EachKey
  PROVE  IInv'
<1>1. walk \in KeyWalks /\ walk \in {"1000", "1100"} /\ pc = "each_key"
  BY DEF EachKey, At, KeyWalks
<1>2. CASE (\E e \in at : e.key[1] = Head(left)) /\ pc' = "each_data"
           /\ UNCHANGED <<trees, call, arrays, at, at2, from, start>>
  <2>1. /\ trees' = trees /\ call' = call /\ start' = start /\ left' = left /\ from' = from
        /\ at' = at /\ walk' = walk
    BY <1>2 DEF arrays, walk
  <2>2. Running(LrWalks) /\ Passed = {} /\ Labels = {"set_range", "each_key", "each_data"}
    BY <1>1, KeyWalk DEF Running, Passed
  <2>3. trees.lr \in SUBSET LrEntry /\ call.ordinal = Null
    BY <1>1, <2>2, LrRunning, WalkOf DEF walk, KeyWalks
  <2>4. PICK a \in trees.lr : /\ at = {a} /\ a.key[1] = Head(left)
                              /\ \A d \in trees.lr : d.key = a.key => d = a \/ LR!Before(a, d)
    BY <1>1, <1>2, <2>2 DEF IInv, LrCursor, Running
  <2>5. LrCursor'
    <3>1. walk' \notin LabelWalks
      BY <1>1, <2>1, KeyWalk
    <3>2. QED
      BY <1>1, <1>2, <2>1, <2>3, <2>4, <3>1 DEF LrCursor
  <2>6. Passed' = {}
    <3>1. \A d \in trees.lr : ~(d.key = a.key /\ RelationDataBefore(d.data, a.data))
      BY <2>3, <2>4, LrOrder
    <3>2. QED
      BY <2>1, <2>4, <3>1 DEF Passed
  <2>7. ASSUME NEW e \in trees.lr, AheadLr(e)
        PROVE  AheadLr(e)'
    <3>1. AheadKeys(e)
      BY <1>1, <2>7, KeyWalk
    <3>2. AheadKeys(e)'
      BY <1>1, <1>2, <2>1, <3>1 DEF AheadKeys, OnOrAfter
    <3>3. QED
      BY <1>1, <2>1, <3>2 DEF AheadLr
  <2>8. Rest(left, call.left)' /\ from' \in Label \cup {0} /\ walk \notin LabelWalks
    BY <1>1, <2>1, <2>2, LrRunning, KeyWalk DEF Rest
  <2>9. QED
    BY <1>2, <2>1, <2>2, <2>5, <2>6, <2>7, <2>8, LrStay
<1>3. CASE NextLeft
  BY <1>1, <1>3, NextLeftInv
<1>4. QED
  BY <1>2, <1>3 DEF EachKey, Goto

LEMMA ScanIs ==
  ASSUME call \in Call, call.ordinal # Null
  PROVE  /\ ScanStart(call.ordinal.min) \in Nat /\ call.ordinal.max \in Nat
         /\ \A e : T!InScan(call.ordinal, e.data[1]) <=>
                     /\ ScanStart(call.ordinal.min) <= e.data[1]
                     /\ call.ordinal.max = 0 \/ e.data[1] <= call.ordinal.max
<1>1. call.ordinal.min \in Nat /\ call.ordinal.max \in Nat
  BY Given, OrdinalAssumption DEF OrdinalCondition
<1>2. QED
  BY <1>1 DEF T!InScan, T!ScanStart, ScanStart

LEMMA EachKey_1001_1101Inv ==
  ASSUME IInv, EachKey_1001_1101
  PROVE  IInv'
<1>1. walk \in KeyWalks /\ walk = "1001_1101" /\ pc = "each_key"
  BY DEF EachKey_1001_1101, At, KeyWalks
<1>2. ASSUME NEW a \in at, a.key[1] = Head(left),
             UNCHANGED <<trees, call, arrays, at2, from, start>>,
             LET found == LR!GetBothRange(trees.lr, a.key, <<ScanStart(call.ordinal.min), 0>>)
             IN IF found # {} THEN at' = found /\ pc' = "each_data"
                ELSE at' = LR!NextNodup(trees.lr, a) /\ pc' = "each_key"
      PROVE  IInv'
  <2>1. /\ trees' = trees /\ call' = call /\ start' = start /\ left' = left /\ from' = from
        /\ walk' = walk
    BY <1>2 DEF arrays, walk
  <2>2. Running(LrWalks) /\ Passed = {} /\ Labels = {"set_range", "each_key", "each_data"}
        /\ Passed' = {}
    BY <1>1, <2>1, KeyWalk DEF Running, Passed
  <2>3. trees.lr \in SUBSET LrEntry /\ call \in Call /\ Head(left) \in Nat
    BY <1>1, <2>2, LrRunning
  <2>4. at = {a} /\ a \in trees.lr /\ a \in LrEntry
    BY <1>1, <1>2, <2>2, <2>3 DEF IInv, LrCursor, Running
  <2>5. call.ordinal # Null
    BY <1>1, <2>3, WalkOf DEF walk
  <2> DEFINE scan == ScanStart(call.ordinal.min)
             found == LR!GetBothRange(trees.lr, a.key, <<scan, 0>>)
  <2>6. scan \in Nat /\ \A e : MatchedLr(e) => scan <= e.data[1]
    BY <2>3, <2>5, ScanIs DEF MatchedLr
  <2>7. walk' \notin LabelWalks
    BY <1>1, <2>1, KeyWalk
  <2>8. Rest(left, call.left)' /\ from' \in Label \cup {0}
    BY <1>1, <2>1, <2>2, LrRunning DEF Rest
  <2>9. ASSUME NEW e \in trees.lr, AheadLr(e),
               OnOrAfter(e) => OnOrAfter(e)', pc' \in {"each_key", "each_data"}
        PROVE  AheadLr(e)'
    <3>1. AheadKeys(e)
      BY <1>1, <2>9, KeyWalk
    <3>2. AheadKeys(e)'
      BY <1>1, <2>1, <2>9, <3>1 DEF AheadKeys
    <3>3. QED
      BY <1>1, <2>1, <3>2 DEF AheadLr
  <2>10. CASE found # {}
    <3> HIDE DEF scan
    <3>1. PICK m \in trees.lr :
            /\ found = {m} /\ m.key = a.key /\ From(<<scan, 0>>, m)
            /\ \A e \in trees.lr : e.key = a.key /\ From(<<scan, 0>>, e) =>
                 e = m \/ RelationDataBefore(m.data, e.data)
      BY <2>3, <2>10, LrGetBothRange
    <3>2. at' = {m} /\ pc' = "each_data"
      BY <1>2, <2>10, <3>1 DEF scan
    <3>3. LrCursor'
      <4>1. scan <= m.data[1]
        BY <2>3, <2>6, <3>1, FromOrdinal
      <4>2. QED
        BY <1>2, <2>1, <2>7, <3>1, <3>2, <4>1 DEF LrCursor, scan
    <3>4. ASSUME NEW e \in trees.lr, MatchedLr(e), OnOrAfter(e)
          PROVE  OnOrAfter(e)'
      <4>1. From(<<scan, 0>>, e) /\ e \in LrEntry /\ m \in LrEntry
        BY <2>3, <2>6, <3>4, FromOrdinal
      <4>2. e = a \/ LR!Before(a, e)
        BY <2>4, <3>4 DEF OnOrAfter
      <4>3. e.key = a.key \/ RelationKeyBefore(a.key, e.key)
        BY <2>4, <4>1, <4>2, LrOrder
      <4>4. e = m \/ LR!Before(m, e)
        BY <3>1, <4>1, <4>3, LrOrder
      <4>5. QED
        BY <3>2, <4>4 DEF OnOrAfter
    <3>5. \A e \in trees.lr : MatchedLr(e) /\ AheadLr(e) => AheadLr(e)'
      BY <2>9, <3>2, <3>4
    <3>6. QED
      BY <2>1, <2>2, <2>7, <2>8, <3>2, <3>3, <3>5, LrStay
  <2>11. CASE found = {}
    <3> HIDE DEF scan
    <3>1. \A e \in trees.lr : e.key = a.key => ~From(<<scan, 0>>, e)
      BY <2>3, <2>11, LrGetBothRange
    <3>2. at' = LR!NextNodup(trees.lr, a) /\ pc' = "each_key"
      BY <1>2, <2>11 DEF scan
    <3>3. LrCursor'
      <4>1. ASSUME at' # {}
            PROVE  \E m \in trees.lr : /\ at' = {m} /\ Head(left) <= m.key[1]
                                       /\ \A d \in trees.lr : d.key = m.key => d = m \/ LR!Before(m, d)
        <5>1. PICK m \in trees.lr : /\ at' = {m} /\ RelationKeyBefore(a.key, m.key)
                                    /\ \A d \in trees.lr : d.key = m.key => d = m \/ LR!Before(m, d)
          BY <2>3, <2>4, <3>2, <4>1, LrNextNodup
        <5>2. Head(left) <= m.key[1]
          BY <1>2, <2>3, <2>4, <5>1, LrOrder
        <5>3. QED
          BY <5>1, <5>2
      <4>2. QED
        BY <2>1, <3>2, <4>1 DEF LrCursor
    <3>4. ASSUME NEW e \in trees.lr, MatchedLr(e), OnOrAfter(e)
          PROVE  OnOrAfter(e)'
      <4>1. From(<<scan, 0>>, e) /\ e \in LrEntry
        BY <2>3, <2>6, <3>4, FromOrdinal
      <4>2. e = a \/ LR!Before(a, e)
        BY <2>4, <3>4 DEF OnOrAfter
      <4>3. RelationKeyBefore(a.key, e.key)
        BY <2>4, <3>1, <4>1, <4>2, LrOrder
      <4>4. QED
        BY <2>3, <2>4, <3>2, <4>3, LrNextNodup DEF OnOrAfter
    <3>5. \A e \in trees.lr : MatchedLr(e) /\ AheadLr(e) => AheadLr(e)'
      BY <2>9, <3>2, <3>4
    <3>6. QED
      BY <2>1, <2>2, <2>7, <2>8, <3>2, <3>3, <3>5, LrStay
  <2>12. QED
    BY <2>10, <2>11
<1>3. CASE NextLeft
  BY <1>1, <1>3, NextLeftInv
<1>4. QED
  BY <1>2, <1>3 DEF EachKey_1001_1101, Goto
-----------------------------------------------------------------------------
(* 1000 and 1010 take out every entry the cursor comes to.                 *)

LEMMA LrAtData ==
  ASSUME IInv, Running(LrWalks), pc = "each_data", NEW a \in at
  PROVE  /\ at = {a} /\ a \in trees.lr /\ a \in LrEntry
         /\ a.key[1] = Head(left) /\ a.key[1] \in Ids(call.left)
         /\ Selects(Ids(call.label), a.key[2])
         /\ walk \in LabelWalks => a.key[2] = Head(label)
         /\ call.ordinal # Null => ScanStart(call.ordinal.min) <= a.data[1]
         /\ a.key = <<a.key[1], a.key[2]>> /\ LlOf(a) = Ll(a.key[2], a.key[1])
<1>1. /\ at = {a} /\ a \in trees.lr /\ a.key[1] = Head(left)
      /\ walk \in LabelWalks => a.key[2] = Head(label)
      /\ call.ordinal # Null => ScanStart(call.ordinal.min) <= a.data[1]
  BY DEF IInv, LrCursor
<1>2. /\ trees.lr \in SUBSET LrEntry /\ Head(left) \in Ids(call.left)
      /\ walk \in LabelWalks => Head(label) \in Ids(call.label)
  BY LrRunning
<1>3. walk \in KeyWalks => Ids(call.label) = Null
  BY LrRunning, WalkOf, Given DEF walk, KeyWalks
<1>4. walk \in KeyWalks \cup LabelWalks
  BY DEF Running, LrWalks
<1>5. a \in LrEntry
  BY <1>1, <1>2
<1>6. a.key = <<a.key[1], a.key[2]>>
  BY <1>5, LrTyped
<1>7. Selects(Ids(call.label), a.key[2])
  BY <1>1, <1>2, <1>3, <1>4 DEF Selects
<1>8. QED
  BY <1>1, <1>2, <1>5, <1>6, <1>7 DEF LlOf

(* ll after the entries of one key have changed.                           *)
LEMMA LabelsAfter ==
  ASSUME start.ll \in SUBSET LlEntry, NEW rest \in SUBSET trees.lr, NEW a \in LrEntry,
         \A d \in trees.lr \ rest : d.key = a.key
  PROVE  \A x \in start.ll : HasKey(rest, x.data, x.key) <=>
                               /\ HasKey(trees.lr, x.data, x.key)
                               /\ HasKey(rest, a.key[1], a.key[2]) \/ x # LlOf(a)
<1> DEFINE key == a.key
<1>1. ASSUME NEW x \in start.ll, HasKey(trees.lr, x.data, x.key), ~HasKey(rest, x.data, x.key)
      PROVE  x = Ll(key[2], key[1]) /\ ~HasKey(rest, key[1], key[2])
  <2>1. PICK d \in trees.lr : d.key = <<x.data, x.key>>
    BY <1>1 DEF HasKey
  <2>2. d.key = key
    BY <1>1, <2>1 DEF HasKey
  <2>3. key[1] = x.data /\ key[2] = x.key
    BY <2>1, <2>2
  <2>4. QED
    BY <1>1, <2>3, LlTyped
<1>2. ASSUME NEW x \in start.ll, HasKey(rest, x.data, x.key)
      PROVE  /\ HasKey(trees.lr, x.data, x.key)
             /\ HasKey(rest, key[1], key[2]) \/ x # Ll(key[2], key[1])
  <2>1. HasKey(trees.lr, x.data, x.key)
    BY <1>2 DEF HasKey
  <2>2. x = Ll(key[2], key[1]) => x.data = key[1] /\ x.key = key[2]
    BY DEF Ll
  <2>3. QED
    BY <1>2, <2>1, <2>2
<1>3. QED
  BY <1>1, <1>2 DEF LlOf

LEMMA DupDeleted ==
  ASSUME IInv, Running({"1000", "1010"}), pc = "each_data", NEW a \in at,
         call' = call, start' = start,
         LET t == WithoutLl(WithoutRl(trees, a), a.key)
             next == LR!NextDup(trees.lr, a)
         IN \/ next # {} /\ trees' = t /\ at' = next /\ pc' = "each_data"
            \/ /\ next = {} /\ trees' = [t EXCEPT !.lr = {d \in @ : d.key # a.key}]
               /\ pc' # "each_data"
  PROVE  /\ trees' \in Trees /\ {a} \in SUBSET Kept /\ (\A e \in {a} : MatchedLr(e))
         /\ Kept' = Kept \ {a} /\ trees'.lr \subseteq trees.lr
         /\ trees'.rl = trees.rl \ {RlOf(e) : e \in {a}}
         /\ trees'.ll = {x \in start.ll : HasKey(trees'.lr, x.data, x.key)} \ {LlOf(d) : d \in Passed'}
         /\ LR!NextDup(trees.lr, a) = {} => \A e \in trees.lr : e.key # a.key <=> e \in Kept \ {a}
         /\ LR!NextDup(trees.lr, a) # {} => trees'.lr = trees.lr
<1> DEFINE t == WithoutLl(WithoutRl(trees, a), a.key)
           next == LR!NextDup(trees.lr, a)
<1>1. Running(LrWalks) /\ walk \in {"1000", "1010"} /\ pc # "idle" /\ walk' = walk
  BY DEF Running, LrWalks, KeyWalks, LabelWalks, walk
<1>2. /\ call \in Call /\ start.ll \in SUBSET LlEntry /\ trees \in Trees /\ trees.lr \in SUBSET LrEntry
  BY <1>1, LrRunning
<1>3. /\ at = {a} /\ a \in trees.lr /\ a \in LrEntry /\ a.key = <<a.key[1], a.key[2]>>
      /\ LlOf(a) = Ll(a.key[2], a.key[1])
      /\ a.key[1] \in Ids(call.left) /\ Selects(Ids(call.label), a.key[2])
  BY <1>1, LrAtData
<1>4. MatchedLr(a)
  <2>1. Ids(call.right) = Null /\ call.ordinal = Null
    BY <1>1, <1>2, WalkOf, Given DEF walk, KeyWalks
  <2>2. QED
    BY <1>3, <2>1 DEF MatchedLr, Selects, T!InScan
<1>5. Passed = {d \in trees.lr : d.key = a.key /\ RelationDataBefore(d.data, a.data)}
  BY <1>1, <1>3 DEF Passed, Running
<1>6. a \in Kept
  BY <1>2, <1>3, <1>5, LrOrder DEF Kept
<1>7. /\ t \in Trees /\ t.lr = trees.lr /\ t.rl = trees.rl \ {RlOf(a)} /\ t.ll = trees.ll \ {LlOf(a)}
  BY <1>2, <1>3, Without
<1> HIDE DEF t
<1>8. trees.ll = {x \in start.ll : HasKey(trees.lr, x.data, x.key)} \ {LlOf(d) : d \in Passed}
  BY <1>1 DEF IInv, LrContents
<1>9. CASE next # {}
  <2>1. trees' = t /\ at' = next /\ pc' = "each_data"
    BY <1>9 DEF t
  <2>2. PICK m \in trees.lr :
          /\ next = {m} /\ m.key = a.key /\ RelationDataBefore(a.data, m.data)
          /\ \A e \in trees.lr : e.key = a.key =>
               \/ e = a \/ RelationDataBefore(e.data, a.data)
               \/ e = m \/ RelationDataBefore(m.data, e.data)
    BY <1>2, <1>3, <1>9, LrNextDup
  <2>3. Passed' = Passed \cup {a}
    <3>1. Passed' = {d \in trees.lr : d.key = a.key /\ RelationDataBefore(d.data, m.data)}
      BY <1>1, <1>7, <2>1, <2>2 DEF Passed, Running
    <3>2. ASSUME NEW d \in trees.lr, d.key = a.key
          PROVE  RelationDataBefore(d.data, m.data) <=> d = a \/ RelationDataBefore(d.data, a.data)
      <4>1. d \in LrEntry /\ m \in LrEntry
        BY <1>2
      <4>2. QED
        BY <1>3, <2>2, <3>2, <4>1, LrOrder
    <3>3. QED
      BY <1>3, <1>5, <3>1, <3>2
  <2>4. Kept' = Kept \ {a}
    BY <1>7, <2>1, <2>3 DEF Kept
  <2>5. trees'.ll = {x \in start.ll : HasKey(trees'.lr, x.data, x.key)} \ {LlOf(d) : d \in Passed'}
    BY <1>7, <1>8, <2>1, <2>3
  <2>6. QED
    BY <1>4, <1>6, <1>7, <1>9, <2>1, <2>4, <2>5
<1>10. CASE next = {}
  <2>1. trees' = [t EXCEPT !.lr = {d \in trees.lr : d.key # a.key}] /\ pc' # "each_data"
    BY <1>7, <1>10 DEF t
  <2>2. /\ trees' \in Trees /\ trees'.lr = {d \in trees.lr : d.key # a.key}
        /\ trees'.rl = t.rl /\ trees'.ll = t.ll
    BY <1>7, <2>1 DEF Trees
  <2>3. Passed' = {}
    BY <2>1 DEF Passed
  <2>4. \A e \in trees.lr : e.key = a.key => e = a \/ RelationDataBefore(e.data, a.data)
    BY <1>2, <1>3, <1>10, LrNextDup
  <2>5. \A e \in trees.lr : e.key # a.key <=> e \in Kept \ {a}
    BY <1>5, <2>4 DEF Kept
  <2>6. Kept' = Kept \ {a}
    BY <2>2, <2>3, <2>5 DEF Kept
  <2>7. trees'.ll = {x \in start.ll : HasKey(trees'.lr, x.data, x.key)}
    <3>1. ~HasKey(trees'.lr, a.key[1], a.key[2])
      BY <1>3, <2>2 DEF HasKey
    <3>2. \A d \in trees.lr \ trees'.lr : d.key = a.key
      BY <2>2
    <3>3. {x \in start.ll : HasKey(trees'.lr, x.data, x.key)}
          = {x \in start.ll : HasKey(trees.lr, x.data, x.key)} \ {LlOf(a)}
      <4>1. trees'.lr \in SUBSET trees.lr
        BY <2>2
      <4>2. \A x \in start.ll : HasKey(trees'.lr, x.data, x.key) <=>
              /\ HasKey(trees.lr, x.data, x.key)
              /\ HasKey(trees'.lr, a.key[1], a.key[2]) \/ x # LlOf(a)
        BY <1>2, <1>3, <3>2, <4>1, LabelsAfter
      <4>3. QED
        BY <3>1, <4>2
    <3>4. \A d \in Passed : LlOf(d) = LlOf(a)
      BY <1>5 DEF LlOf
    <3>5. QED
      BY <1>7, <1>8, <2>2, <3>3, <3>4
  <2>8. QED
    BY <1>4, <1>6, <1>7, <1>10, <2>2, <2>3, <2>5, <2>6, <2>7
<1>11. QED
  BY <1>9, <1>10

LEMMA EachData_1000Inv ==
  ASSUME IInv, EachData_1000
  PROVE  IInv'
<1>1. walk = "1000" /\ walk \in KeyWalks /\ pc = "each_data"
      /\ Running({"1000", "1010"}) /\ Running(LrWalks)
  BY DEF EachData_1000, At, KeyWalks, LrWalks, Running
<1>2. /\ call' = call /\ start' = start /\ left' = left /\ from' = from /\ walk' = walk
  BY DEF EachData_1000, arrays, walk
<1>3. PICK a \in at :
        LET t == WithoutLl(WithoutRl(trees, a), a.key)
            next == LR!NextDup(trees.lr, a)
        IN \/ next # {} /\ trees' = t /\ at' = next /\ pc' = "each_data"
           \/ /\ next = {} /\ trees' = [t EXCEPT !.lr = {d \in @ : d.key # a.key}]
              /\ at' = LR!NextNodup(trees.lr, a) /\ pc' = "each_key"
  BY DEF EachData_1000, Goto
<1> DEFINE next == LR!NextDup(trees.lr, a)
<1>4. /\ trees' \in Trees /\ {a} \in SUBSET Kept /\ (\A e \in {a} : MatchedLr(e))
      /\ Kept' = Kept \ {a} /\ trees'.lr \subseteq trees.lr
      /\ trees'.rl = trees.rl \ {RlOf(e) : e \in {a}}
      /\ trees'.ll = {x \in start.ll : HasKey(trees'.lr, x.data, x.key)} \ {LlOf(d) : d \in Passed'}
      /\ next = {} => \A e \in trees.lr : e.key # a.key <=> e \in Kept \ {a}
      /\ next # {} => trees'.lr = trees.lr
  <2>1. LET t == WithoutLl(WithoutRl(trees, a), a.key)
        IN \/ next # {} /\ trees' = t /\ at' = next /\ pc' = "each_data"
           \/ /\ next = {} /\ trees' = [t EXCEPT !.lr = {d \in @ : d.key # a.key}]
              /\ pc' # "each_data"
    BY <1>3
  <2>2. QED
    BY <1>1, <1>2, <2>1, DupDeleted
<1>5. /\ at = {a} /\ a \in trees.lr /\ a \in LrEntry /\ a.key[1] = Head(left)
  BY <1>1, LrAtData
<1>6. trees.lr \in SUBSET LrEntry /\ call \in Call /\ from \in Label \cup {0}
      /\ left \in Seq(Ids(call.left)) \ {<<>>} /\ Head(left) \in Nat
  BY <1>1, LrRunning
<1>7. call.ordinal = Null
  BY <1>1, <1>6, WalkOf DEF walk, KeyWalks
<1>8. Kept \subseteq trees.lr
  BY DEF Kept
<1>9. ASSUME NEW e \in Kept \ {a}, AheadLr(e),
             LR!Before(a, e) => OnOrAfter(e)', pc' \in {"each_key", "each_data"}
      PROVE  AheadLr(e)'
  <2>1. AheadKeys(e)
    BY <1>1, <1>9, KeyWalk
  <2>2. OnOrAfter(e) => OnOrAfter(e)'
    BY <1>5, <1>9 DEF OnOrAfter
  <2>3. AheadKeys(e)'
    BY <1>1, <1>2, <1>9, <2>1, <2>2 DEF AheadKeys
  <2>4. QED
    BY <1>1, <1>2, <2>3 DEF AheadLr
<1>10. walk \notin LabelWalks /\ walk' \notin LabelWalks /\ Labels = {"set_range", "each_key", "each_data"}
  BY <1>1, <1>2, KeyWalk
<1>11. Rest(left, call.left)'
  BY <1>2, <1>6 DEF Rest
<1>12. CASE next # {}
  <2>1. at' = next /\ pc' = "each_data" /\ trees'.lr = trees.lr
    BY <1>3, <1>4, <1>12
  <2>2. PICK m \in trees.lr :
          /\ next = {m} /\ m.key = a.key /\ RelationDataBefore(a.data, m.data)
          /\ \A e \in trees.lr : e.key = a.key =>
               \/ e = a \/ RelationDataBefore(e.data, a.data)
               \/ e = m \/ RelationDataBefore(m.data, e.data)
    BY <1>5, <1>6, <1>12, LrNextDup
  <2>3. LrCursor'
    BY <1>2, <1>5, <1>7, <1>10, <2>1, <2>2 DEF LrCursor
  <2>4. ASSUME NEW e \in Kept, LR!Before(a, e)
        PROVE  OnOrAfter(e)'
    <3>1. e \in LrEntry /\ e \in trees.lr /\ m \in LrEntry
      BY <1>6, <1>8
    <3>2. e = m \/ LR!Before(m, e)
      BY <1>5, <2>2, <2>4, <3>1, LrOrder
    <3>3. QED
      BY <2>1, <2>2, <3>2 DEF OnOrAfter
  <2>5. \A e \in Kept \ {a} : MatchedLr(e) /\ AheadLr(e) => AheadLr(e)'
    BY <1>9, <2>1, <2>4
  <2>6. QED
    BY <1>1, <1>2, <1>4, <1>6, <1>10, <1>11, <2>1, <2>3, <2>5, LrStep
<1>13. CASE next = {}
  <2>1. at' = LR!NextNodup(trees.lr, a) /\ pc' = "each_key"
    BY <1>3, <1>13
  <2>2. \A e \in trees.lr : e.key # a.key <=> e \in trees'.lr
    <3>1. Passed' = {}
      BY <2>1 DEF Passed
    <3>2. Kept' = trees'.lr
      BY <3>1 DEF Kept
    <3>3. QED
      BY <1>4, <1>13, <3>2
  <2>3. LrCursor'
    <3>1. ASSUME at' # {}
          PROVE  \E m \in trees'.lr : /\ at' = {m} /\ Head(left) <= m.key[1]
                                      /\ \A d \in trees'.lr : d.key = m.key => d = m \/ LR!Before(m, d)
      <4>1. PICK m \in trees.lr : /\ at' = {m} /\ RelationKeyBefore(a.key, m.key)
                                  /\ \A d \in trees.lr : d.key = m.key => d = m \/ LR!Before(m, d)
        BY <1>5, <1>6, <2>1, <3>1, LrNextNodup
      <4>2. Head(left) <= m.key[1] /\ m.key # a.key
        BY <1>5, <1>6, <4>1, LrOrder
      <4>3. m \in trees'.lr
        BY <2>2, <4>2
      <4>4. QED
        BY <1>4, <4>1, <4>2, <4>3
    <3>2. QED
      BY <1>2, <2>1, <3>1 DEF LrCursor
  <2>4. ASSUME NEW e \in Kept \ {a}, LR!Before(a, e)
        PROVE  OnOrAfter(e)'
    <3>1. e \in LrEntry /\ e \in trees.lr /\ e.key # a.key
      BY <1>4, <1>6, <1>8, <1>13
    <3>2. RelationKeyBefore(a.key, e.key)
      BY <1>5, <2>4, <3>1, LrOrder
    <3>3. QED
      BY <1>5, <1>6, <2>1, <3>1, <3>2, LrNextNodup DEF OnOrAfter
  <2>5. \A e \in Kept \ {a} : MatchedLr(e) /\ AheadLr(e) => AheadLr(e)'
    BY <1>9, <2>1, <2>4
  <2>6. QED
    BY <1>1, <1>2, <1>4, <1>6, <1>10, <1>11, <2>1, <2>3, <2>5, LrStep
<1>14. QED
  BY <1>12, <1>13
-----------------------------------------------------------------------------
(* The walks with a right or an ordinal condition take out the entry the   *)
(* cursor is on if it matches, and ask whether lr still has the key.       *)

Hit(a) == ~Above(a) /\ RightIsIn(a)
Taken(a) == IF Hit(a) THEN {a} ELSE {}
WithoutHit(a) == IF Hit(a) THEN WithoutLr(WithoutRl(trees, a), a) ELSE trees

LEMMA HitIs ==
  ASSUME IInv, Running(LrWalks), pc = "each_data", NEW a \in at
  PROVE  /\ Hit(a) <=> MatchedLr(a)
         /\ \A e \in trees.lr : Above(a) /\ a.data[1] <= e.data[1] => ~MatchedLr(e)
<1>1. /\ a.key[1] \in Ids(call.left) /\ Selects(Ids(call.label), a.key[2]) /\ a \in LrEntry
      /\ call.ordinal # Null => ScanStart(call.ordinal.min) <= a.data[1]
  BY LrAtData
<1>2. call \in Call /\ trees.lr \in SUBSET LrEntry
  BY LrRunning
<1>3. CASE call.ordinal = Null
  BY <1>1, <1>3 DEF Hit, RightIsIn, Above, MatchedLr, T!InScan
<1>4. CASE call.ordinal # Null
  <2>1. /\ call.ordinal.max \in Nat
        /\ \A e : T!InScan(call.ordinal, e.data[1]) <=>
                    /\ ScanStart(call.ordinal.min) <= e.data[1]
                    /\ call.ordinal.max = 0 \/ e.data[1] <= call.ordinal.max
    BY <1>2, <1>4, ScanIs
  <2>2. a.data[1] \in Nat /\ \A e \in trees.lr : e.data[1] \in Nat
    BY <1>1, <1>2, LrTyped
  <2>3. Above(a) <=> ~T!InScan(call.ordinal, a.data[1])
    BY <1>1, <1>4, <2>1, <2>2 DEF Above
  <2>4. \A e \in trees.lr : Above(a) /\ a.data[1] <= e.data[1] => ~T!InScan(call.ordinal, e.data[1])
    BY <1>4, <2>1, <2>2 DEF Above
  <2>5. QED
    BY <1>1, <2>3, <2>4 DEF Hit, RightIsIn, MatchedLr
<1>5. QED
  BY <1>3, <1>4

LEMMA HitDeleted ==
  ASSUME IInv, Running(LrWalks \ {"1000", "1010"}), pc = "each_data", NEW a \in at
  PROVE  LET t == WithoutHit(a)
             u == WithoutLlIfLast(t, a.key)
             labels(lr) == {x \in start.ll : HasKey(lr, x.data, x.key)}
         IN /\ t \in Trees /\ t.lr = trees.lr \ Taken(a)
            /\ t.rl = trees.rl \ {RlOf(e) : e \in Taken(a)}
            /\ (\E e \in t.lr : e.key = a.key) => t.ll = labels(t.lr)
            /\ u \in Trees /\ u.lr = t.lr /\ u.rl = t.rl /\ u.ll = labels(t.lr)
            /\ Kept = trees.lr /\ trees.lr \in SUBSET LrEntry
            /\ Taken(a) \in SUBSET Kept /\ (\A e \in Taken(a) : MatchedLr(e))
            /\ \A e \in Kept \ Taken(a) : MatchedLr(e) => e # a
<1> DEFINE t == WithoutHit(a)
           u == WithoutLlIfLast(t, a.key)
           labels(lr) == {x \in start.ll : HasKey(lr, x.data, x.key)}
<1>1. Running(LrWalks) /\ walk \notin {"1000", "1010"}
  BY DEF Running
<1>2. Passed = {} /\ Kept = trees.lr
  BY <1>1 DEF Passed, Kept, Running
<1>3. trees \in Trees /\ trees.lr \in SUBSET LrEntry /\ start.ll \in SUBSET LlEntry
  BY <1>1, LrRunning
<1>4. a \in trees.lr /\ a \in LrEntry /\ a.key = <<a.key[1], a.key[2]>>
      /\ LlOf(a) = Ll(a.key[2], a.key[1])
  BY <1>1, LrAtData
<1>5. trees.ll = labels(trees.lr)
  BY <1>1, <1>2 DEF IInv, LrContents
<1>6. t \in Trees /\ t.lr = trees.lr \ Taken(a) /\ t.ll = trees.ll
      /\ t.rl = trees.rl \ {RlOf(e) : e \in Taken(a)}
  <2>1. CASE Hit(a)
    <3> DEFINE v == WithoutRl(trees, a)
    <3>1. v \in Trees /\ v.lr = trees.lr /\ v.rl = trees.rl \ {RlOf(a)} /\ v.ll = trees.ll
      BY <1>3, Without
    <3> HIDE DEF v
    <3>2. /\ WithoutLr(v, a) \in Trees /\ WithoutLr(v, a).lr = v.lr \ {a}
          /\ WithoutLr(v, a).rl = v.rl /\ WithoutLr(v, a).ll = v.ll
      BY <3>1, Without
    <3>3. t = WithoutLr(v, a) /\ Taken(a) = {a}
      BY <2>1 DEF WithoutHit, Taken, v
    <3>4. QED
      BY <3>1, <3>2, <3>3
  <2>2. CASE ~Hit(a)
    BY <1>3, <2>2 DEF WithoutHit, Taken
  <2>3. QED
    BY <2>1, <2>2
<1>7. (\A e \in Taken(a) : MatchedLr(e)) /\ (\A e \in Kept \ Taken(a) : MatchedLr(e) => e # a)
  BY <1>1, HitIs DEF Taken
<1>8. Taken(a) \in SUBSET Kept
  BY <1>2, <1>4 DEF Taken
<1> HIDE DEF t
<1>9. \A x \in start.ll : HasKey(t.lr, x.data, x.key) <=>
        /\ HasKey(trees.lr, x.data, x.key)
        /\ HasKey(t.lr, a.key[1], a.key[2]) \/ x # LlOf(a)
  <2>1. t.lr \in SUBSET trees.lr /\ \A d \in trees.lr \ t.lr : d.key = a.key
    BY <1>6 DEF Taken
  <2>2. QED
    BY <1>3, <1>4, <2>1, LabelsAfter
<1>10. /\ HasKey(t.lr, a.key[1], a.key[2]) => labels(t.lr) = labels(trees.lr)
       /\ ~HasKey(t.lr, a.key[1], a.key[2]) => labels(t.lr) = labels(trees.lr) \ {LlOf(a)}
  BY <1>9
<1> HIDE DEF labels
<1>11. (\E e \in t.lr : e.key = a.key) => t.ll = labels(t.lr)
  <2>1. (\E e \in t.lr : e.key = a.key) => HasKey(t.lr, a.key[1], a.key[2])
    BY <1>4 DEF HasKey
  <2>2. QED
    BY <1>5, <1>6, <1>10, <2>1
<1>12. u \in Trees /\ u.lr = t.lr /\ u.rl = t.rl /\ u.ll = labels(t.lr)
  <2>1. CASE HasKey(t.lr, a.key[1], a.key[2])
    BY <1>5, <1>6, <1>10, <2>1 DEF WithoutLlIfLast
  <2>2. CASE ~HasKey(t.lr, a.key[1], a.key[2])
    <3>1. u = WithoutLl(t, a.key)
      BY <2>2 DEF WithoutLlIfLast
    <3>2. u \in Trees /\ u.lr = t.lr /\ u.rl = t.rl /\ u.ll = t.ll \ {LlOf(a)}
      BY <1>4, <1>6, <3>1, Without
    <3>3. QED
      BY <1>5, <1>6, <1>10, <2>2, <3>2
  <2>3. QED
    BY <2>1, <2>2
<1>13. QED
  BY <1>2, <1>3, <1>6, <1>7, <1>8, <1>11, <1>12 DEF t, labels

LEMMA EachData_1100_1001_1101Inv ==
  ASSUME IInv, EachData_1100_1001_1101
  PROVE  IInv'
<1>1. /\ walk \in {"1100", "1001_1101"} /\ walk \in KeyWalks /\ pc = "each_data"
      /\ Running(LrWalks \ {"1000", "1010"}) /\ Running(LrWalks)
  BY DEF EachData_1100_1001_1101, At, KeyWalks, LrWalks, Running
<1>2. /\ call' = call /\ start' = start /\ left' = left /\ walk' = walk
  BY DEF EachData_1100_1001_1101, arrays, walk
<1>3. PICK a \in at :
        LET t == IF RightIsIn(a) THEN WithoutLr(WithoutRl(trees, a), a) ELSE trees
            next == LR!NextDup(trees.lr, a)
        IN \/ /\ ~Above(a) /\ next # {}
              /\ trees' = t /\ at' = next
              /\ pc' = "each_data" /\ from' = from
           \/ /\ ~Above(a) /\ next = {}
              /\ trees' = WithoutLlIfLast(t, a.key)
              /\ from' = a.key[2] /\ KeyAgain(t, a)
           \/ /\ Above(a)
              /\ from' = a.key[2] /\ KeyAgain(trees, a)
              /\ trees' = trees
  BY DEF EachData_1100_1001_1101, Goto, LabelOf
<1> DEFINE next == LR!NextDup(trees.lr, a)
           t == WithoutHit(a)
           u == WithoutLlIfLast(t, a.key)
           labels(lr) == {x \in start.ll : HasKey(lr, x.data, x.key)}
<1>4. /\ t \in Trees /\ t.lr = trees.lr \ Taken(a)
      /\ t.rl = trees.rl \ {RlOf(e) : e \in Taken(a)}
      /\ (\E e \in t.lr : e.key = a.key) => t.ll = labels(t.lr)
      /\ u \in Trees /\ u.lr = t.lr /\ u.rl = t.rl /\ u.ll = labels(t.lr)
      /\ Kept = trees.lr /\ trees.lr \in SUBSET LrEntry
      /\ Taken(a) \in SUBSET Kept /\ (\A e \in Taken(a) : MatchedLr(e))
      /\ \A e \in Kept \ Taken(a) : MatchedLr(e) => e # a
  BY <1>1, HitDeleted
<1>5. /\ at = {a} /\ a \in trees.lr /\ a \in LrEntry /\ a.key[1] = Head(left)
      /\ call.ordinal # Null => ScanStart(call.ordinal.min) <= a.data[1]
  BY <1>1, LrAtData
<1>6. /\ call \in Call /\ from \in Label \cup {0} /\ Head(left) \in Nat
      /\ left \in Seq(Ids(call.left)) \ {<<>>}
  BY <1>1, LrRunning
<1>7. Passed = {} /\ Passed' = {}
  BY <1>1, <1>2 DEF Passed, Running
<1>8. walk \notin LabelWalks /\ walk' \notin LabelWalks /\ Labels = {"set_range", "each_key", "each_data"}
  BY <1>1, <1>2, KeyWalk
<1>9. Rest(left, call.left)' /\ a.key[2] \in Label /\ a.key[2] \in Nat
  BY <1>2, <1>5, <1>6, LrTyped DEF Rest
<1>10. CASE ~Above(a) /\ next # {}
  <2>1. trees' = t /\ at' = next /\ pc' = "each_data" /\ from' = from
    BY <1>3, <1>10 DEF WithoutHit, Hit
  <2>2. PICK m \in trees.lr :
          /\ next = {m} /\ m.key = a.key /\ RelationDataBefore(a.data, m.data)
          /\ \A e \in trees.lr : e.key = a.key =>
               \/ e = a \/ RelationDataBefore(e.data, a.data)
               \/ e = m \/ RelationDataBefore(m.data, e.data)
    BY <1>4, <1>5, <1>10, LrNextDup
  <2>3. m \in LrEntry /\ m # a
    BY <1>4, <1>5, <2>2, LrOrder
  <2>4. m \in t.lr
    BY <1>4, <2>2, <2>3 DEF Taken
  <2> HIDE DEF t, u, labels
  <2>5. LrCursor'
    <3>1. call.ordinal # Null => ScanStart(call.ordinal.min) <= m.data[1]
      <4>1. a.data[1] <= m.data[1] /\ a.data[1] \in Nat /\ m.data[1] \in Nat
        BY <1>5, <2>2, <2>3, LrOrder, LrTyped
      <4>2. call.ordinal # Null => ScanStart(call.ordinal.min) \in Nat
        BY <1>6, ScanIs
      <4>3. QED
        BY <1>5, <4>1, <4>2
    <3>2. QED
      BY <1>2, <1>5, <1>8, <2>1, <2>2, <2>4, <3>1 DEF LrCursor
  <2>6. trees'.ll = labels(t.lr)
    BY <1>4, <2>1, <2>2, <2>4
  <2>7. ASSUME NEW e \in Kept \ Taken(a), MatchedLr(e), AheadLr(e)
        PROVE  AheadLr(e)'
    <3>1. AheadKeys(e) /\ e # a /\ e \in trees.lr /\ e \in LrEntry
      BY <1>1, <1>4, <2>7, KeyWalk
    <3>2. OnOrAfter(e) => OnOrAfter(e)'
      <4>1. ASSUME LR!Before(a, e)
            PROVE  e = m \/ LR!Before(m, e)
        BY <1>5, <2>2, <2>3, <3>1, <4>1, LrOrder
      <4>2. QED
        BY <1>5, <2>1, <2>2, <3>1, <4>1 DEF OnOrAfter
    <3>3. AheadKeys(e)'
      BY <1>1, <1>2, <2>1, <3>1, <3>2 DEF AheadKeys
    <3>4. QED
      BY <1>1, <1>2, <3>3 DEF AheadLr
  <2>8. Kept' = Kept \ Taken(a)
    BY <1>4, <1>7, <2>1 DEF Kept
  <2>9. pc' \in Labels \cup {"exit"} /\ from' \in Label \cup {0} /\ trees' \in Trees
        /\ trees'.lr \subseteq trees.lr /\ trees'.rl = trees.rl \ {RlOf(e) : e \in Taken(a)}
    BY <1>4, <1>6, <1>8, <2>1
  <2>10. trees'.ll = {x \in start.ll : HasKey(trees'.lr, x.data, x.key)} \ {LlOf(d) : d \in Passed'}
    BY <1>7, <2>1, <2>6 DEF labels
  <2>11. QED
    BY <1>1, <1>2, <1>4, <1>8, <1>9, <2>5, <2>7, <2>8, <2>9, <2>10, LrStep
<1>11. CASE Above(a) \/ next = {}
  <2>1. /\ trees'.lr = t.lr /\ trees'.rl = t.rl /\ trees'.ll = labels(t.lr) /\ trees' \in Trees
        /\ from' = a.key[2]
        /\ \/ at' = LR!NextNodup(trees'.lr, a) /\ pc' = "each_key"
           \/ pc' = "set_range"
    <3>1. CASE Above(a)
      <4>1. Taken(a) = {} /\ t = trees
        BY <3>1 DEF Taken, Hit, WithoutHit
      <4>2. trees' = trees /\ from' = a.key[2] /\ KeyAgain(trees, a)
        BY <1>3, <3>1
      <4>3. t.ll = labels(t.lr)
        BY <1>4, <1>5, <4>1
      <4>4. QED
        BY <1>4, <4>1, <4>2, <4>3 DEF KeyAgain, Goto
    <3>2. CASE ~Above(a) /\ next = {}
      <4>1. trees' = u /\ from' = a.key[2] /\ KeyAgain(t, a)
        BY <1>3, <3>2 DEF WithoutHit, Hit
      <4> HIDE DEF t, u
      <4>2. QED
        BY <1>4, <4>1 DEF KeyAgain, Goto
    <3>3. QED
      BY <1>11, <3>1, <3>2
  <2> HIDE DEF t, u
  <2>2. trees'.lr \in SUBSET LrEntry
    BY <1>4, <2>1
  <2>3. LrCursor'
    <3>1. ASSUME pc' = "each_key", at' # {}
          PROVE  \E m \in trees'.lr : /\ at' = {m} /\ Head(left) <= m.key[1]
                                      /\ \A d \in trees'.lr : d.key = m.key => d = m \/ LR!Before(m, d)
      <4>1. PICK m \in trees'.lr : /\ at' = {m} /\ RelationKeyBefore(a.key, m.key)
                                   /\ \A d \in trees'.lr : d.key = m.key => d = m \/ LR!Before(m, d)
        BY <1>5, <2>1, <2>2, <3>1, LrNextNodup
      <4>2. Head(left) <= m.key[1]
        BY <1>5, <2>2, <4>1, LrOrder
      <4>3. QED
        BY <4>1, <4>2
    <3>2. QED
      BY <1>2, <2>1, <3>1 DEF LrCursor
  <2>4. ASSUME NEW e \in Kept \ Taken(a), MatchedLr(e), AheadLr(e)
        PROVE  AheadLr(e)'
    <3>1. AheadKeys(e) /\ e # a /\ e \in trees.lr /\ e \in LrEntry /\ e \in trees'.lr
      BY <1>1, <1>4, <2>1, <2>4, KeyWalk
    <3>2. ASSUME OnOrAfter(e), e.key[1] = Head(left)
          PROVE  RelationKeyBefore(a.key, e.key) /\ a.key[2] <= e.key[2]
      <4>1. LR!Before(a, e)
        BY <1>5, <3>1, <3>2 DEF OnOrAfter
      <4>2. ~(e.key = a.key /\ RelationDataBefore(a.data, e.data))
        <5>1. CASE next = {}
          <6>1. e.key = a.key => RelationDataBefore(e.data, a.data)
            BY <1>4, <1>5, <3>1, <5>1, LrNextDup
          <6>2. QED
            BY <1>5, <3>1, <6>1, LrOrder
        <5>2. CASE Above(a)
          BY <1>1, <1>5, <2>4, <3>1, <5>2, HitIs, LrOrder
        <5>3. QED
          BY <1>11, <5>1, <5>2
      <4>3. RelationKeyBefore(a.key, e.key)
        BY <1>5, <3>1, <4>1, <4>2, LrOrder
      <4>4. a.key[2] < e.key[2] /\ a.key[2] \in Nat /\ e.key[2] \in Nat
        BY <1>5, <3>1, <3>2, <4>3, LrOrder, LrTyped
      <4>5. QED
        BY <4>3, <4>4
    <3>3. CASE pc' = "set_range"
      <4>1. AheadKeys(e)'
        BY <1>1, <1>2, <2>1, <3>1, <3>2, <3>3 DEF AheadKeys
      <4>2. QED
        BY <1>1, <1>2, <4>1 DEF AheadLr
    <3>4. CASE at' = LR!NextNodup(trees'.lr, a) /\ pc' = "each_key"
      <4>1. OnOrAfter(e) /\ e.key[1] = Head(left) => OnOrAfter(e)'
        BY <1>5, <2>2, <3>1, <3>2, <3>4, LrNextNodup DEF OnOrAfter
      <4>2. AheadKeys(e)'
        BY <1>1, <1>2, <3>1, <3>4, <4>1 DEF AheadKeys
      <4>3. QED
        BY <1>1, <1>2, <4>2 DEF AheadLr
    <3>5. QED
      BY <2>1, <3>3, <3>4
  <2>5. Kept' = Kept \ Taken(a)
    BY <1>4, <1>7, <2>1 DEF Kept
  <2>6. pc' \in Labels \cup {"exit"} /\ from' \in Label \cup {0}
        /\ trees'.lr \subseteq trees.lr /\ trees'.rl = trees.rl \ {RlOf(e) : e \in Taken(a)}
    BY <1>4, <1>8, <1>9, <2>1
  <2>7. trees'.ll = {x \in start.ll : HasKey(trees'.lr, x.data, x.key)} \ {LlOf(d) : d \in Passed'}
    BY <1>7, <2>1 DEF labels
  <2>8. QED
    BY <1>1, <1>2, <1>4, <1>8, <1>9, <2>1, <2>3, <2>4, <2>5, <2>6, <2>7, LrStep
<1>12. QED
  BY <1>10, <1>11
-----------------------------------------------------------------------------
(* 1010, 1110 and 1011_1111 go from one left and label to the next.        *)

LEMMA Advanced ==
  ASSUME NEW I, NEW O, NEW inner \in Seq(I) \ {<<>>}, NEW rewound \in Seq(I) \ {<<>>},
         NEW outer \in Seq(O) \ {<<>>}, Range(rewound) = I
  PROVE  LET next == AfterForward(inner, rewound, outer)
         IN /\ next[1] \in Seq(I) \ {<<>>} /\ next[2] \in Seq(O)
            /\ \A o : \A i \in I :
                 o \in Range(Tail(outer)) \/ (o = Head(outer) /\ i \in Range(Tail(inner)))
                   => /\ next[2] # <<>>
                      /\ \/ o \in Range(Tail(next[2]))
                         \/ /\ o = Head(next[2])
                            /\ i = Head(next[1]) \/ i \in Range(Tail(next[1]))
<1>1. Tail(inner) \in Seq(I) /\ Tail(outer) \in Seq(O) /\ Range(<<>>) = {}
  BY Current DEF Range
<1>2. CASE Tail(inner) # <<>>
  <2>1. AfterForward(inner, rewound, outer) = <<Tail(inner), outer>>
    BY <1>2 DEF AfterForward
  <2>2. Range(Tail(inner)) = {Head(Tail(inner))} \cup Range(Tail(Tail(inner)))
    BY <1>1, <1>2, Current
  <2>3. QED
    BY <1>1, <1>2, <2>1, <2>2
<1>3. CASE Tail(inner) = <<>>
  <2>1. AfterForward(inner, rewound, outer) = <<rewound, Tail(outer)>>
    BY <1>3 DEF AfterForward
  <2>2. I = {Head(rewound)} \cup Range(Tail(rewound))
    BY Current
  <2>3. Tail(outer) # <<>> => Range(Tail(outer)) = {Head(Tail(outer))} \cup Range(Tail(Tail(outer)))
    BY <1>1, Current
  <2> DEFINE next == AfterForward(inner, rewound, outer)
  <2>4. next[1] = rewound /\ next[2] = Tail(outer)
    BY <2>1
  <2> HIDE DEF next
  <2>5. ASSUME NEW o, NEW i \in I,
               o \in Range(Tail(outer)) \/ (o = Head(outer) /\ i \in Range(Tail(inner)))
        PROVE  /\ next[2] # <<>>
               /\ \/ o \in Range(Tail(next[2]))
                  \/ /\ o = Head(next[2])
                     /\ i = Head(next[1]) \/ i \in Range(Tail(next[1]))
    <3>1. o \in Range(Tail(outer)) /\ Tail(outer) # <<>>
      BY <1>1, <1>3, <2>5
    <3>2. o = Head(next[2]) \/ o \in Range(Tail(next[2]))
      BY <2>3, <2>4, <3>1
    <3>3. i = Head(next[1]) \/ i \in Range(Tail(next[1]))
      BY <2>2, <2>4
    <3>4. QED
      BY <2>4, <3>1, <3>2, <3>3
  <2>6. next[1] \in Seq(I) \ {<<>>} /\ next[2] \in Seq(O)
    BY <1>1, <2>4
  <2>7. QED
    BY <2>5, <2>6 DEF next
<1>4. QED
  BY <1>2, <1>3

LEMMA LabelWalk ==
  ASSUME IInv, Running(LabelWalks), pc # "exit"
  PROVE  /\ Running(LrWalks) /\ walk \in LrWalks /\ walk \notin KeyWalks
         /\ Labels = {"set_key", "each_data"}
         /\ left \in Seq(Ids(call.left)) \ {<<>>} /\ label \in Seq(Ids(call.label)) \ {<<>>}
         /\ call.left \in Seq(Ids(call.left)) \ {<<>>} /\ Range(call.left) = Ids(call.left)
         /\ call.label \in Seq(Ids(call.label)) \ {<<>>} /\ Range(call.label) = Ids(call.label)
         /\ \A e : MatchedLr(e) => e.key[1] \in Ids(call.left) /\ e.key[2] \in Ids(call.label)
         /\ \A e : AheadLr(e) <=>
              \/ walk # "1011_1111" /\ Ahead(left, label, e.key[1], e.key[2], OnOrAfter(e))
              \/ walk = "1011_1111" /\ Ahead(label, left, e.key[2], e.key[1], OnOrAfter(e))
<1>1. Running(LrWalks) /\ walk \in LabelWalks
  BY DEF Running, LrWalks
<1>2. walk \in LrWalks /\ walk \notin KeyWalks /\ Labels = {"set_key", "each_data"}
  BY <1>1 DEF LrWalks, LabelWalks, KeyWalks, Labels
<1>3. call \in Call /\ left \in Seq(Ids(call.left)) \ {<<>>} /\ label \in Seq(Ids(call.label)) \ {<<>>}
      /\ Ids(call.label) # Null
  BY <1>1, LrRunning
<1>4. call.left # Null /\ call.label # Null
  BY <1>1, <1>2, <1>3, WalkOf DEF walk
<1>5. /\ call.left \in Seq(Ids(call.left)) \ {<<>>} /\ Range(call.left) = Ids(call.left)
      /\ call.label \in Seq(Ids(call.label)) \ {<<>>} /\ Range(call.label) = Ids(call.label)
  BY <1>3, <1>4, Given DEF Ids
<1>6. \A e : MatchedLr(e) => e.key[1] \in Ids(call.left) /\ e.key[2] \in Ids(call.label)
  BY <1>3 DEF MatchedLr, Selects
<1>7. \A e : AheadLr(e) <=>
        \/ walk # "1011_1111" /\ Ahead(left, label, e.key[1], e.key[2], OnOrAfter(e))
        \/ walk = "1011_1111" /\ Ahead(label, left, e.key[2], e.key[1], OnOrAfter(e))
  BY <1>1, <1>2 DEF AheadLr, LabelWalks
<1>8. QED
  BY <1>1, <1>2, <1>3, <1>5, <1>6, <1>7

(* All that was ahead stays ahead but what the left and label select.      *)
LEMMA LabelWalkAdvances ==
  ASSUME IInv, Running(LabelWalks), pc # "exit", call' = call,
         \/ walk # "1011_1111" /\ NextLeftLabel
         \/ walk = "1011_1111" /\ NextLabelLeft
  PROVE  /\ pc' \in {"set_key", "exit"} /\ Rest(left, call.left)' /\ Rest(label, call.label)'
         /\ LrCursor' /\ Passed' = {}
         /\ \A e : MatchedLr(e) /\ AheadLr(e) =>
              \/ /\ e.key[1] = Head(left) /\ e.key[2] = Head(label)
                 /\ pc = "each_data" => OnOrAfter(e)
              \/ AheadLr(e)'
<1>1. /\ left \in Seq(Ids(call.left)) \ {<<>>} /\ label \in Seq(Ids(call.label)) \ {<<>>}
      /\ call.left \in Seq(Ids(call.left)) \ {<<>>} /\ Range(call.left) = Ids(call.left)
      /\ call.label \in Seq(Ids(call.label)) \ {<<>>} /\ Range(call.label) = Ids(call.label)
      /\ \A e : MatchedLr(e) => e.key[1] \in Ids(call.left) /\ e.key[2] \in Ids(call.label)
  BY LabelWalk
<1>2. \A e : AheadLr(e) <=>
        \/ walk # "1011_1111" /\ Ahead(left, label, e.key[1], e.key[2], OnOrAfter(e))
        \/ walk = "1011_1111" /\ Ahead(label, left, e.key[2], e.key[1], OnOrAfter(e))
  BY LabelWalk
<1>3. walk' = walk /\ walk \in LabelWalks
  BY DEF walk, Running
<1>4. CASE walk # "1011_1111" /\ NextLeftLabel
  <2> DEFINE next == AfterForward(label, call.label, left)
  <2>1. label' = next[1] /\ left' = next[2] /\ pc' = IF next[2] = <<>> THEN "exit" ELSE "set_key"
    BY <1>4 DEF NextLeftLabel, Advance, Goto
  <2>2. /\ next[1] \in Seq(Ids(call.label)) \ {<<>>} /\ next[2] \in Seq(Ids(call.left))
        /\ \A o : \A i \in Ids(call.label) :
             o \in Range(Tail(left)) \/ (o = Head(left) /\ i \in Range(Tail(label)))
               => /\ next[2] # <<>>
                  /\ \/ o \in Range(Tail(next[2]))
                     \/ /\ o = Head(next[2])
                        /\ i = Head(next[1]) \/ i \in Range(Tail(next[1]))
    BY <1>1, Advanced
  <2> HIDE DEF next
  <2>3. pc' \in {"set_key", "exit"} /\ Rest(left, call.left)' /\ Rest(label, call.label)'
    BY <2>1, <2>2 DEF Rest
  <2>4. ASSUME NEW e, MatchedLr(e), AheadLr(e),
               ~(/\ e.key[1] = Head(left) /\ e.key[2] = Head(label)
                 /\ pc = "each_data" => OnOrAfter(e))
        PROVE  AheadLr(e)'
    <3>1. e.key[1] \in Range(Tail(left))
          \/ (e.key[1] = Head(left) /\ e.key[2] \in Range(Tail(label)))
      BY <1>2, <1>4, <2>4 DEF Ahead
    <3>2. Ahead(left, label, e.key[1], e.key[2], OnOrAfter(e))'
      BY <1>1, <2>1, <2>2, <2>4, <3>1 DEF Ahead
    <3>3. walk' \in {"1010", "1110"}
      BY <1>3, <1>4 DEF LabelWalks
    <3>4. QED
      BY <3>2, <3>3 DEF AheadLr
  <2>5. QED
    BY <2>3, <2>4 DEF LrCursor, Passed
<1>5. CASE walk = "1011_1111" /\ NextLabelLeft
  <2> DEFINE next == AfterForward(left, call.left, label)
  <2>1. left' = next[1] /\ label' = next[2] /\ pc' = IF next[2] = <<>> THEN "exit" ELSE "set_key"
    BY <1>5 DEF NextLabelLeft, Advance, Goto
  <2>2. /\ next[1] \in Seq(Ids(call.left)) \ {<<>>} /\ next[2] \in Seq(Ids(call.label))
        /\ \A o : \A i \in Ids(call.left) :
             o \in Range(Tail(label)) \/ (o = Head(label) /\ i \in Range(Tail(left)))
               => /\ next[2] # <<>>
                  /\ \/ o \in Range(Tail(next[2]))
                     \/ /\ o = Head(next[2])
                        /\ i = Head(next[1]) \/ i \in Range(Tail(next[1]))
    BY <1>1, Advanced
  <2> HIDE DEF next
  <2>3. pc' \in {"set_key", "exit"} /\ Rest(left, call.left)' /\ Rest(label, call.label)'
    BY <2>1, <2>2 DEF Rest
  <2>4. ASSUME NEW e, MatchedLr(e), AheadLr(e),
               ~(/\ e.key[1] = Head(left) /\ e.key[2] = Head(label)
                 /\ pc = "each_data" => OnOrAfter(e))
        PROVE  AheadLr(e)'
    <3>1. e.key[2] \in Range(Tail(label))
          \/ (e.key[2] = Head(label) /\ e.key[1] \in Range(Tail(left)))
      BY <1>2, <1>5, <2>4 DEF Ahead
    <3>2. Ahead(label, left, e.key[2], e.key[1], OnOrAfter(e))'
      BY <1>1, <2>1, <2>2, <2>4, <3>1 DEF Ahead
    <3>3. QED
      BY <1>3, <1>5, <3>2 DEF AheadLr
  <2>5. QED
    BY <2>3, <2>4 DEF LrCursor, Passed
<1>6. QED
  BY <1>4, <1>5

(* Landing on the first entry of a key, or of a scan of it, keeps ahead    *)
(* what is ahead.                                                          *)
LEMMA LabelWalkLands ==
  ASSUME IInv, Running(LabelWalks), pc # "exit", call' = call, left' = left, label' = label,
         pc' = "each_data", NEW e, AheadLr(e),
         e.key[1] = Head(left) /\ e.key[2] = Head(label) =>
           ((pc = "each_data" => OnOrAfter(e)) => OnOrAfter(e)')
  PROVE  AheadLr(e)'
<1>1. walk' = walk /\ walk \in LabelWalks
  BY DEF walk, Running
<1>2. \/ walk # "1011_1111" /\ Ahead(left, label, e.key[1], e.key[2], OnOrAfter(e))
      \/ walk = "1011_1111" /\ Ahead(label, left, e.key[2], e.key[1], OnOrAfter(e))
  BY LabelWalk
<1>3. CASE walk # "1011_1111" /\ Ahead(left, label, e.key[1], e.key[2], OnOrAfter(e))
  <2>1. Ahead(left, label, e.key[1], e.key[2], OnOrAfter(e))'
    BY <1>3 DEF Ahead
  <2>2. walk' \in {"1010", "1110"}
    BY <1>1, <1>3 DEF LabelWalks
  <2>3. QED
    BY <2>1, <2>2 DEF AheadLr
<1>4. CASE walk = "1011_1111" /\ Ahead(label, left, e.key[2], e.key[1], OnOrAfter(e))
  <2>1. Ahead(label, left, e.key[2], e.key[1], OnOrAfter(e))'
    BY <1>4 DEF Ahead
  <2>2. QED
    BY <1>1, <1>4, <2>1 DEF AheadLr
<1>5. QED
  BY <1>2, <1>3, <1>4

LEMMA SetKey_1010_1110Inv ==
  ASSUME IInv, SetKey_1010_1110
  PROVE  IInv'
<1> DEFINE key == <<Head(left), Head(label)>>
           found == LR!SetKey(trees.lr, key)
<1>1. /\ walk \in {"1010", "1110"} /\ pc = "set_key" /\ Running(LabelWalks)
      /\ call' = call /\ start' = start /\ from' = from /\ walk' = walk /\ at' = found
  BY DEF SetKey_1010_1110, At, LabelWalks, Running, walk
<1>2. /\ Running(LrWalks) /\ walk \in LabelWalks /\ Labels = {"set_key", "each_data"}
      /\ Passed = {} /\ Kept = trees.lr
  BY <1>1, LabelWalk DEF Running, Passed, Kept
<1>3. /\ call \in Call /\ trees \in Trees /\ trees.lr \in SUBSET LrEntry /\ from \in Label \cup {0}
      /\ left \in Seq(Ids(call.left)) \ {<<>>} /\ label \in Seq(Ids(call.label)) \ {<<>>}
  BY <1>1, <1>2, LrRunning
<1>4. CASE found # {}
  <2>1. trees' = trees /\ left' = left /\ label' = label /\ pc' = "each_data"
    BY <1>4 DEF SetKey_1010_1110, Goto, arrays
  <2>2. PICK m \in trees.lr : /\ found = {m} /\ m.key = key
                              /\ \A e \in trees.lr : e.key = key => e = m \/ RelationDataBefore(m.data, e.data)
    BY <1>3, <1>4, LrSetKey
  <2>3. LrCursor'
    <3>1. call.ordinal = Null
      BY <1>1, <1>3, WalkOf DEF walk
    <3>2. m.key[1] = Head(left) /\ m.key[2] = Head(label)
      BY <2>2
    <3>3. QED
      BY <1>1, <2>1, <2>2, <3>1, <3>2 DEF LrCursor
  <2>4. Passed' = {}
    <3>1. \A d \in trees.lr : ~(d.key = m.key /\ RelationDataBefore(d.data, m.data))
      BY <1>3, <2>2, LrOrder
    <3>2. QED
      BY <1>1, <2>1, <2>2, <3>1 DEF Passed
  <2>5. ASSUME NEW e \in trees.lr, AheadLr(e)
        PROVE  AheadLr(e)'
    <3>1. ASSUME e.key[1] = Head(left), e.key[2] = Head(label)
          PROVE  OnOrAfter(e)'
      <4>1. e \in LrEntry /\ m \in LrEntry
        BY <1>3
      <4>2. e.key = key
        BY <3>1, <4>1, LrTyped
      <4>3. e = m \/ LR!Before(m, e)
        BY <2>2, <4>1, <4>2, LrOrder
      <4>4. QED
        BY <1>1, <2>2, <4>3 DEF OnOrAfter
    <3>2. QED
      BY <1>1, <2>1, <2>5, <3>1, LabelWalkLands
  <2>6. Rest(left, call.left)' /\ Rest(label, call.label)'
    BY <1>1, <1>3, <2>1 DEF Rest
  <2>7. QED
    BY <1>1, <1>2, <1>3, <2>1, <2>3, <2>4, <2>5, <2>6, LrStay
<1>5. CASE found = {}
  <2>1. \A e \in trees.lr : e.key # key
    BY <1>3, <1>5, LrSetKey
  <2>2. NextLeftLabel /\ trees' = IF walk = "1110" THEN WithoutLlIfLast(trees, key) ELSE trees
    BY <1>5 DEF SetKey_1010_1110
  <2>3. trees' = trees
    <3>1. ~HasKey(trees.lr, key[1], key[2])
      BY <2>1 DEF HasKey
    <3>2. Ll(key[2], key[1]) \notin trees.ll
      <4>1. \A x \in trees.ll : HasKey(trees.lr, x.data, x.key)
        BY <1>2 DEF IInv, LrContents
      <4>2. QED
        BY <3>1, <4>1 DEF Ll
    <3>3. WithoutLlIfLast(trees, key) = trees
      BY <1>3, <3>1, <3>2 DEF WithoutLlIfLast, WithoutLl, Trees
    <3>4. QED
      BY <2>2, <3>3
  <2>4. /\ pc' \in {"set_key", "exit"} /\ Rest(left, call.left)' /\ Rest(label, call.label)'
        /\ LrCursor' /\ Passed' = {}
        /\ \A e : MatchedLr(e) /\ AheadLr(e) =>
             (e.key[1] = Head(left) /\ e.key[2] = Head(label)) \/ AheadLr(e)'
    BY <1>1, <2>2, LabelWalkAdvances
  <2>5. \A e \in trees.lr : MatchedLr(e) /\ AheadLr(e) => AheadLr(e)'
    <3>1. \A e \in trees.lr : ~(e.key[1] = Head(left) /\ e.key[2] = Head(label))
      BY <1>3, <2>1, LrTyped
    <3>2. QED
      BY <2>4, <3>1
  <2>6. QED
    BY <1>1, <1>2, <1>3, <2>3, <2>4, <2>5, LrStay
<1>6. QED
  BY <1>4, <1>5

LEMMA EachData_1010Inv ==
  ASSUME IInv, EachData_1010
  PROVE  IInv'
<1>1. /\ walk = "1010" /\ walk \in LabelWalks /\ pc = "each_data" /\ Running({"1000", "1010"})
      /\ Running(LrWalks) /\ Running(LabelWalks)
      /\ call' = call /\ start' = start /\ from' = from /\ walk' = walk
  BY DEF EachData_1010, At, LrWalks, LabelWalks, Running, walk
<1>2. PICK a \in at :
        LET t == WithoutLl(WithoutRl(trees, a), a.key)
            next == LR!NextDup(trees.lr, a)
        IN \/ /\ next # {} /\ trees' = t /\ at' = next /\ pc' = "each_data"
              /\ left' = left /\ label' = label
           \/ /\ next = {} /\ trees' = [t EXCEPT !.lr = {d \in @ : d.key # a.key}]
              /\ NextLeftLabel
  BY DEF EachData_1010, Goto, arrays
<1> DEFINE next == LR!NextDup(trees.lr, a)
<1>3. next = {} => /\ pc' \in {"set_key", "exit"} /\ Rest(left, call.left)' /\ Rest(label, call.label)'
                   /\ LrCursor' /\ Passed' = {}
                   /\ \A e : MatchedLr(e) /\ AheadLr(e) =>
                        (e.key[1] = Head(left) /\ e.key[2] = Head(label)) \/ AheadLr(e)'
  <2>1. next = {} => walk # "1011_1111" /\ NextLeftLabel
    BY <1>1, <1>2
  <2>2. QED
    BY <1>1, <2>1, LabelWalkAdvances
<1>4. /\ trees' \in Trees /\ {a} \in SUBSET Kept /\ (\A e \in {a} : MatchedLr(e))
      /\ Kept' = Kept \ {a} /\ trees'.lr \subseteq trees.lr
      /\ trees'.rl = trees.rl \ {RlOf(e) : e \in {a}}
      /\ trees'.ll = {x \in start.ll : HasKey(trees'.lr, x.data, x.key)} \ {LlOf(d) : d \in Passed'}
      /\ next = {} => \A e \in trees.lr : e.key # a.key <=> e \in Kept \ {a}
      /\ next # {} => trees'.lr = trees.lr
  <2>1. LET t == WithoutLl(WithoutRl(trees, a), a.key)
        IN \/ next # {} /\ trees' = t /\ at' = next /\ pc' = "each_data"
           \/ /\ next = {} /\ trees' = [t EXCEPT !.lr = {d \in @ : d.key # a.key}]
              /\ pc' # "each_data"
    BY <1>2, <1>3
  <2>2. QED
    BY <1>1, <2>1, DupDeleted
<1>5. /\ at = {a} /\ a \in trees.lr /\ a \in LrEntry /\ a.key[1] = Head(left) /\ a.key[2] = Head(label)
      /\ a.key = <<a.key[1], a.key[2]>>
  BY <1>1, LrAtData
<1>6. /\ trees.lr \in SUBSET LrEntry /\ call \in Call /\ from \in Label \cup {0}
      /\ left \in Seq(Ids(call.left)) \ {<<>>} /\ label \in Seq(Ids(call.label)) \ {<<>>}
  BY <1>1, LrRunning
<1>7. Labels = {"set_key", "each_data"} /\ Kept \subseteq trees.lr
  BY <1>1, LabelWalk DEF Kept
<1>8. CASE next # {}
  <2>1. /\ at' = next /\ pc' = "each_data" /\ trees'.lr = trees.lr
        /\ left' = left /\ label' = label
    BY <1>2, <1>4, <1>8
  <2>2. PICK m \in trees.lr :
          /\ next = {m} /\ m.key = a.key /\ RelationDataBefore(a.data, m.data)
          /\ \A e \in trees.lr : e.key = a.key =>
               \/ e = a \/ RelationDataBefore(e.data, a.data)
               \/ e = m \/ RelationDataBefore(m.data, e.data)
    BY <1>5, <1>6, <1>8, LrNextDup
  <2>3. LrCursor'
    <3>1. call.ordinal = Null
      BY <1>1, <1>6, WalkOf DEF walk
    <3>2. QED
      BY <1>1, <1>5, <2>1, <2>2, <3>1 DEF LrCursor
  <2>4. ASSUME NEW e \in Kept \ {a}, AheadLr(e)
        PROVE  AheadLr(e)'
    <3>1. ASSUME OnOrAfter(e)
          PROVE  OnOrAfter(e)'
      <4>1. e \in LrEntry /\ e \in trees.lr /\ m \in LrEntry /\ LR!Before(a, e)
        BY <1>5, <1>6, <1>7, <2>4, <3>1 DEF OnOrAfter
      <4>2. e = m \/ LR!Before(m, e)
        BY <1>5, <2>2, <4>1, LrOrder
      <4>3. QED
        BY <2>1, <2>2, <4>2 DEF OnOrAfter
    <3>2. QED
      BY <1>1, <2>1, <2>4, <3>1, LabelWalkLands
  <2>5. Rest(left, call.left)' /\ Rest(label, call.label)'
    BY <1>1, <1>6, <2>1 DEF Rest
  <2>6. QED
    BY <1>1, <1>4, <1>6, <1>7, <2>1, <2>3, <2>4, <2>5, LrStep
<1>9. CASE next = {}
  <2>1. \A e \in Kept \ {a} : ~(e.key[1] = Head(left) /\ e.key[2] = Head(label))
    <3>1. \A e \in trees.lr : e.key = <<e.key[1], e.key[2]>>
      BY <1>6, LrTyped
    <3>2. \A e \in Kept \ {a} : e \in trees.lr /\ e.key # a.key
      BY <1>4, <1>7, <1>9
    <3>3. QED
      BY <1>5, <3>1, <3>2
  <2>2. \A e \in Kept \ {a} : MatchedLr(e) /\ AheadLr(e) => AheadLr(e)'
    BY <1>3, <1>9, <2>1
  <2>3. pc' \in Labels \cup {"exit"} /\ from' \in Label \cup {0}
    BY <1>1, <1>3, <1>6, <1>7, <1>9
  <2>4. QED
    BY <1>1, <1>3, <1>4, <1>9, <2>2, <2>3, LrStep
<1>10. QED
  BY <1>8, <1>9

LEMMA LabelWalkData ==
  ASSUME IInv, Running({"1110", "1011_1111"}), pc = "each_data", NEW a \in at,
         call' = call, start' = start, from' = from,
         LET t == WithoutHit(a)
             next == LR!NextDup(trees.lr, a)
         IN \/ /\ ~Above(a) /\ next # {} /\ trees' = t /\ at' = next /\ pc' = "each_data"
               /\ left' = left /\ label' = label
            \/ /\ Above(a) \/ next = {}
               /\ trees' = WithoutLlIfLast(t, a.key)
               /\ \/ walk # "1011_1111" /\ NextLeftLabel
                  \/ walk = "1011_1111" /\ NextLabelLeft
  PROVE  IInv'
<1>1. /\ walk \in LabelWalks /\ walk' = walk /\ walk \notin {"1000", "1010"} /\ pc # "idle"
      /\ Running(LrWalks \ {"1000", "1010"}) /\ Running(LrWalks) /\ Running(LabelWalks)
  BY DEF LabelWalks, LrWalks, Running, walk
<1> DEFINE next == LR!NextDup(trees.lr, a)
           t == WithoutHit(a)
           u == WithoutLlIfLast(t, a.key)
           labels(lr) == {x \in start.ll : HasKey(lr, x.data, x.key)}
<1>2. /\ t \in Trees /\ t.lr = trees.lr \ Taken(a)
      /\ t.rl = trees.rl \ {RlOf(e) : e \in Taken(a)}
      /\ (\E e \in t.lr : e.key = a.key) => t.ll = labels(t.lr)
      /\ u \in Trees /\ u.lr = t.lr /\ u.rl = t.rl /\ u.ll = labels(t.lr)
      /\ Kept = trees.lr /\ trees.lr \in SUBSET LrEntry
      /\ Taken(a) \in SUBSET Kept /\ (\A e \in Taken(a) : MatchedLr(e))
      /\ \A e \in Kept \ Taken(a) : MatchedLr(e) => e # a
  BY <1>1, HitDeleted
<1>3. /\ at = {a} /\ a \in trees.lr /\ a \in LrEntry /\ a.key[1] = Head(left) /\ a.key[2] = Head(label)
      /\ a.key = <<a.key[1], a.key[2]>>
      /\ call.ordinal # Null => ScanStart(call.ordinal.min) <= a.data[1]
  BY <1>1, LrAtData
<1>4. /\ call \in Call /\ from \in Label \cup {0}
      /\ left \in Seq(Ids(call.left)) \ {<<>>} /\ label \in Seq(Ids(call.label)) \ {<<>>}
  BY <1>1, LrRunning
<1>5. Passed = {} /\ Passed' = {}
  BY <1>1 DEF Passed, Running
<1>6. Labels = {"set_key", "each_data"}
  BY <1>1, LabelWalk
<1>7. CASE ~Above(a) /\ next # {} /\ trees' = t /\ at' = next /\ pc' = "each_data"
           /\ left' = left /\ label' = label
  <2>1. PICK m \in trees.lr :
          /\ next = {m} /\ m.key = a.key /\ RelationDataBefore(a.data, m.data)
          /\ \A e \in trees.lr : e.key = a.key =>
               \/ e = a \/ RelationDataBefore(e.data, a.data)
               \/ e = m \/ RelationDataBefore(m.data, e.data)
    BY <1>2, <1>3, <1>7, LrNextDup
  <2>2. m \in LrEntry /\ m # a
    BY <1>2, <1>3, <2>1, LrOrder
  <2>3. m \in t.lr
    BY <1>2, <2>1, <2>2 DEF Taken
  <2> HIDE DEF t, u, labels
  <2>4. LrCursor'
    <3>1. call.ordinal # Null => ScanStart(call.ordinal.min) <= m.data[1]
      <4>1. a.data[1] <= m.data[1] /\ a.data[1] \in Nat /\ m.data[1] \in Nat
        BY <1>3, <2>1, <2>2, LrOrder, LrTyped
      <4>2. call.ordinal # Null => ScanStart(call.ordinal.min) \in Nat
        BY <1>4, ScanIs
      <4>3. QED
        BY <1>3, <4>1, <4>2
    <3>2. QED
      BY <1>1, <1>3, <1>7, <2>1, <2>3, <3>1 DEF LrCursor
  <2>5. trees'.ll = {x \in start.ll : HasKey(trees'.lr, x.data, x.key)} \ {LlOf(d) : d \in Passed'}
    <3>1. t.ll = labels(t.lr)
      BY <1>2, <2>1, <2>3
    <3>2. QED
      BY <1>5, <1>7, <3>1 DEF labels
  <2>6. ASSUME NEW e \in Kept \ Taken(a), MatchedLr(e), AheadLr(e)
        PROVE  AheadLr(e)'
    <3>1. ASSUME OnOrAfter(e)
          PROVE  OnOrAfter(e)'
      <4>1. e \in LrEntry /\ e \in trees.lr /\ LR!Before(a, e)
        BY <1>2, <1>3, <2>6, <3>1 DEF OnOrAfter
      <4>2. e = m \/ LR!Before(m, e)
        BY <1>3, <2>1, <2>2, <4>1, LrOrder
      <4>3. QED
        BY <1>7, <2>1, <4>2 DEF OnOrAfter
    <3>2. QED
      BY <1>1, <1>7, <2>6, <3>1, LabelWalkLands
  <2>7. Kept' = Kept \ Taken(a)
    BY <1>2, <1>5, <1>7 DEF Kept
  <2>8. pc' \in Labels \cup {"exit"} /\ from' \in Label \cup {0} /\ trees' \in Trees
        /\ trees'.lr \subseteq trees.lr /\ trees'.rl = trees.rl \ {RlOf(e) : e \in Taken(a)}
        /\ Rest(left, call.left)' /\ Rest(label, call.label)'
    BY <1>2, <1>4, <1>6, <1>7 DEF Rest
  <2>9. QED
    BY <1>1, <1>2, <2>4, <2>5, <2>6, <2>7, <2>8, LrStep
<1>8. CASE /\ Above(a) \/ next = {}
           /\ trees' = u
           /\ \/ walk # "1011_1111" /\ NextLeftLabel
              \/ walk = "1011_1111" /\ NextLabelLeft
  <2>1. /\ pc' \in {"set_key", "exit"} /\ Rest(left, call.left)' /\ Rest(label, call.label)'
        /\ LrCursor'
        /\ \A e : MatchedLr(e) /\ AheadLr(e) =>
             \/ OnOrAfter(e) /\ e.key[1] = Head(left) /\ e.key[2] = Head(label)
             \/ AheadLr(e)'
    BY <1>1, <1>8, LabelWalkAdvances
  <2> HIDE DEF t, u
  <2>2. trees'.ll = {x \in start.ll : HasKey(trees'.lr, x.data, x.key)} \ {LlOf(d) : d \in Passed'}
    BY <1>2, <1>5, <1>8 DEF labels
  <2>3. ASSUME NEW e \in Kept \ Taken(a), MatchedLr(e), AheadLr(e)
        PROVE  AheadLr(e)'
    <3>1. e # a /\ e \in trees.lr /\ e \in LrEntry /\ e.key = <<e.key[1], e.key[2]>>
      BY <1>2, <2>3, LrTyped
    <3>2. ASSUME OnOrAfter(e), e.key[1] = Head(left), e.key[2] = Head(label)
          PROVE  FALSE
      <4>1. LR!Before(a, e) /\ e.key = a.key
        BY <1>3, <3>1, <3>2 DEF OnOrAfter
      <4>2. RelationDataBefore(a.data, e.data)
        BY <1>3, <3>1, <4>1, LrOrder
      <4>3. CASE next = {}
        <5>1. RelationDataBefore(e.data, a.data)
          BY <1>2, <1>3, <3>1, <4>1, <4>3, LrNextDup
        <5>2. QED
          BY <1>3, <3>1, <4>2, <5>1, LrOrder
      <4>4. CASE Above(a)
        BY <1>1, <1>3, <2>3, <3>1, <4>2, <4>4, HitIs, LrOrder
      <4>5. QED
        BY <1>8, <4>3, <4>4
    <3>3. QED
      BY <2>1, <2>3, <3>2
  <2>4. Kept' = Kept \ Taken(a)
    BY <1>2, <1>5, <1>8 DEF Kept
  <2>5. pc' \in Labels \cup {"exit"} /\ from' \in Label \cup {0} /\ trees' \in Trees
        /\ trees'.lr \subseteq trees.lr /\ trees'.rl = trees.rl \ {RlOf(e) : e \in Taken(a)}
    BY <1>2, <1>4, <1>6, <1>8, <2>1
  <2>6. QED
    BY <1>1, <1>2, <2>1, <2>2, <2>3, <2>4, <2>5, LrStep
<1>9. QED
  BY <1>7, <1>8

LEMMA EachData_1110Inv ==
  ASSUME IInv, EachData_1110
  PROVE  IInv'
<1>1. /\ walk = "1110" /\ pc = "each_data" /\ Running({"1110", "1011_1111"}) /\ Running(LrWalks)
      /\ call' = call /\ start' = start /\ from' = from
  BY DEF EachData_1110, At, LrWalks, LabelWalks, Running
<1>2. call.ordinal = Null
  <2>1. call \in Call
    BY <1>1, LrRunning
  <2>2. QED
    BY <1>1, <2>1, WalkOf DEF walk
<1>3. PICK a \in at :
        LET t == IF RightIsIn(a) THEN WithoutLr(WithoutRl(trees, a), a) ELSE trees
            next == LR!NextDup(trees.lr, a)
        IN \/ /\ next # {} /\ trees' = t /\ at' = next /\ pc' = "each_data"
              /\ left' = left /\ label' = label
           \/ /\ next = {} /\ trees' = WithoutLlIfLast(t, a.key)
              /\ NextLeftLabel
  BY DEF EachData_1110, Goto, arrays
<1>4. ~Above(a) /\ WithoutHit(a) = IF RightIsIn(a) THEN WithoutLr(WithoutRl(trees, a), a) ELSE trees
  BY <1>2 DEF Above, WithoutHit, Hit
<1> DEFINE next == LR!NextDup(trees.lr, a)
           t == WithoutHit(a)
<1>5. \/ /\ ~Above(a) /\ next # {} /\ trees' = t /\ at' = next /\ pc' = "each_data"
         /\ left' = left /\ label' = label
      \/ /\ Above(a) \/ next = {}
         /\ trees' = WithoutLlIfLast(t, a.key)
         /\ \/ walk # "1011_1111" /\ NextLeftLabel
            \/ walk = "1011_1111" /\ NextLabelLeft
  BY <1>1, <1>3, <1>4
<1>6. QED
  BY <1>1, <1>5, LabelWalkData

LEMMA EachData_1011_1111Inv ==
  ASSUME IInv, EachData_1011_1111
  PROVE  IInv'
<1>1. /\ walk = "1011_1111" /\ pc = "each_data" /\ Running({"1110", "1011_1111"})
      /\ call' = call /\ start' = start /\ from' = from
  BY DEF EachData_1011_1111, At, Running
<1>2. PICK a \in at :
        LET t == IF ~Above(a) /\ RightIsIn(a) THEN WithoutLr(WithoutRl(trees, a), a) ELSE trees
            next == LR!NextDup(trees.lr, a)
        IN \/ /\ ~Above(a) /\ next # {} /\ trees' = t /\ at' = next /\ pc' = "each_data"
              /\ left' = left /\ label' = label
           \/ /\ Above(a) \/ next = {}
              /\ trees' = WithoutLlIfLast(t, a.key) /\ NextLabelLeft
  BY DEF EachData_1011_1111, Goto, arrays
<1> DEFINE next == LR!NextDup(trees.lr, a)
           t == WithoutHit(a)
<1>3. \/ /\ ~Above(a) /\ next # {} /\ trees' = t /\ at' = next /\ pc' = "each_data"
         /\ left' = left /\ label' = label
      \/ /\ Above(a) \/ next = {}
         /\ trees' = WithoutLlIfLast(t, a.key)
         /\ \/ walk # "1011_1111" /\ NextLeftLabel
            \/ walk = "1011_1111" /\ NextLabelLeft
  BY <1>1, <1>2 DEF WithoutHit, Hit
<1>4. QED
  BY <1>1, <1>3, LabelWalkData

LEMMA SetKey_1011_1111Inv ==
  ASSUME IInv, SetKey_1011_1111
  PROVE  IInv'
<1> DEFINE key == <<Head(left), Head(label)>>
           scan == ScanStart(call.ordinal.min)
           found == LR!GetBothRange(trees.lr, key, <<scan, 0>>)
<1>1. /\ walk = "1011_1111" /\ walk \in LabelWalks /\ pc = "set_key" /\ Running(LabelWalks)
      /\ call' = call /\ start' = start /\ from' = from /\ walk' = walk /\ at' = found /\ trees' = trees
  BY DEF SetKey_1011_1111, At, LabelWalks, Running, walk
<1>2. /\ Running(LrWalks) /\ Labels = {"set_key", "each_data"} /\ Passed = {} /\ Kept = trees.lr
      /\ Passed' = {}
  BY <1>1, LabelWalk DEF Running, Passed, Kept
<1>3. /\ call \in Call /\ trees \in Trees /\ trees.lr \in SUBSET LrEntry /\ from \in Label \cup {0}
      /\ left \in Seq(Ids(call.left)) \ {<<>>} /\ label \in Seq(Ids(call.label)) \ {<<>>}
  BY <1>1, <1>2, LrRunning
<1>4. call.ordinal # Null
  BY <1>1, <1>3, WalkOf DEF walk
<1>5. scan \in Nat /\ \A e : MatchedLr(e) => scan <= e.data[1]
  BY <1>3, <1>4, ScanIs DEF MatchedLr
<1>6. CASE found # {}
  <2>1. left' = left /\ label' = label /\ pc' = "each_data"
    BY <1>1, <1>6 DEF SetKey_1011_1111, Goto, arrays
  <2> HIDE DEF scan, key
  <2>2. PICK m \in trees.lr :
          /\ found = {m} /\ m.key = key /\ From(<<scan, 0>>, m)
          /\ \A e \in trees.lr : e.key = key /\ From(<<scan, 0>>, e) =>
               e = m \/ RelationDataBefore(m.data, e.data)
    BY <1>3, <1>6, LrGetBothRange
  <2>3. LrCursor'
    <3>1. scan <= m.data[1]
      BY <1>3, <1>5, <2>2, FromOrdinal
    <3>2. m.key[1] = Head(left) /\ m.key[2] = Head(label)
      BY <2>2 DEF key
    <3>3. QED
      BY <1>1, <2>1, <2>2, <3>1, <3>2 DEF LrCursor, scan
  <2>4. ASSUME NEW e \in trees.lr, MatchedLr(e), AheadLr(e)
        PROVE  AheadLr(e)'
    <3>1. ASSUME e.key[1] = Head(left), e.key[2] = Head(label)
          PROVE  OnOrAfter(e)'
      <4>1. e \in LrEntry /\ m \in LrEntry
        BY <1>3
      <4>2. e.key = key
        BY <3>1, <4>1, LrTyped DEF key
      <4>3. From(<<scan, 0>>, e)
        BY <1>5, <2>4, <4>1, FromOrdinal
      <4>4. e = m \/ LR!Before(m, e)
        BY <2>2, <4>1, <4>2, <4>3, LrOrder
      <4>5. QED
        BY <1>1, <2>2, <4>4 DEF OnOrAfter
    <3>2. QED
      BY <1>1, <2>1, <2>4, <3>1, LabelWalkLands
  <2>5. Rest(left, call.left)' /\ Rest(label, call.label)'
    BY <1>1, <1>3, <2>1 DEF Rest
  <2>6. QED
    BY <1>1, <1>2, <1>3, <2>1, <2>3, <2>4, <2>5, LrStay
<1>7. CASE found = {}
  <2>1. NextLabelLeft
    BY <1>1, <1>7 DEF SetKey_1011_1111
  <2>2. /\ pc' \in {"set_key", "exit"} /\ Rest(left, call.left)' /\ Rest(label, call.label)'
        /\ LrCursor'
        /\ \A e : MatchedLr(e) /\ AheadLr(e) =>
             (e.key[1] = Head(left) /\ e.key[2] = Head(label)) \/ AheadLr(e)'
    BY <1>1, <2>1, LabelWalkAdvances
  <2> HIDE DEF scan, key
  <2>3. \A e \in trees.lr : e.key = key => ~From(<<scan, 0>>, e)
    BY <1>3, <1>7, LrGetBothRange
  <2>4. ASSUME NEW e \in trees.lr, MatchedLr(e)
        PROVE  ~(e.key[1] = Head(left) /\ e.key[2] = Head(label))
    <3>1. e \in LrEntry /\ e.key = <<e.key[1], e.key[2]>>
      BY <1>3, LrTyped
    <3>2. From(<<scan, 0>>, e)
      BY <1>5, <2>4, <3>1, FromOrdinal
    <3>3. QED
      BY <2>3, <3>1, <3>2 DEF key
  <2>5. \A e \in trees.lr : MatchedLr(e) /\ AheadLr(e) => AheadLr(e)'
    BY <2>2, <2>4
  <2>6. QED
    BY <1>1, <1>2, <1>3, <2>2, <2>5, LrStay
<1>8. QED
  BY <1>6, <1>7
-----------------------------------------------------------------------------
(* The walks through rl: 0100 and 0110.                                    *)

LEMMA RlOrder ==
  ASSUME NEW d \in RlEntry, NEW e \in RlEntry
  PROVE  /\ d.data = e.data \/ d.data < e.data \/ e.data < d.data
         /\ ~(d.data < e.data /\ e.data < d.data) /\ ~(d.data < d.data)
         /\ d.key = e.key /\ d.data = e.data => d = e
         /\ d.key = e.key => (RL!Before(d, e) <=> d.data < e.data)
         /\ RL!Before(d, e) => d.key[1] <= e.key[1]
<1>1. d.data \in Nat /\ e.data \in Nat /\ d.key[1] \in Nat /\ e.key[1] \in Nat
      /\ d.key[2] \in Nat /\ e.key[2] \in Nat
  BY RlTyped
<1>2. d.key = e.key /\ d.data = e.data => d = e
  BY DEF RlEntry
<1>3. QED
  BY <1>1, <1>2 DEF RL!Before, RelationKeyBefore, IdBefore

LEMMA RlNextDup ==
  ASSUME NEW rl \in SUBSET RlEntry, NEW a \in rl
  PROVE  /\ RL!NextDup(rl, a) = {} => \A e \in rl : e.key = a.key => ~(a.data < e.data)
         /\ RL!NextDup(rl, a) # {} =>
              \E m \in rl : /\ RL!NextDup(rl, a) = {m} /\ m.key = a.key /\ a.data < m.data
                            /\ \A e \in rl : e.key = a.key /\ a.data < e.data =>
                                               e = m \/ m.data < e.data
<1> DEFINE S == {e \in rl : e.key = a.key /\ a.data < e.data}
<1>1. RL!NextDup(rl, a) = RL!Least(S) /\ S \in SUBSET RlEntry
  BY DEF RL!NextDup, IdBefore
<1>2. ASSUME S # {}
      PROVE  \E m \in S : RL!Least(S) = {m} /\ \A d \in S : d = m \/ m.data < d.data
  <2>1. PICK m \in S : RL!Least(S) = {m} /\ \A d \in S : d = m \/ RL!Before(m, d)
    BY <1>1, <1>2, RlLands
  <2>2. \A d \in S : d.key = m.key /\ d \in RlEntry
    BY <2>1
  <2>3. QED
    BY <2>1, <2>2, RlOrder
<1>3. S = {} => RL!Least(S) = {}
  BY <1>1, RlLands
<1>4. \A e \in rl : e \in S <=> e.key = a.key /\ a.data < e.data
  OBVIOUS
<1>5. S \subseteq rl
  OBVIOUS
<1> HIDE DEF S
<1>6. QED
  BY <1>1, <1>2, <1>3, <1>4, <1>5

LEMMA RlSetKey ==
  ASSUME NEW rl \in SUBSET RlEntry, NEW key
  PROVE  /\ RL!SetKey(rl, key) = {} <=> \A e \in rl : e.key # key
         /\ RL!SetKey(rl, key) # {} =>
              \E m \in rl : /\ RL!SetKey(rl, key) = {m} /\ m.key = key
                            /\ \A e \in rl : e.key = key => e = m \/ m.data < e.data
<1> DEFINE S == {e \in rl : e.key = key}
<1>1. RL!SetKey(rl, key) = RL!Least(S) /\ S \in SUBSET RlEntry
  BY DEF RL!SetKey
<1>2. ASSUME S # {}
      PROVE  \E m \in S : RL!Least(S) = {m} /\ \A d \in S : d = m \/ m.data < d.data
  <2>1. PICK m \in S : RL!Least(S) = {m} /\ \A d \in S : d = m \/ RL!Before(m, d)
    BY <1>1, <1>2, RlLands
  <2>2. \A d \in S : d.key = m.key /\ d \in RlEntry
    BY <2>1
  <2>3. QED
    BY <2>1, <2>2, RlOrder
<1>3. S = {} => RL!Least(S) = {}
  BY <1>1, RlLands
<1>4. QED
  BY <1>1, <1>2, <1>3

(* A range scan from a right finds it if rl has it.                        *)
LEMMA RlSetRange ==
  ASSUME NEW rl \in SUBSET RlEntry, NEW right0 \in Nat
  PROVE  /\ \/ RL!SetRange(rl, <<right0, 0>>) = {}
            \/ \E m \in rl : RL!SetRange(rl, <<right0, 0>>) = {m}
         /\ \A e \in rl : e.key[1] = right0 =>
              \E m \in RL!SetRange(rl, <<right0, 0>>) : m.key[1] = right0
<1> DEFINE key == <<right0, 0>>
           S == {e \in rl : e.key = key \/ RelationKeyBefore(key, e.key)}
<1>1. RL!SetRange(rl, key) = RL!Least(S) /\ S \in SUBSET RlEntry
  BY DEF RL!SetRange
<1>2. \A e \in S : right0 <= e.key[1] /\ e.key[1] \in Nat
  BY RlTyped DEF RelationKeyBefore
<1>3. \A e \in rl : e.key[1] = right0 => e \in S
  BY RlTyped DEF RelationKeyBefore
<1>4. S \subseteq rl
  OBVIOUS
<1> HIDE DEF S, key
<1>5. RL!SetRange(rl, key) = {} <=> S = {}
  BY <1>1, RlLands
<1>6. ASSUME S # {}
      PROVE  \E m \in S : RL!SetRange(rl, key) = {m} /\ \A d \in S : d = m \/ RL!Before(m, d)
  BY <1>1, <1>6, RlLands
<1>7. \A m, d \in S : RL!Before(m, d) => m.key[1] <= d.key[1]
  BY <1>1, RlOrder
<1>8. \A m, d \in S : d.key[1] = right0 /\ (d = m \/ RL!Before(m, d)) => m.key[1] = right0
  BY <1>2, <1>7
<1>9. QED
  BY <1>3, <1>4, <1>5, <1>6, <1>8 DEF key

LEMMA RlRunning ==
  ASSUME IInv, Running(RlWalks), pc # "exit"
  PROVE  /\ call \in Call /\ InStep(start) /\ start.ll \in SUBSET LlEntry
         /\ start.lr \in SUBSET LrEntry /\ start.rl = {RlOf(e) : e \in start.lr}
         /\ trees \in Trees /\ trees.rl \in SUBSET RlEntry /\ from \in Label \cup {0}
         /\ right \in Seq(Ids(call.right)) \ {<<>>} /\ Head(right) \in Nat
         /\ call.right \in Seq(Ids(call.right)) \ {<<>>} /\ Range(call.right) = Ids(call.right)
         /\ walk = "0110" => /\ label \in Seq(Ids(call.label)) \ {<<>>}
                             /\ Ids(call.label) # Null
<1>1. call \in Call /\ walk \in RlWalks
  BY CallsAssumption DEF IInv, Control, Running
<1>2. InStep(start) /\ start.ll \in SUBSET LlEntry /\ start.lr \in SUBSET LrEntry
      /\ start.rl = {RlOf(e) : e \in start.lr}
      /\ trees \in Trees /\ trees.rl \in SUBSET RlEntry /\ from \in Label \cup {0}
  BY DEF IInv, Control, InStep, Trees
<1>3. right \in Seq(Ids(call.right)) \ {<<>>}
  BY DEF IInv, Control, Rest
<1>4. call.right # Null /\ (walk = "0110" => call.label # Null)
  BY <1>1, WalkOf DEF walk
<1>5. /\ Ids(call.right) \in SUBSET Right
      /\ call.right \in Seq(Ids(call.right)) \ {<<>>} /\ Range(call.right) = Ids(call.right)
      /\ walk = "0110" => Ids(call.label) # Null
  BY <1>1, <1>4, Given DEF Ids
<1>6. Head(right) \in Ids(call.right)
  BY <1>3, Current
<1>7. walk = "0110" => label \in Seq(Ids(call.label)) \ {<<>>}
  BY DEF IInv, Control, Rest, Running
<1>8. QED
  BY <1>1, <1>2, <1>3, <1>5, <1>6, <1>7, IdsAssumption

LEMMA RlStep ==
  ASSUME IInv, Running(RlWalks), call' = call, start' = start, from' = from,
         pc' \in Labels \cup {"exit"}, trees' \in Trees,
         Rest(right, call.right)', walk = "0110" => Rest(label, call.label)',
         RlCursor', RlContents'
  PROVE  IInv'
<1>1. walk' = walk /\ walk \in RlWalks /\ pc # "idle" /\ pc' # "idle"
      /\ walk \notin LrWalks /\ walk \notin {"0010", "none"}
  BY DEF walk, Running, Labels, LrWalks, KeyWalks, LabelWalks, RlWalks
<1>2. Control'
  <2>1. InStep(start)'
    BY DEF IInv, Control, InStep
  <2>2. (pc \in Labels \cup {"exit"})'
    BY <1>1 DEF Labels
  <2>3. call \in Calls /\ from \in Label \cup {0}
    BY <1>1 DEF IInv, Control
  <2>4. walk' # "0110" => walk' \notin LabelWalks \cup {"0110", "0010"}
    BY <1>1 DEF LrWalks
  <2>5. QED
    BY <1>1, <2>1, <2>2, <2>3, <2>4 DEF Control, Running
<1>3. LrCursor' /\ LrContents' /\ LlCursor' /\ LlContents'
  BY <1>1 DEF LrCursor, LrContents, LlCursor, LlContents, Running, LrWalks
<1>4. QED
  BY <1>2, <1>3 DEF IInv

LEMMA RlStay ==
  ASSUME IInv, Running(RlWalks), call' = call, start' = start, trees' = trees, from' = from,
         pc' \in Labels \cup {"exit"},
         Rest(right, call.right)', walk = "0110" => Rest(label, call.label)',
         RlCursor', \A x \in trees.rl : MatchedRl(x) /\ AheadRl(x) => AheadRl(x)'
  PROVE  IInv'
<1>1. walk' = walk
  BY DEF walk
<1>2. \A x : MatchedRl(x)' <=> MatchedRl(x)
  BY DEF MatchedRl
<1>3. RlContents'
  BY <1>1, <1>2 DEF IInv, RlContents
<1>4. trees \in Trees
  BY DEF IInv, Control
<1>5. QED
  BY <1>3, <1>4, RlStep

LEMMA SetRange_0100Inv ==
  ASSUME IInv, SetRange_0100
  PROVE  IInv'
<1>1. /\ walk = "0100" /\ walk \in RlWalks /\ pc = "set_range_right" /\ Running(RlWalks)
      /\ call' = call /\ start' = start /\ from' = from /\ walk' = walk /\ trees' = trees
      /\ at' = RL!SetRange(trees.rl, <<Head(right), 0>>)
  BY DEF SetRange_0100, At, RlWalks, Running, walk
<1>2. /\ trees.rl \in SUBSET RlEntry /\ right \in Seq(Ids(call.right)) \ {<<>>}
      /\ Head(right) \in Nat
  BY <1>1, RlRunning
<1>3. /\ \/ at' = {}
         \/ \E m \in trees.rl : at' = {m}
      /\ \A e \in trees.rl : e.key[1] = Head(right) => \E m \in at' : m.key[1] = Head(right)
  BY <1>1, <1>2, RlSetRange
<1>4. Labels = {"set_range_right", "each_data"}
  BY <1>1 DEF Labels, KeyWalks, LabelWalks
<1>5. CASE \E x \in at' : x.key[1] = Head(right)
  <2>1. pc' = "each_data" /\ right' = right
    BY <1>5 DEF SetRange_0100, Goto
  <2>2. RlCursor'
    BY <1>1, <1>3, <1>5, <2>1 DEF RlCursor
  <2>3. \A x \in trees.rl : AheadRl(x) => AheadRl(x)'
    BY <1>1, <2>1 DEF AheadRl
  <2>4. Rest(right, call.right)'
    BY <1>1, <1>2, <2>1 DEF Rest
  <2>5. QED
    BY <1>1, <1>4, <2>1, <2>2, <2>3, <2>4, RlStay
<1>6. CASE ~ \E x \in at' : x.key[1] = Head(right)
  <2>1. right' = Tail(right) /\ pc' = IF Tail(right) = <<>> THEN "exit" ELSE "set_range_right"
    BY <1>6 DEF SetRange_0100, Goto
  <2>2. RlCursor'
    BY <2>1 DEF RlCursor
  <2>3. /\ Tail(right) \in Seq(Ids(call.right)) /\ Range(<<>>) = {}
        /\ Range(right) = {Head(right)} \cup Range(Tail(right))
    <3>1. Range(<<>>) = {}
      BY DEF Range
    <3>2. QED
      BY <1>2, <3>1, Current
  <2>4. ASSUME NEW x \in trees.rl, AheadRl(x)
        PROVE  AheadRl(x)'
    <3>1. x.key[1] \in Range(right) /\ x.key[1] # Head(right)
      BY <1>1, <1>3, <1>6, <2>4 DEF AheadRl
    <3>2. x.key[1] \in Range(Tail(right)) /\ Tail(right) # <<>>
      BY <2>3, <3>1
    <3>3. QED
      BY <1>1, <2>1, <3>2 DEF AheadRl
  <2>5. Rest(right, call.right)'
    BY <1>1, <2>1, <2>3 DEF Rest
  <2>6. QED
    BY <1>1, <1>4, <2>1, <2>2, <2>4, <2>5, RlStay
<1>7. QED
  BY <1>5, <1>6

LEMMA RlDeleted ==
  ASSUME IInv, Running(RlWalks), pc = "each_data", NEW x \in at, call' = call, start' = start,
         LET t == WithoutRelation(trees, x)
             key == <<x.data, x.key[2]>>
         IN trees' = IF walk = "0100" THEN WithoutLlIfLast(t, key) ELSE WithoutLl(t, key),
         \A y \in trees.rl \ {x} : MatchedRl(y) /\ AheadRl(y) => AheadRl(y)'
  PROVE  trees' \in Trees /\ RlContents'
<1> DEFINE t == WithoutRelation(trees, x)
           key == <<x.data, x.key[2]>>
           labels(lr) == {y \in start.ll : HasKey(lr, y.data, y.key)}
           lls(rl) == {Ll(y.key[2], y.data) : y \in start.rl \ rl}
<1>1. /\ call \in Call /\ InStep(start) /\ start.ll \in SUBSET LlEntry
      /\ start.lr \in SUBSET LrEntry /\ start.rl = {RlOf(e) : e \in start.lr}
      /\ trees \in Trees /\ trees.rl \in SUBSET RlEntry
      /\ walk' = walk /\ walk \in RlWalks
  BY RlRunning DEF walk, Running
<1>2. /\ trees.rl \subseteq start.rl
      /\ \A y \in start.rl \ trees.rl : MatchedRl(y)
      /\ \A y \in trees.rl : MatchedRl(y) => AheadRl(y)
      /\ trees.lr = {e \in start.lr : RlOf(e) \in trees.rl}
      /\ trees.ll = IF walk = "0100" THEN labels(trees.lr) ELSE start.ll \ lls(trees.rl)
  BY DEF IInv, RlContents
<1>3. x \in trees.rl /\ x.key[1] = Head(right) /\ (walk = "0110" => x.key[2] = Head(label))
  BY DEF IInv, RlCursor
<1>4. PICK a \in start.lr : RlOf(a) = x
  BY <1>1, <1>2, <1>3
<1>5. /\ a \in LrEntry /\ a.key[1] = x.data /\ a.key[2] = x.key[2] /\ a.data[2] = x.key[1]
      /\ a.key = key /\ key[1] = x.data /\ key[2] = x.key[2]
  <2>1. a \in LrEntry /\ a.key = <<a.key[1], a.key[2]>>
    BY <1>1, LrTyped
  <2>2. QED
    BY <1>4, <2>1 DEF RlOf, Rl
<1>6. a \in trees.lr /\ \A e \in trees.lr : e.key = key /\ e.data[2] = x.key[1] <=> e = a
  BY <1>1, <1>2, <1>3, <1>4, <1>5 DEF InStep
<1>7. SeekRight(trees.lr, key, x.key[1]) = {a}
  <2>1. {e \in trees.lr : e.key = key /\ e.data[2] = x.key[1]} = {a}
    BY <1>6
  <2>2. LR!Least({a}) = {a}
    <3>1. {a} \in SUBSET LrEntry /\ {a} # {}
      BY <1>5
    <3>2. QED
      BY <3>1, LrLands
  <2>3. QED
    BY <2>1, <2>2 DEF SeekRight
<1>8. /\ t \in Trees /\ t.lr = trees.lr \ {a} /\ t.rl = trees.rl \ {x} /\ t.ll = trees.ll
  BY <1>1, <1>7 DEF WithoutRelation, Trees
<1>9. t.lr = {e \in start.lr : RlOf(e) \in trees.rl \ {x}}
  <2>1. \A e \in start.lr : RlOf(e) = x <=> e = a
    BY <1>1, <1>4, ImagesApart
  <2>2. QED
    BY <1>2, <1>8, <2>1
<1> HIDE DEF t, key
<1>10. /\ trees' \in Trees /\ trees'.lr = t.lr /\ trees'.rl = t.rl
       /\ trees'.ll = IF walk = "0100" /\ HasKey(t.lr, key[1], key[2]) THEN t.ll
                      ELSE t.ll \ {Ll(key[2], key[1])}
  <2>1. /\ WithoutLl(t, key) \in Trees /\ WithoutLl(t, key).ll = t.ll \ {Ll(key[2], key[1])}
        /\ WithoutLl(t, key).lr = t.lr /\ WithoutLl(t, key).rl = t.rl
    <3>1. t \in Trees
      BY <1>8
    <3>2. QED
      BY <3>1, Without
  <2>2. trees' = IF walk = "0100" /\ HasKey(t.lr, key[1], key[2]) THEN t ELSE WithoutLl(t, key)
    BY DEF WithoutLlIfLast, t, key
  <2>3. QED
    BY <1>8, <2>1, <2>2
<1>11. LlOf(a) = Ll(key[2], key[1]) /\ key[1] = a.key[1] /\ key[2] = a.key[2]
  BY <1>5 DEF LlOf
<1> HIDE DEF labels, lls
<1>12. walk = "0100" => trees'.ll = labels(trees'.lr)
  <2>1. t.lr \in SUBSET trees.lr /\ (\A d \in trees.lr \ t.lr : d.key = a.key)
    BY <1>8
  <2>2. \A y \in start.ll : HasKey(t.lr, y.data, y.key) <=>
          /\ HasKey(trees.lr, y.data, y.key)
          /\ HasKey(t.lr, a.key[1], a.key[2]) \/ y # LlOf(a)
    BY <1>1, <1>5, <2>1, LabelsAfter
  <2>3. CASE HasKey(t.lr, key[1], key[2])
    <3>1. labels(t.lr) = labels(trees.lr)
      BY <1>11, <2>2, <2>3 DEF labels
    <3>2. QED
      BY <1>2, <1>8, <1>10, <2>3, <3>1
  <2>4. CASE ~HasKey(t.lr, key[1], key[2])
    <3>1. labels(t.lr) = labels(trees.lr) \ {LlOf(a)}
      BY <1>11, <2>2, <2>4 DEF labels
    <3>2. QED
      BY <1>2, <1>8, <1>10, <1>11, <2>4, <3>1
  <2>5. QED
    BY <2>3, <2>4
<1>13. walk # "0100" => trees'.ll = start.ll \ lls(trees'.rl)
  <2>1. lls(trees'.rl) = lls(trees.rl) \cup {Ll(x.key[2], x.data)}
    <3>1. start.rl \ trees'.rl = (start.rl \ trees.rl) \cup {x}
      BY <1>2, <1>3, <1>8, <1>10
    <3>2. QED
      BY <3>1 DEF lls
  <2>2. Ll(key[2], key[1]) = Ll(x.key[2], x.data)
    BY <1>5, <1>11
  <2>3. QED
    BY <1>2, <1>8, <1>10, <2>1, <2>2
<1>14. \A y : MatchedRl(y)' <=> MatchedRl(y)
  BY DEF MatchedRl
<1>15. MatchedRl(x)
  <2>1. x.key[1] \in Ids(call.right)
    <3>1. right \in Seq(Ids(call.right)) \ {<<>>}
      BY RlRunning
    <3>2. QED
      BY <1>3, <3>1, Current
  <2>2. CASE walk = "0100"
    BY <1>1, <2>1, <2>2, WalkOf, Given DEF MatchedRl, Selects, walk
  <2>3. CASE walk = "0110"
    <3>1. label \in Seq(Ids(call.label)) \ {<<>>}
      BY <2>3, RlRunning
    <3>2. x.key[2] \in Ids(call.label)
      BY <1>3, <2>3, <3>1, Current
    <3>3. QED
      BY <2>1, <3>2 DEF MatchedRl, Selects
  <2>4. QED
    BY <1>1, <2>2, <2>3 DEF RlWalks
<1>16. /\ trees'.rl \subseteq start.rl
       /\ \A y \in start.rl \ trees'.rl : MatchedRl(y)
       /\ \A y \in trees'.rl : MatchedRl(y) => AheadRl(y)'
       /\ trees'.lr = {e \in start.lr : RlOf(e) \in trees'.rl}
  BY <1>2, <1>8, <1>9, <1>10, <1>15
<1>17. RlContents'
  BY <1>1, <1>12, <1>13, <1>14, <1>16 DEF RlContents, labels, lls
<1>18. QED
  BY <1>10, <1>17

LEMMA EachData_0100Inv ==
  ASSUME IInv, EachData_0100
  PROVE  IInv'
<1>1. /\ walk = "0100" /\ walk \in RlWalks /\ pc = "each_data" /\ Running(RlWalks)
      /\ call' = call /\ start' = start /\ from' = from /\ walk' = walk /\ right' = right
  BY DEF EachData_0100, At, RlWalks, Running, walk, arrays
<1>2. PICK x \in at :
        /\ trees' = WithoutLlIfLast(WithoutRelation(trees, x), <<x.data, x.key[2]>>)
        /\ at' = RL!NextDup(trees.rl, x)
        /\ pc' = IF RL!NextDup(trees.rl, x) # {} THEN "each_data" ELSE "set_range_right"
  BY DEF EachData_0100, Goto
<1>3. \A y \in trees.rl \ {x} : MatchedRl(y) /\ AheadRl(y) => AheadRl(y)'
  BY <1>1, <1>2 DEF AheadRl
<1>4. trees' \in Trees /\ RlContents'
  BY <1>1, <1>2, <1>3, RlDeleted
<1>5. trees.rl \in SUBSET RlEntry /\ right \in Seq(Ids(call.right)) \ {<<>>}
  BY <1>1, RlRunning
<1>6. x \in trees.rl /\ x.key[1] = Head(right)
  BY <1>1 DEF IInv, RlCursor
<1>7. trees'.rl = trees.rl \ {x}
  BY <1>2 DEF WithoutLlIfLast, WithoutLl, WithoutRelation
<1>8. RlCursor'
  <2>1. CASE RL!NextDup(trees.rl, x) # {}
    <3>1. PICK m \in trees.rl : RL!NextDup(trees.rl, x) = {m} /\ m.key = x.key /\ x.data < m.data
      BY <1>5, <1>6, <2>1, RlNextDup
    <3>2. m # x
      BY <1>5, <1>6, <3>1, RlOrder
    <3>3. QED
      BY <1>1, <1>2, <1>6, <1>7, <3>1, <3>2 DEF RlCursor
  <2>2. CASE RL!NextDup(trees.rl, x) = {}
    BY <1>2, <2>2 DEF RlCursor
  <2>3. QED
    BY <2>1, <2>2
<1>9. pc' \in Labels \cup {"exit"} /\ Rest(right, call.right)'
  BY <1>1, <1>2, <1>5 DEF Labels, KeyWalks, LabelWalks, Rest
<1>10. QED
  BY <1>1, <1>4, <1>8, <1>9, RlStep

(* 0110 goes from one label and right to the next.                         *)
LEMMA RightWalkAdvances ==
  ASSUME IInv, Running({"0110"}), pc # "exit", call' = call, Advance(right, call.right, label)
  PROVE  /\ pc' \in {"set_key", "exit"} /\ Rest(right, call.right)' /\ Rest(label, call.label)'
         /\ RlCursor'
         /\ \A x : MatchedRl(x) /\ AheadRl(x) =>
              \/ /\ x.key[1] = Head(right) /\ x.key[2] = Head(label)
                 /\ pc = "each_data" => \E a \in at : x = a \/ a.data < x.data
              \/ AheadRl(x)'
<1>1. Running(RlWalks) /\ walk = "0110" /\ walk' = walk
  BY DEF RlWalks, Running, walk
<1>2. /\ right \in Seq(Ids(call.right)) \ {<<>>} /\ label \in Seq(Ids(call.label)) \ {<<>>}
      /\ call.right \in Seq(Ids(call.right)) \ {<<>>} /\ Range(call.right) = Ids(call.right)
  BY <1>1, RlRunning
<1> DEFINE next == AfterForward(right, call.right, label)
<1>3. right' = next[1] /\ label' = next[2] /\ pc' = IF next[2] = <<>> THEN "exit" ELSE "set_key"
  BY DEF Advance, Goto
<1>4. /\ next[1] \in Seq(Ids(call.right)) \ {<<>>} /\ next[2] \in Seq(Ids(call.label))
      /\ \A o : \A i \in Ids(call.right) :
           o \in Range(Tail(label)) \/ (o = Head(label) /\ i \in Range(Tail(right)))
             => /\ next[2] # <<>>
                /\ \/ o \in Range(Tail(next[2]))
                   \/ /\ o = Head(next[2])
                      /\ i = Head(next[1]) \/ i \in Range(Tail(next[1]))
  BY <1>2, Advanced
<1> HIDE DEF next
<1>5. pc' \in {"set_key", "exit"} /\ Rest(right, call.right)' /\ Rest(label, call.label)'
  BY <1>3, <1>4 DEF Rest
<1>6. ASSUME NEW x, MatchedRl(x), AheadRl(x),
             ~(/\ x.key[1] = Head(right) /\ x.key[2] = Head(label)
               /\ pc = "each_data" => \E a \in at : x = a \/ a.data < x.data)
      PROVE  AheadRl(x)'
  <2>1. x.key[2] \in Range(Tail(label))
        \/ (x.key[2] = Head(label) /\ x.key[1] \in Range(Tail(right)))
    BY <1>1, <1>6 DEF AheadRl, Ahead
  <2>2. x.key[1] \in Ids(call.right)
    BY <1>6 DEF MatchedRl
  <2>3. Ahead(label, right, x.key[2], x.key[1], \E a \in at : x = a \/ a.data < x.data)'
    BY <1>3, <1>4, <2>1, <2>2 DEF Ahead
  <2>4. QED
    BY <1>1, <2>3 DEF AheadRl
<1>7. QED
  BY <1>5, <1>6 DEF RlCursor

LEMMA RightWalkLands ==
  ASSUME IInv, Running({"0110"}), call' = call, right' = right, label' = label,
         pc' = "each_data", NEW x, AheadRl(x),
         x.key[1] = Head(right) /\ x.key[2] = Head(label) =>
           ((pc = "each_data" => \E a \in at : x = a \/ a.data < x.data)
              => \E a \in at' : x = a \/ a.data < x.data)
  PROVE  AheadRl(x)'
<1>1. walk = "0110" /\ walk' = walk
  BY DEF Running, walk
<1>2. Ahead(label, right, x.key[2], x.key[1], \E a \in at : x = a \/ a.data < x.data)
  BY <1>1 DEF AheadRl
<1>3. Ahead(label, right, x.key[2], x.key[1], \E a \in at : x = a \/ a.data < x.data)'
  BY <1>2 DEF Ahead
<1>4. QED
  BY <1>1, <1>3 DEF AheadRl

LEMMA SetKey_0110Inv ==
  ASSUME IInv, SetKey_0110
  PROVE  IInv'
<1> DEFINE key == <<Head(right), Head(label)>>
           found == RL!SetKey(trees.rl, key)
<1>1. /\ walk = "0110" /\ walk \in RlWalks /\ pc = "set_key" /\ Running(RlWalks) /\ Running({"0110"})
      /\ call' = call /\ start' = start /\ from' = from /\ walk' = walk /\ trees' = trees
      /\ at' = found
  BY DEF SetKey_0110, At, RlWalks, Running, walk
<1>2. /\ trees.rl \in SUBSET RlEntry /\ right \in Seq(Ids(call.right)) \ {<<>>}
      /\ label \in Seq(Ids(call.label)) \ {<<>>}
  BY <1>1, RlRunning
<1>3. Labels = {"set_key", "each_data"}
  BY <1>1 DEF Labels, KeyWalks, LabelWalks
<1>4. CASE found # {}
  <2>1. pc' = "each_data" /\ right' = right /\ label' = label
    BY <1>1, <1>4 DEF SetKey_0110, Goto, arrays
  <2>2. PICK m \in trees.rl : /\ found = {m} /\ m.key = key
                              /\ \A e \in trees.rl : e.key = key => e = m \/ m.data < e.data
    BY <1>2, <1>4, RlSetKey
  <2>3. RlCursor'
    BY <1>1, <2>1, <2>2 DEF RlCursor
  <2>4. ASSUME NEW x \in trees.rl, AheadRl(x)
        PROVE  AheadRl(x)'
    <3>1. x.key = <<x.key[1], x.key[2]>>
      BY <1>2, RlTyped
    <3>2. x.key[1] = Head(right) /\ x.key[2] = Head(label) => \E a \in at' : x = a \/ a.data < x.data
      BY <1>1, <2>2, <3>1
    <3>3. QED
      BY <1>1, <2>1, <2>4, <3>2, RightWalkLands
  <2>5. Rest(right, call.right)' /\ Rest(label, call.label)'
    BY <1>1, <1>2, <2>1 DEF Rest
  <2>6. QED
    BY <1>1, <1>3, <2>1, <2>3, <2>4, <2>5, RlStay
<1>5. CASE found = {}
  <2>1. Advance(right, call.right, label)
    BY <1>1, <1>5 DEF SetKey_0110
  <2>2. /\ pc' \in {"set_key", "exit"} /\ Rest(right, call.right)' /\ Rest(label, call.label)'
        /\ RlCursor'
        /\ \A x : MatchedRl(x) /\ AheadRl(x) =>
             (x.key[1] = Head(right) /\ x.key[2] = Head(label)) \/ AheadRl(x)'
    BY <1>1, <2>1, RightWalkAdvances
  <2>3. \A x \in trees.rl : ~(x.key[1] = Head(right) /\ x.key[2] = Head(label))
    <3>1. \A x \in trees.rl : x.key # key
      BY <1>2, <1>5, RlSetKey
    <3>2. \A x \in trees.rl : x.key = <<x.key[1], x.key[2]>>
      BY <1>2, RlTyped
    <3>3. QED
      BY <3>1, <3>2
  <2>4. \A x \in trees.rl : MatchedRl(x) /\ AheadRl(x) => AheadRl(x)'
    BY <2>2, <2>3
  <2>5. QED
    BY <1>1, <1>3, <2>2, <2>4, RlStay
<1>6. QED
  BY <1>4, <1>5

LEMMA EachData_0110Inv ==
  ASSUME IInv, EachData_0110
  PROVE  IInv'
<1>1. /\ walk = "0110" /\ walk \in RlWalks /\ pc = "each_data" /\ Running(RlWalks) /\ Running({"0110"})
      /\ call' = call /\ start' = start /\ from' = from /\ walk' = walk
  BY DEF EachData_0110, At, RlWalks, Running, walk
<1>2. PICK x \in at :
        LET next == RL!NextDup(trees.rl, x)
        IN /\ trees' = WithoutLl(WithoutRelation(trees, x), <<x.data, x.key[2]>>)
           /\ at' = next
           /\ \/ next # {} /\ pc' = "each_data" /\ right' = right /\ label' = label
              \/ next = {} /\ Advance(right, call.right, label)
  BY DEF EachData_0110, Goto, arrays
<1> DEFINE next == RL!NextDup(trees.rl, x)
<1>3. /\ trees.rl \in SUBSET RlEntry /\ right \in Seq(Ids(call.right)) \ {<<>>}
      /\ label \in Seq(Ids(call.label)) \ {<<>>}
  BY <1>1, RlRunning
<1>4. at = {x} /\ x \in trees.rl /\ x.key[1] = Head(right) /\ x.key[2] = Head(label)
  BY <1>1 DEF IInv, RlCursor
<1>5. x \in RlEntry /\ \A y \in trees.rl \ {x} :
        y.key[1] = Head(right) /\ y.key[2] = Head(label) /\ (\E a \in at : y = a \/ a.data < y.data)
          => y.key = x.key /\ x.data < y.data
  <2>1. x \in RlEntry /\ x.key = <<x.key[1], x.key[2]>>
        /\ \A y \in trees.rl : y.key = <<y.key[1], y.key[2]>>
    BY <1>3, <1>4, RlTyped
  <2>2. QED
    BY <1>4, <2>1
<1>6. trees'.rl = trees.rl \ {x}
  BY <1>2 DEF WithoutLl, WithoutRelation
<1>7. Labels = {"set_key", "each_data"}
  BY <1>1 DEF Labels, KeyWalks, LabelWalks
<1>8. ASSUME \A y \in trees.rl \ {x} : MatchedRl(y) /\ AheadRl(y) => AheadRl(y)'
      PROVE  trees' \in Trees /\ RlContents'
  <2>1. trees' = WithoutLl(WithoutRelation(trees, x), <<x.data, x.key[2]>>)
    BY <1>2
  <2>2. QED
    BY <1>1, <1>8, <2>1, RlDeleted
<1>9. CASE next # {}
  <2>1. at' = next /\ pc' = "each_data" /\ right' = right /\ label' = label
    BY <1>2, <1>9
  <2>2. PICK m \in trees.rl : /\ next = {m} /\ m.key = x.key /\ x.data < m.data
                              /\ \A e \in trees.rl : e.key = x.key /\ x.data < e.data =>
                                                       e = m \/ m.data < e.data
    BY <1>3, <1>4, <1>9, RlNextDup
  <2>3. RlCursor'
    <3>1. m # x
      BY <1>3, <1>4, <2>2, RlOrder
    <3>2. QED
      BY <1>1, <1>4, <1>6, <2>1, <2>2, <3>1 DEF RlCursor
  <2>4. ASSUME NEW y \in trees.rl \ {x}, AheadRl(y)
        PROVE  AheadRl(y)'
    <3>1. y.key[1] = Head(right) /\ y.key[2] = Head(label) /\ (\E a \in at : y = a \/ a.data < y.data)
            => \E a \in at' : y = a \/ a.data < y.data
      BY <1>5, <2>1, <2>2
    <3>2. QED
      BY <1>1, <2>1, <2>4, <3>1, RightWalkLands
  <2>5. trees' \in Trees /\ RlContents'
    BY <1>8, <2>4
  <2>6. Rest(right, call.right)' /\ Rest(label, call.label)'
    BY <1>1, <1>3, <2>1 DEF Rest
  <2>7. QED
    BY <1>1, <1>7, <2>1, <2>3, <2>5, <2>6, RlStep
<1>10. CASE next = {}
  <2>1. Advance(right, call.right, label)
    BY <1>2, <1>10
  <2>2. /\ pc' \in {"set_key", "exit"} /\ Rest(right, call.right)' /\ Rest(label, call.label)'
        /\ RlCursor'
        /\ \A y : MatchedRl(y) /\ AheadRl(y) =>
             \/ /\ y.key[1] = Head(right) /\ y.key[2] = Head(label)
                /\ \E a \in at : y = a \/ a.data < y.data
             \/ AheadRl(y)'
    BY <1>1, <2>1, RightWalkAdvances
  <2>3. \A y \in trees.rl : y.key = x.key => ~(x.data < y.data)
    BY <1>3, <1>4, <1>10, RlNextDup
  <2>4. \A y \in trees.rl \ {x} : MatchedRl(y) /\ AheadRl(y) => AheadRl(y)'
    BY <1>5, <2>2, <2>3
  <2>5. trees' \in Trees /\ RlContents'
    BY <1>8, <2>4
  <2>6. QED
    BY <1>1, <1>7, <2>2, <2>5, RlStep
<1>11. QED
  BY <1>9, <1>10
-----------------------------------------------------------------------------
(* The walk through ll: 0010.                                              *)

LEMMA LlOrder ==
  ASSUME NEW d \in LlEntry, NEW e \in LlEntry
  PROVE  /\ d.data = e.data \/ d.data < e.data \/ e.data < d.data
         /\ ~(d.data < e.data /\ e.data < d.data) /\ ~(d.data < d.data)
         /\ d.key = e.key /\ d.data = e.data => d = e
         /\ d.key = e.key => (LL!Before(d, e) <=> d.data < e.data)
<1>1. d.data \in Nat /\ e.data \in Nat /\ d.key \in Nat /\ e.key \in Nat
  BY LlTyped
<1>2. d.key = e.key /\ d.data = e.data => d = e
  BY DEF LlEntry
<1>3. QED
  BY <1>1, <1>2 DEF LL!Before, IdBefore

LEMMA LlNextDup ==
  ASSUME NEW ll \in SUBSET LlEntry, NEW a \in ll
  PROVE  /\ LL!NextDup(ll, a) = {} => \A e \in ll : e.key = a.key => ~(a.data < e.data)
         /\ LL!NextDup(ll, a) # {} =>
              \E m \in ll : /\ LL!NextDup(ll, a) = {m} /\ m.key = a.key /\ a.data < m.data
                            /\ \A e \in ll : e.key = a.key /\ a.data < e.data =>
                                               e = m \/ m.data < e.data
<1> DEFINE S == {e \in ll : e.key = a.key /\ a.data < e.data}
<1>1. LL!NextDup(ll, a) = LL!Least(S) /\ S \in SUBSET LlEntry
  BY DEF LL!NextDup, IdBefore
<1>2. ASSUME S # {}
      PROVE  \E m \in S : LL!Least(S) = {m} /\ \A d \in S : d = m \/ m.data < d.data
  <2>1. PICK m \in S : LL!Least(S) = {m} /\ \A d \in S : d = m \/ LL!Before(m, d)
    BY <1>1, <1>2, LlLands
  <2>2. \A d \in S : d.key = m.key /\ d \in LlEntry
    BY <2>1
  <2>3. QED
    BY <2>1, <2>2, LlOrder
<1>3. S = {} => LL!Least(S) = {}
  BY <1>1, LlLands
<1>4. \A e \in ll : e \in S <=> e.key = a.key /\ a.data < e.data
  OBVIOUS
<1>5. S \subseteq ll
  OBVIOUS
<1> HIDE DEF S
<1>6. QED
  BY <1>1, <1>2, <1>3, <1>4, <1>5

LEMMA LlSetKey ==
  ASSUME NEW ll \in SUBSET LlEntry, NEW key
  PROVE  /\ LL!SetKey(ll, key) = {} <=> \A e \in ll : e.key # key
         /\ LL!SetKey(ll, key) # {} =>
              \E m \in ll : /\ LL!SetKey(ll, key) = {m} /\ m.key = key
                            /\ \A e \in ll : e.key = key => e = m \/ m.data < e.data
<1> DEFINE S == {e \in ll : e.key = key}
<1>1. LL!SetKey(ll, key) = LL!Least(S) /\ S \in SUBSET LlEntry
  BY DEF LL!SetKey
<1>2. ASSUME S # {}
      PROVE  \E m \in S : LL!Least(S) = {m} /\ \A d \in S : d = m \/ m.data < d.data
  <2>1. PICK m \in S : LL!Least(S) = {m} /\ \A d \in S : d = m \/ LL!Before(m, d)
    BY <1>1, <1>2, LlLands
  <2>2. \A d \in S : d.key = m.key /\ d \in LlEntry
    BY <2>1
  <2>3. QED
    BY <2>1, <2>2, LlOrder
<1>3. S = {} => LL!Least(S) = {}
  BY <1>1, LlLands
<1>4. QED
  BY <1>1, <1>2, <1>3

LEMMA LlRunning ==
  ASSUME IInv, Running({"0010"}), pc # "exit"
  PROVE  /\ InStep(start) /\ start.lr \in SUBSET LrEntry
         /\ trees \in Trees /\ trees.ll \in SUBSET LlEntry /\ trees.lr \in SUBSET LrEntry
         /\ from \in Label \cup {0}
         /\ label \in Seq(Ids(call.label)) \ {<<>>} /\ Head(label) \in Ids(call.label)
         /\ Tail(label) \in Seq(Ids(call.label)) /\ Range(<<>>) = {}
         /\ Labels = {"set_key", "each_data", "each_data_2"}
<1>1. label \in Seq(Ids(call.label)) \ {<<>>}
  BY DEF IInv, Control, Rest, Running
<1>2. Head(label) \in Ids(call.label) /\ Tail(label) \in Seq(Ids(call.label))
  BY <1>1, Current
<1>3. Range(<<>>) = {}
  BY DEF Range
<1>4. Labels = {"set_key", "each_data", "each_data_2"}
  BY DEF Labels, KeyWalks, LabelWalks, Running
<1>5. QED
  BY <1>1, <1>2, <1>3, <1>4 DEF IInv, Control, InStep, Trees

LEMMA LlStep ==
  ASSUME IInv, Running({"0010"}), call' = call, start' = start, from' = from,
         pc' \in Labels \cup {"exit"}, trees' \in Trees, Rest(label, call.label)',
         LlCursor', LlContents'
  PROVE  IInv'
<1>1. walk' = walk /\ walk = "0010" /\ pc # "idle" /\ pc' # "idle"
  BY DEF walk, Running, Labels, KeyWalks, LabelWalks
<1>2. Control'
  <2>1. InStep(start)'
    BY DEF IInv, Control, InStep
  <2>2. (pc \in Labels \cup {"exit"})'
    BY <1>1 DEF Labels
  <2>3. call \in Calls /\ from \in Label \cup {0}
    BY <1>1 DEF IInv, Control
  <2>4. QED
    BY <1>1, <2>1, <2>2, <2>3 DEF Control, Running, LrWalks, KeyWalks, LabelWalks, RlWalks
<1>3. LrCursor' /\ LrContents' /\ RlCursor' /\ RlContents'
  BY <1>1 DEF LrCursor, LrContents, RlCursor, RlContents, Running, LrWalks, KeyWalks, LabelWalks, RlWalks
<1>4. QED
  BY <1>2, <1>3 DEF IInv

(* The next label, when ll has nothing more of this one.                   *)
LEMMA LlNextLabel ==
  ASSUME IInv, Running({"0010"}), pc # "exit", call' = call, NextLabel
  PROVE  /\ pc' \in {"set_key", "exit"} /\ Rest(label, call.label)' /\ LlCursor'
         /\ \A x : x.key \in Range(Tail(label)) => AheadLl(x)'
<1>1. /\ label \in Seq(Ids(call.label)) \ {<<>>} /\ Tail(label) \in Seq(Ids(call.label))
      /\ Range(<<>>) = {}
  BY LlRunning
<1>2. label' = Tail(label) /\ pc' = IF Tail(label) = <<>> THEN "exit" ELSE "set_key"
  BY DEF NextLabel, Goto
<1>3. pc' \in {"set_key", "exit"} /\ Rest(label, call.label)'
  BY <1>1, <1>2 DEF Rest
<1>4. LlCursor'
  BY <1>3 DEF LlCursor
<1>5. ASSUME NEW x, x.key \in Range(Tail(label))
      PROVE  AheadLl(x)'
  <2>1. Tail(label) \in Seq(Ids(call.label)) \ {<<>>}
    BY <1>1, <1>5
  <2>2. x.key = Head(Tail(label)) \/ x.key \in Range(Tail(Tail(label)))
    <3>1. Range(Tail(label)) = {Head(Tail(label))} \cup Range(Tail(Tail(label)))
      BY <1>1, <2>1, CurrentOfRest
    <3>2. QED
      BY <1>5, <3>1
  <2>3. pc' = "set_key" /\ label' = Tail(label)
    BY <1>2, <2>1
  <2>4. QED
    BY <2>2, <2>3 DEF AheadLl
<1>6. QED
  BY <1>3, <1>4, <1>5

LEMMA SetKey_0010Inv ==
  ASSUME IInv, SetKey_0010
  PROVE  IInv'
<1> DEFINE found == LL!SetKey(trees.ll, Head(label))
<1>1. /\ walk = "0010" /\ pc = "set_key" /\ Running({"0010"})
      /\ call' = call /\ start' = start /\ from' = from /\ walk' = walk /\ trees' = trees
      /\ at' = found
  BY DEF SetKey_0010, At, Running, walk
<1>2. /\ trees \in Trees /\ trees.ll \in SUBSET LlEntry /\ label \in Seq(Ids(call.label)) \ {<<>>}
      /\ Labels = {"set_key", "each_data", "each_data_2"}
  BY <1>1, LlRunning
<1>3. \A x : MatchedLl(x)' <=> MatchedLl(x)
  BY <1>1 DEF MatchedLl
<1>4. ASSUME pc' # "each_data_2", \A x \in trees.ll : AheadLl(x) => AheadLl(x)'
      PROVE  LlContents'
  <2>1. \A e : Remains(e)' <=> Remains(e)
    BY <1>1, <1>4 DEF Remains
  <2>2. Running({"0010"})
    BY <1>1
  <2>3. QED
    BY <1>1, <1>3, <1>4, <2>1 DEF IInv, LlContents
<1>5. CASE found # {}
  <2>1. pc' = "each_data" /\ label' = label
    BY <1>1, <1>5 DEF SetKey_0010, Goto
  <2>2. PICK m \in trees.ll : /\ found = {m} /\ m.key = Head(label)
                              /\ \A e \in trees.ll : e.key = Head(label) => e = m \/ m.data < e.data
    BY <1>2, <1>5, LlSetKey
  <2>3. LlCursor'
    BY <1>1, <2>1, <2>2 DEF LlCursor
  <2>4. \A x \in trees.ll : AheadLl(x) => AheadLl(x)'
    BY <1>1, <2>1, <2>2 DEF AheadLl
  <2>5. Rest(label, call.label)'
    BY <1>1, <1>2, <2>1 DEF Rest
  <2>6. QED
    BY <1>1, <1>2, <1>4, <2>1, <2>3, <2>4, <2>5, LlStep
<1>6. CASE found = {}
  <2>1. NextLabel
    BY <1>1, <1>6 DEF SetKey_0010
  <2>2. /\ pc' \in {"set_key", "exit"} /\ Rest(label, call.label)' /\ LlCursor'
        /\ \A x : x.key \in Range(Tail(label)) => AheadLl(x)'
    BY <1>1, <2>1, LlNextLabel
  <2>3. \A x \in trees.ll : AheadLl(x) => x.key \in Range(Tail(label))
    BY <1>2, <1>6, LlSetKey DEF AheadLl
  <2>4. QED
    BY <1>1, <1>2, <1>4, <2>2, <2>3, LlStep
<1>7. QED
  BY <1>5, <1>6
(* An entry of ll belongs to the data of one key.                          *)
LEMMA LlOfIs ==
  ASSUME NEW e \in LrEntry
  PROVE  /\ \A x \in LlEntry : LlOf(e) = x <=> e.key = <<x.data, x.key>>
         /\ \A d \in LrEntry : LlOf(d) = LlOf(e) <=> d.key = e.key
<1>1. \A d \in LrEntry : d.key = <<d.key[1], d.key[2]>>
  BY LrTyped
<1>2. \A x \in LlEntry : x = Ll(x.key, x.data)
  BY LlTyped
<1>3. \A d \in LrEntry : LlOf(d).key = d.key[2] /\ LlOf(d).data = d.key[1]
  BY DEF LlOf, Ll
<1>4. \A d \in LrEntry : LlOf(d) = Ll(d.key[2], d.key[1])
  BY DEF LlOf
<1>5. \A x \in LlEntry : LlOf(e) = x <=> e.key = <<x.data, x.key>>
  BY <1>1, <1>2, <1>3, <1>4
<1>6. \A d \in LrEntry : LlOf(d) = LlOf(e) <=> d.key = e.key
  BY <1>1, <1>3, <1>4
<1>7. QED
  BY <1>5, <1>6

LEMMA EachData_0010Inv ==
  ASSUME IInv, EachData_0010
  PROVE  IInv'
<1>1. /\ walk = "0010" /\ pc = "each_data" /\ Running({"0010"})
      /\ call' = call /\ start' = start /\ from' = from /\ walk' = walk /\ trees' = trees
      /\ at' = at /\ label' = label /\ pc' = "each_data_2"
  BY DEF EachData_0010, At, Running, walk, arrays, Goto
<1>2. PICK x \in at : at2' = LR!SetKey(trees.lr, <<x.data, x.key>>)
  BY DEF EachData_0010
<1>3. /\ trees \in Trees /\ trees.ll \in SUBSET LlEntry /\ trees.lr \in SUBSET LrEntry
      /\ label \in Seq(Ids(call.label)) \ {<<>>}
      /\ Labels = {"set_key", "each_data", "each_data_2"}
  BY <1>1, LlRunning
<1>4. at = {x} /\ x \in trees.ll /\ x.key = Head(label) /\ x \in LlEntry
  BY <1>1, <1>2, <1>3 DEF IInv, LlCursor
<1>5. \A e \in trees.lr : LlOf(e) = x <=> e.key = <<x.data, x.key>>
  BY <1>3, <1>4, LlOfIs
<1>6. /\ at2' = {} \/ \E b \in trees.lr : at2' = {b} /\ LlOf(b) = x
      /\ \A e \in trees.lr : LlOf(e) = x =>
           \E b \in at2' : e = b \/ RelationDataBefore(b.data, e.data)
  <2> DEFINE key == <<x.data, x.key>>
  <2>1. /\ at2' = {} <=> \A e \in trees.lr : e.key # key
        /\ at2' # {} =>
             \E m \in trees.lr : /\ at2' = {m} /\ m.key = key
                                 /\ \A e \in trees.lr : e.key = key =>
                                      e = m \/ RelationDataBefore(m.data, e.data)
    BY <1>2, <1>3, LrSetKey, ZenonT(30)
  <2> HIDE DEF key
  <2>2. \A e \in trees.lr : LlOf(e) = x <=> e.key = key
    BY <1>5 DEF key
  <2>3. QED
    BY <2>1, <2>2
<1>7. LlCursor'
  BY <1>1, <1>4, <1>6 DEF LlCursor
<1>8. LlContents'
  <2>1. \A y : (MatchedLl(y)' <=> MatchedLl(y)) /\ (AheadLl(y)' <=> AheadLl(y))
    BY <1>1 DEF MatchedLl, AheadLl
  <2>2. \A e \in start.lr : Remains(e)' => Remains(e)
    BY <1>1 DEF Remains
  <2>3. \A e \in trees.lr : Remains(e) => Remains(e)'
    BY <1>1, <1>4, <1>6 DEF Remains
  <2>4. trees.lr = {e \in start.lr : Remains(e)}
    BY <1>1 DEF IInv, LlContents
  <2>5. trees.lr = {e \in start.lr : Remains(e)'}
    BY <2>2, <2>3, <2>4
  <2>6. QED
    BY <1>1, <2>1, <2>5 DEF IInv, LlContents
<1>9. Rest(label, call.label)'
  BY <1>1, <1>3 DEF Rest
<1>10. QED
  BY <1>1, <1>3, <1>7, <1>8, <1>9, LlStep

LEMMA EachData2_0010Inv ==
  ASSUME IInv, EachData2_0010
  PROVE  IInv'
<1>1. /\ walk = "0010" /\ pc = "each_data_2" /\ Running({"0010"})
      /\ call' = call /\ start' = start /\ from' = from /\ walk' = walk
  BY DEF EachData2_0010, At, Running, walk
<1>2. /\ trees \in Trees /\ trees.ll \in SUBSET LlEntry /\ trees.lr \in SUBSET LrEntry
      /\ InStep(start) /\ start.lr \in SUBSET LrEntry
      /\ label \in Seq(Ids(call.label)) \ {<<>>} /\ Head(label) \in Ids(call.label)
      /\ Labels = {"set_key", "each_data", "each_data_2"}
  BY <1>1, LlRunning
<1>3. PICK x \in trees.ll : at = {x} /\ x.key = Head(label)
  BY <1>1 DEF IInv, LlCursor
<1>4. at2 = {} \/ \E b \in trees.lr : at2 = {b} /\ LlOf(b) = x
  BY <1>1, <1>3 DEF IInv, LlCursor
<1>5. /\ trees.ll \subseteq start.ll
      /\ \A y \in start.ll \ trees.ll : MatchedLl(y)
      /\ \A y \in trees.ll : MatchedLl(y) => AheadLl(y)
      /\ trees.lr = {e \in start.lr : Remains(e)}
      /\ trees.rl = {RlOf(e) : e \in trees.lr}
  BY <1>1 DEF IInv, LlContents
<1>6. \A y : MatchedLl(y)' <=> MatchedLl(y)
  BY <1>1 DEF MatchedLl
<1>7. ASSUME NEW e \in at2, trees' = WithoutLr(WithoutRl(trees, e), e),
             at2' = LR!NextDup(trees.lr, e), UNCHANGED <<pc, at, label>>
      PROVE  IInv'
  <2>1. e \in trees.lr /\ e \in LrEntry /\ LlOf(e) = x /\ at2 = {e} /\ e \in start.lr
    BY <1>2, <1>4, <1>5, <1>7
  <2>2. /\ trees' \in Trees /\ trees'.lr = trees.lr \ {e} /\ trees'.rl = trees.rl \ {RlOf(e)}
        /\ trees'.ll = trees.ll
    <3> DEFINE t == WithoutRl(trees, e)
    <3>1. t \in Trees /\ t.lr = trees.lr /\ t.rl = trees.rl \ {RlOf(e)} /\ t.ll = trees.ll
      <4>1. trees \in Trees
        BY <1>2
      <4>2. QED
        BY <4>1, Without, ZenonT(30)
    <3> HIDE DEF t
    <3>2. /\ WithoutLr(t, e) \in Trees /\ WithoutLr(t, e).lr = t.lr \ {e}
          /\ WithoutLr(t, e).rl = t.rl /\ WithoutLr(t, e).ll = t.ll
      BY <3>1, Without
    <3>3. QED
      BY <1>7, <3>1, <3>2 DEF t
  <2>3. \A d \in LrEntry : LlOf(d) = x <=> d.key = e.key
    BY <2>1, LlOfIs
  <2>4. \/ /\ at2' = {}
           /\ \A d \in trees.lr : d.key = e.key => d = e \/ RelationDataBefore(d.data, e.data)
        \/ \E m \in trees.lr : /\ at2' = {m} /\ m.key = e.key
                               /\ RelationDataBefore(e.data, m.data)
                               /\ \A d \in trees.lr : d.key = e.key =>
                                    \/ d = e \/ RelationDataBefore(d.data, e.data)
                                    \/ d = m \/ RelationDataBefore(m.data, d.data)
    BY <1>2, <1>7, <2>1, LrNextDup, SMTT(20)
  <2>5. \A c, d \in LrEntry :
          /\ ~(RelationDataBefore(c.data, d.data) /\ RelationDataBefore(d.data, c.data))
          /\ ~RelationDataBefore(d.data, d.data)
          /\ \A f \in LrEntry : RelationDataBefore(c.data, d.data) /\ RelationDataBefore(d.data, f.data)
                                  => RelationDataBefore(c.data, f.data)
    BY LrOrder
  <2>6. LlCursor'
    <3>1. \A m \in trees.lr : m.key = e.key /\ RelationDataBefore(e.data, m.data)
                                => m \in trees'.lr /\ LlOf(m) = x
      BY <1>2, <2>1, <2>2, <2>3, <2>5
    <3>2. at2' = {} \/ \E m \in trees'.lr : at2' = {m} /\ LlOf(m) \in at'
      BY <1>3, <1>7, <2>4, <3>1
    <3>3. x \in trees'.ll /\ at' = {x} /\ x.key = Head(label')
      BY <1>3, <1>7, <2>2
    <3>4. QED
      BY <3>2, <3>3 DEF LlCursor
  <2>7. ASSUME NEW d \in start.lr
        PROVE  Remains(d)' <=> d \in trees'.lr
    <3>1. d \in LrEntry /\ x \in start.ll
      BY <1>2, <1>3, <1>5
    <3>2. CASE LlOf(d) # x
      <4>1. Remains(d)' <=> Remains(d)
        BY <1>1, <1>3, <1>7, <2>2, <3>2 DEF Remains
      <4>2. d # e
        BY <2>1, <3>2
      <4>3. QED
        BY <1>5, <2>2, <4>1, <4>2
    <3>3. CASE LlOf(d) = x
      <4>1. d.key = e.key
        BY <2>3, <3>1, <3>3
      <4>2. Remains(d) <=> d = e \/ RelationDataBefore(e.data, d.data)
        BY <1>1, <1>3, <2>1, <3>1, <3>3 DEF Remains
      <4>3. Remains(d)' <=> \E b \in at2' : d = b \/ RelationDataBefore(b.data, d.data)
        BY <1>1, <1>3, <1>7, <2>2, <3>1, <3>3 DEF Remains
      <4>4. d \in trees.lr <=> d = e \/ RelationDataBefore(e.data, d.data)
        BY <1>5, <4>2
      <4>5. (\E b \in at2' : d = b \/ RelationDataBefore(b.data, d.data))
              <=> RelationDataBefore(e.data, d.data)
        BY <1>2, <2>1, <2>4, <2>5, <3>1, <4>1, <4>4
      <4>6. RelationDataBefore(e.data, d.data) => d # e
        BY <2>1, <2>5
      <4>7. QED
        BY <2>2, <4>3, <4>4, <4>5, <4>6
    <3>4. QED
      BY <3>2, <3>3
  <2>8. LlContents'
    <3>1. trees'.lr = {d \in start'.lr : Remains(d)'}
      BY <1>1, <1>5, <2>2, <2>7
    <3>2. trees'.rl = {RlOf(d) : d \in trees'.lr}
      <4>1. trees.lr \in SUBSET start.lr /\ {e} \in SUBSET trees.lr
        BY <1>5, <2>1
      <4>2. {RlOf(d) : d \in trees.lr \ {e}} = {RlOf(d) : d \in trees.lr} \ {RlOf(d) : d \in {e}}
        BY <1>2, <4>1, ImagesLeft
      <4>3. QED
        BY <1>5, <2>2, <4>2
    <3>3. \A y : AheadLl(y)' <=> AheadLl(y)
      BY <1>7 DEF AheadLl
    <3>4. QED
      BY <1>1, <1>5, <1>6, <2>2, <3>1, <3>2, <3>3 DEF LlContents
  <2>9. Rest(label, call.label)' /\ pc' \in Labels
    BY <1>1, <1>2, <1>7 DEF Rest
  <2>10. QED
    BY <1>1, <2>2, <2>6, <2>8, <2>9, LlStep
<1>8. ASSUME at2 = {}, trees' = [trees EXCEPT !.ll = @ \ {x}], at' = LL!NextDup(trees.ll, x), at2' = at2,
             IF at' # {} THEN Goto("each_data") /\ UNCHANGED label ELSE NextLabel
      PROVE  IInv'
  <2>1. /\ trees' \in Trees /\ trees'.lr = trees.lr /\ trees'.rl = trees.rl
        /\ trees'.ll = trees.ll \ {x}
    BY <1>2, <1>8 DEF Trees
  <2>2. ASSUME pc' # "each_data_2", \A y \in trees.ll \ {x} : AheadLl(y) => AheadLl(y)'
        PROVE  LlContents'
    <3>1. \A d \in start.lr : Remains(d)' <=> Remains(d)
      BY <1>1, <1>3, <1>8, <2>1, <2>2 DEF Remains
    <3>2. trees'.lr = {d \in start'.lr : Remains(d)'}
      BY <1>1, <1>5, <2>1, <3>1
    <3>3. MatchedLl(x)
      BY <1>2, <1>3 DEF MatchedLl
    <3>4. QED
      BY <1>1, <1>5, <1>6, <2>1, <2>2, <3>2, <3>3 DEF LlContents
  <2>3. \A y \in trees.ll : AheadLl(y) =>
          y.key \in Range(Tail(label)) \/ (y.key = x.key /\ (y = x \/ x.data < y.data))
    BY <1>1, <1>3 DEF AheadLl
  <2>4. CASE at' # {}
    <3>1. pc' = "each_data" /\ label' = label
      BY <1>8, <2>4 DEF Goto
    <3>2. PICK m \in trees.ll : /\ at' = {m} /\ m.key = x.key /\ x.data < m.data
                                /\ \A y \in trees.ll : y.key = x.key /\ x.data < y.data =>
                                                         y = m \/ m.data < y.data
      BY <1>2, <1>8, <2>4, LlNextDup
    <3>3. m # x
      BY <1>2, <3>2, LlOrder
    <3>4. LlCursor'
      BY <1>3, <2>1, <3>1, <3>2, <3>3 DEF LlCursor
    <3>5. \A y \in trees.ll \ {x} : AheadLl(y) => AheadLl(y)'
      BY <1>3, <2>3, <3>1, <3>2 DEF AheadLl
    <3>6. Rest(label, call.label)' /\ pc' \in Labels
      BY <1>1, <1>2, <3>1 DEF Rest
    <3>7. QED
      BY <1>1, <2>1, <2>2, <3>1, <3>4, <3>5, <3>6, LlStep
  <2>5. CASE at' = {}
    <3>1. NextLabel
      BY <1>8, <2>5
    <3>2. /\ pc' \in {"set_key", "exit"} /\ Rest(label, call.label)' /\ LlCursor'
          /\ \A y : y.key \in Range(Tail(label)) => AheadLl(y)'
      BY <1>1, <3>1, LlNextLabel
    <3>3. \A y \in trees.ll : y.key = x.key => ~(x.data < y.data)
      <4>1. trees.ll \in SUBSET LlEntry /\ LL!NextDup(trees.ll, x) = {}
        BY <1>2, <1>8, <2>5
      <4>2. QED
        BY <4>1, LlNextDup
    <3>4. \A y \in trees.ll \ {x} : AheadLl(y) => AheadLl(y)'
      BY <2>3, <3>2, <3>3
    <3>5. QED
      BY <1>1, <1>2, <2>1, <2>2, <3>2, <3>4, LlStep
  <2>6. QED
    BY <2>4, <2>5
<1>9. QED
  BY <1>3, <1>7, <1>8 DEF EachData2_0010
-----------------------------------------------------------------------------
(* Every step keeps the invariant.                                         *)

LEMMA StutterInv ==
  ASSUME IInv, UNCHANGED vars
  PROVE  IInv'
<1>1. /\ trees' = trees /\ pc' = pc /\ call' = call /\ at' = at /\ at2' = at2 /\ from' = from
      /\ start' = start /\ left' = left /\ right' = right /\ label' = label /\ walk' = walk
  BY DEF vars, walk
<1>2. Control' <=> Control
  BY <1>1 DEF Control, InStep, Running, Rest, Labels
<1>3. Passed' = Passed /\ Kept' = Kept
  BY <1>1 DEF Passed, Kept, Running
<1>4. (LrCursor' <=> LrCursor) /\ (RlCursor' <=> RlCursor) /\ (LlCursor' <=> LlCursor)
  BY <1>1 DEF LrCursor, RlCursor, LlCursor, Running
<1>5. \A e : (MatchedLr(e)' <=> MatchedLr(e)) /\ (AheadLr(e)' <=> AheadLr(e))
  BY <1>1 DEF MatchedLr, AheadLr, AheadKeys, Ahead, OnOrAfter, T!InScan
<1>6. \A x : /\ MatchedRl(x)' <=> MatchedRl(x)
             /\ AheadRl(x)' <=> AheadRl(x)
             /\ MatchedLl(x)' <=> MatchedLl(x)
             /\ AheadLl(x)' <=> AheadLl(x)
             /\ Remains(x)' <=> Remains(x)
  BY <1>1 DEF MatchedRl, AheadRl, Ahead, MatchedLl, AheadLl, Remains
<1>7. LrContents'
  BY <1>1, <1>3, <1>5 DEF IInv, LrContents, Running
<1>8. RlContents' /\ LlContents'
  BY <1>1, <1>6 DEF IInv, RlContents, LlContents, Running
<1>9. QED
  BY <1>2, <1>4, <1>7, <1>8 DEF IInv

LEMMA NextInv ==
  ASSUME IInv, [Next]_vars
  PROVE  IInv'
<1>1. ASSUME Step
      PROVE  IInv'
  <2>1. CASE SetRange \/ EachKey \/ EachKey_1001_1101
    BY <2>1, SetRangeInv, EachKeyInv, EachKey_1001_1101Inv
  <2>2. CASE EachData_1000 \/ EachData_1100_1001_1101
    BY <2>2, EachData_1000Inv, EachData_1100_1001_1101Inv
  <2>3. CASE SetKey_1010_1110 \/ EachData_1010 \/ EachData_1110
    BY <2>3, SetKey_1010_1110Inv, EachData_1010Inv, EachData_1110Inv
  <2>4. CASE SetKey_1011_1111 \/ EachData_1011_1111
    BY <2>4, SetKey_1011_1111Inv, EachData_1011_1111Inv
  <2>5. CASE SetKey_0110 \/ EachData_0110 \/ SetRange_0100 \/ EachData_0100
    BY <2>5, SetKey_0110Inv, EachData_0110Inv, SetRange_0100Inv, EachData_0100Inv
  <2>6. CASE SetKey_0010 \/ EachData_0010 \/ EachData2_0010
    BY <2>6, SetKey_0010Inv, EachData_0010Inv, EachData2_0010Inv
  <2>7. CASE Return
    BY <2>7, ReturnInv
  <2>8. QED
    BY <1>1, <2>1, <2>2, <2>3, <2>4, <2>5, <2>6, <2>7 DEF Step
<1>2. QED
  BY <1>1, EnsureInv, DeleteInv, StutterInv DEF Next

THEOREM WalksInvariant == Spec => []IInv
BY InitInv, NextInv, PTL DEF Spec

(* WalkIsExact: whatever ids are given, in whatever order and however      *)
(* often, a walk comes to exit with exactly what RelationTrees leaves.     *)
THEOREM WalksAreExact == Spec => []WalkIsExact
<1>1. IInv => WalkIsExact
  BY Exit DEF WalkIsExact
<1>2. QED
  BY <1>1, WalksInvariant, PTL

(* CursorIsOnAnEntry: no deletion under the cursor, of the entry it stands *)
(* on or of others, leaves it on data that is gone when it is read again.  *)
THEOREM CursorsAreOnEntries == Spec => []CursorIsOnAnEntry
<1>1. ASSUME IInv, pc \in {"each_data", "each_data_2"}
      PROVE  \E e \in at : CASE walk \in {"0100", "0110"} -> e \in trees.rl
                             [] walk = "0010" -> e \in trees.ll
                             [] OTHER -> e \in trees.lr
  <2>1. call \in Call /\ pc # "idle" /\ pc \in Labels \cup {"exit"}
    BY <1>1, CallsAssumption DEF IInv, Control
  <2>2. walk \in LrWalks \cup RlWalks \cup {"0010", "none"}
    BY <2>1, WalkOf DEF walk
  <2>3. walk # "none" /\ (pc = "each_data_2" => walk = "0010")
    <3>1. pc \in Labels
      BY <1>1, <2>1
    <3>2. walk = "none" => Labels = {}
      BY DEF Labels, KeyWalks, LabelWalks
    <3>3. walk \in KeyWalks \cup LabelWalks \cup RlWalks => "each_data_2" \notin Labels
      BY DEF Labels, KeyWalks, LabelWalks, RlWalks
    <3>4. QED
      BY <2>2, <3>1, <3>2, <3>3 DEF LrWalks
  <2>4. CASE walk \in LrWalks
    <3>1. Running(LrWalks) /\ pc = "each_data"
      BY <1>1, <2>1, <2>3, <2>4 DEF Running, LrWalks, KeyWalks, LabelWalks
    <3>2. \E e \in at : e \in trees.lr
      BY <1>1, <3>1 DEF IInv, LrCursor
    <3>3. walk \notin {"0100", "0110"} /\ walk # "0010"
      BY <2>4 DEF LrWalks, KeyWalks, LabelWalks
    <3>4. QED
      BY <3>2, <3>3
  <2>5. CASE walk \in RlWalks
    <3>1. Running(RlWalks) /\ pc = "each_data"
      BY <1>1, <2>1, <2>3, <2>5 DEF Running, RlWalks
    <3>2. \E e \in at : e \in trees.rl
      BY <1>1, <3>1 DEF IInv, RlCursor
    <3>3. QED
      BY <2>5, <3>2 DEF RlWalks
  <2>6. CASE walk = "0010"
    <3>1. \E e \in at : e \in trees.ll
      BY <1>1, <2>1, <2>6 DEF IInv, LlCursor, Running
    <3>2. QED
      BY <2>6, <3>1
  <2>7. QED
    BY <2>2, <2>3, <2>4, <2>5, <2>6
<1>2. IInv => CursorIsOnAnEntry
  BY <1>1 DEF CursorIsOnAnEntry
<1>3. QED
  BY <1>2, WalksInvariant, PTL

(* A deletion and the walk that carries it out: RelationTrees takes its    *)
(* step when the walk returns, and sees nothing of it before.              *)
THEOREM WalksImplementTrees == Spec => T!Spec
<1> DEFINE seen == IF pc = "idle" THEN trees ELSE start
<1>1. Init => T!Init
  BY DEF Init, T!Init
<1>2. ASSUME IInv, [Next]_vars
      PROVE  [T!Next]_seen
  <2>1. CASE Return
    <3>1. pc = "exit" /\ pc' = "idle" /\ trees' = trees
      BY <2>1 DEF Return, Idle
    <3>2. call \in Calls /\ FilterOf(call) \in {FilterOf(c) : c \in Calls}
      BY <1>2, <3>1 DEF IInv, Control
    <3>3. T!Delete(FilterOf(call))
      BY <1>2, <3>1, Exit DEF T!Delete
    <3>4. QED
      BY <3>2, <3>3 DEF T!Next
  <2>2. CASE Ensure
    <3>1. PICK e \in Relations :
            trees' = T!Ensured(trees, {e.key[1]}, {e.key[2]}, {e.data[2]},
                               [x \in {<<e.key[1], e.key[2], e.data[2]>>} |-> e.data[1]])
      BY <2>2 DEF Ensure
    <3>2. pc = "idle" /\ pc' = "idle" /\ seen = trees /\ seen' = trees'
      BY <2>2 DEF Ensure
    <3>3. e.key[1] \in Left /\ e.key[2] \in Label /\ e.data[2] \in Right /\ e.data[1] \in Ordinal
      BY RelationsAssumption DEF LrEntry
    <3> DEFINE one == {e.key[1]} \X {e.key[2]} \X {e.data[2]}
               generator == [x \in one |-> e.data[1]]
    <3>4. one = {<<e.key[1], e.key[2], e.data[2]>>}
      OBVIOUS
    <3>5. generator \in [one -> Ordinal] /\ generator = [x \in {<<e.key[1], e.key[2], e.data[2]>>} |-> e.data[1]]
      BY <3>3, <3>4
    <3> HIDE DEF generator
    <3>6. T!Ensure({e.key[1]}, {e.key[2]}, {e.data[2]})
      BY <3>1, <3>2, <3>5 DEF T!Ensure
    <3>7. /\ {e.key[1]} \in T!NonEmpty(Left) /\ {e.key[2]} \in T!NonEmpty(Label)
          /\ {e.data[2]} \in T!NonEmpty(Right)
      BY <3>3 DEF T!NonEmpty
    <3>8. QED
      BY <3>6, <3>7 DEF T!Next
  <2>3. CASE \E c \in Calls : Delete(c)
    BY <2>3 DEF Delete, Goto, Entry
  <2>4. CASE UNCHANGED vars
    BY <2>4 DEF vars
  <2>5. CASE Step /\ ~Return
    <3>1. start' = start /\ pc # "idle" /\ pc' # "idle"
      BY <2>5 DEF Step, SetRange, EachKey, EachKey_1001_1101, NextLeft,
                  EachData_1000, EachData_1100_1001_1101, KeyAgain,
                  SetKey_1010_1110, EachData_1010, EachData_1110,
                  SetKey_1011_1111, EachData_1011_1111, NextLeftLabel, NextLabelLeft, Advance,
                  SetKey_0110, EachData_0110, SetRange_0100, EachData_0100,
                  SetKey_0010, EachData_0010, EachData2_0010, NextLabel, At, Goto
    <3>2. QED
      BY <3>1
  <2>6. QED
    BY <1>2, <2>1, <2>2, <2>3, <2>4, <2>5 DEF Next
<1>3. QED
  BY <1>1, <1>2, WalksInvariant, PTL DEF Spec, T!Spec
-----------------------------------------------------------------------------
(* Cursors land on entries of the tree they walk.                          *)

LEMMA LrLookups ==
  ASSUME NEW lr \in SUBSET LrEntry, NEW a, NEW key, NEW data
  PROVE  /\ LR!SetRange(lr, key) \in SUBSET LrEntry /\ LR!SetKey(lr, key) \in SUBSET LrEntry
         /\ LR!GetBothRange(lr, key, data) \in SUBSET LrEntry
         /\ LR!NextDup(lr, a) \in SUBSET LrEntry /\ LR!NextNodup(lr, a) \in SUBSET LrEntry
<1>1. \A S \in SUBSET LrEntry : LR!Least(S) \in SUBSET LrEntry
  BY LrLands
<1>2. QED
  BY <1>1 DEF LR!SetRange, LR!SetKey, LR!GetBothRange, LR!NextDup, LR!NextNodup

LEMMA RlLookups ==
  ASSUME NEW rl \in SUBSET RlEntry, NEW a, NEW key
  PROVE  /\ RL!SetRange(rl, key) \in SUBSET RlEntry /\ RL!SetKey(rl, key) \in SUBSET RlEntry
         /\ RL!NextDup(rl, a) \in SUBSET RlEntry
<1>1. \A S \in SUBSET RlEntry : RL!Least(S) \in SUBSET RlEntry
  BY RlLands
<1>2. QED
  BY <1>1 DEF RL!SetRange, RL!SetKey, RL!NextDup

LEMMA LlLookups ==
  ASSUME NEW ll \in SUBSET LlEntry, NEW a, NEW key
  PROVE  LL!SetKey(ll, key) \in SUBSET LlEntry /\ LL!NextDup(ll, a) \in SUBSET LlEntry
<1>1. \A S \in SUBSET LlEntry : LL!Least(S) \in SUBSET LlEntry
  BY LlLands
<1>2. QED
  BY <1>1 DEF LL!SetKey, LL!NextDup

CursorEntry == CASE walk \in {"0100", "0110"} -> RlEntry
                 [] walk = "0010" -> LlEntry
                 [] OTHER -> LrEntry

(* What a running walk does to its two cursors.                            *)
LEMMA CursorsLand ==
  ASSUME trees \in Trees, at \in SUBSET CursorEntry, at2 \in SUBSET LrEntry, Step, ~Return
  PROVE  /\ at' \in SUBSET CursorEntry /\ at2' \in SUBSET LrEntry
         /\ call' = call /\ pc # "idle" /\ pc' # "idle"
<1>1. trees.lr \in SUBSET LrEntry /\ trees.rl \in SUBSET RlEntry /\ trees.ll \in SUBSET LlEntry
  BY DEF Trees
<1>2. ASSUME walk \in KeyWalks
      PROVE  at' \in SUBSET LrEntry /\ at2' = at2 /\ call' = call /\ pc # "idle" /\ pc' # "idle"
  <2>1. at \in SUBSET LrEntry
    BY <1>2 DEF CursorEntry, KeyWalks
  <2>2. CASE SetRange
    BY <1>1, <2>2, LrLookups DEF SetRange, At, Goto
  <2>3. CASE EachKey
    BY <2>1, <2>3 DEF EachKey, NextLeft, At, Goto
  <2>4. CASE EachKey_1001_1101
    <3>1. /\ at2' = at2 /\ call' = call /\ pc # "idle"
          /\ \/ UNCHANGED at /\ pc' \in {"exit", "set_range"}
             \/ \E e \in at :
                  \/ /\ at' = LR!GetBothRange(trees.lr, e.key, <<ScanStart(call.ordinal.min), 0>>)
                     /\ pc' = "each_data"
                  \/ at' = LR!NextNodup(trees.lr, e) /\ pc' = "each_key"
      BY <2>4 DEF EachKey_1001_1101, NextLeft, At, Goto
    <3>2. \A e : /\ LR!GetBothRange(trees.lr, e.key, <<ScanStart(call.ordinal.min), 0>>) \in SUBSET LrEntry
                 /\ LR!NextNodup(trees.lr, e) \in SUBSET LrEntry
      BY <1>1, LrLookups
    <3>3. QED
      BY <2>1, <3>1, <3>2
  <2>5. CASE EachData_1000
    BY <1>1, <2>5, LrLookups DEF EachData_1000, At, Goto
  <2>6. CASE EachData_1100_1001_1101
    <3> DEFINE t(e) == IF RightIsIn(e) THEN WithoutLr(WithoutRl(trees, e), e) ELSE trees
    <3>1. \A e : t(e).lr \in SUBSET LrEntry
      BY <1>1 DEF WithoutLr, WithoutRl
    <3>2. \A e, lr : lr \in SUBSET LrEntry => LR!NextNodup(lr, e) \in SUBSET LrEntry
                                              /\ LR!NextDup(lr, e) \in SUBSET LrEntry
      BY LrLookups
    <3>3. PICK e \in at :
            \/ /\ at' = LR!NextDup(trees.lr, e) /\ pc' = "each_data"
            \/ KeyAgain(t(e), e)
            \/ KeyAgain(trees, e)
      BY <2>6 DEF EachData_1100_1001_1101, Goto
    <3>4. at2' = at2 /\ call' = call /\ pc # "idle"
      BY <2>6 DEF EachData_1100_1001_1101, At
    <3> HIDE DEF t
    <3>5. QED
      BY <1>1, <2>1, <3>1, <3>2, <3>3, <3>4 DEF KeyAgain, Goto
  <2>7. QED
    BY <1>2, <2>2, <2>3, <2>4, <2>5, <2>6
       DEF Step, At, KeyWalks, SetKey_1010_1110, EachData_1010, EachData_1110,
           SetKey_1011_1111, EachData_1011_1111, SetKey_0110, EachData_0110, SetRange_0100,
           EachData_0100, SetKey_0010, EachData_0010, EachData2_0010
<1>3. ASSUME walk \in LabelWalks
      PROVE  at' \in SUBSET LrEntry /\ at2' = at2 /\ call' = call /\ pc # "idle" /\ pc' # "idle"
  <2>1. CASE SetKey_1010_1110
    BY <1>1, <2>1, LrLookups DEF SetKey_1010_1110, NextLeftLabel, Advance, At, Goto
  <2>2. CASE EachData_1010
    BY <1>1, <2>2, LrLookups DEF EachData_1010, NextLeftLabel, Advance, At, Goto
  <2>3. CASE EachData_1110
    BY <1>1, <2>3, LrLookups DEF EachData_1110, NextLeftLabel, Advance, At, Goto
  <2>4. CASE SetKey_1011_1111
    BY <1>1, <2>4, LrLookups DEF SetKey_1011_1111, NextLabelLeft, Advance, At, Goto
  <2>5. CASE EachData_1011_1111
    BY <1>1, <2>5, LrLookups DEF EachData_1011_1111, NextLabelLeft, Advance, At, Goto
  <2>6. QED
    BY <1>3, <2>1, <2>2, <2>3, <2>4, <2>5
       DEF Step, At, LabelWalks, SetRange, EachKey, EachKey_1001_1101, EachData_1000,
           EachData_1100_1001_1101, SetKey_0110, EachData_0110, SetRange_0100,
           EachData_0100, SetKey_0010, EachData_0010, EachData2_0010
<1>4. ASSUME walk \in RlWalks
      PROVE  at' \in SUBSET RlEntry /\ at2' = at2 /\ call' = call /\ pc # "idle" /\ pc' # "idle"
  <2>1. CASE SetKey_0110
    BY <1>1, <2>1, RlLookups DEF SetKey_0110, Advance, At, Goto
  <2>2. CASE EachData_0110
    BY <1>1, <2>2, RlLookups DEF EachData_0110, Advance, At, Goto
  <2>3. CASE SetRange_0100
    BY <1>1, <2>3, RlLookups DEF SetRange_0100, At, Goto
  <2>4. CASE EachData_0100
    BY <1>1, <2>4, RlLookups DEF EachData_0100, At, Goto
  <2>5. QED
    BY <1>4, <2>1, <2>2, <2>3, <2>4
       DEF Step, At, RlWalks, SetRange, EachKey, EachKey_1001_1101, EachData_1000,
           EachData_1100_1001_1101, SetKey_1010_1110, EachData_1010, EachData_1110,
           SetKey_1011_1111, EachData_1011_1111, SetKey_0010, EachData_0010, EachData2_0010
<1>5. ASSUME walk = "0010"
      PROVE  /\ at' \in SUBSET LlEntry /\ at2' \in SUBSET LrEntry
             /\ call' = call /\ pc # "idle" /\ pc' # "idle"
  <2>1. at \in SUBSET LlEntry
    BY <1>5 DEF CursorEntry
  <2>2. CASE SetKey_0010
    BY <1>1, <2>2, LlLookups DEF SetKey_0010, NextLabel, At, Goto
  <2>3. CASE EachData_0010
    BY <1>1, <2>1, <2>3, LrLookups DEF EachData_0010, At, Goto
  <2>4. CASE EachData2_0010
    BY <1>1, <2>1, <2>4, LrLookups, LlLookups DEF EachData2_0010, NextLabel, At, Goto
  <2>5. QED
    BY <1>5, <2>2, <2>3, <2>4
       DEF Step, At, SetRange, EachKey, EachKey_1001_1101, EachData_1000,
           EachData_1100_1001_1101, SetKey_1010_1110, EachData_1010, EachData_1110,
           SetKey_1011_1111, EachData_1011_1111, SetKey_0110, EachData_0110, SetRange_0100,
           EachData_0100
<1>6. walk \in KeyWalks \cup LabelWalks \cup RlWalks \cup {"0010"}
  BY DEF Step, At, KeyWalks, LabelWalks, RlWalks,
         SetRange, EachKey, EachKey_1001_1101, EachData_1000,
         EachData_1100_1001_1101, SetKey_1010_1110, EachData_1010, EachData_1110,
         SetKey_1011_1111, EachData_1011_1111, SetKey_0110, EachData_0110, SetRange_0100,
         EachData_0100, SetKey_0010, EachData_0010, EachData2_0010
<1>7. QED
  BY <1>2, <1>3, <1>4, <1>5, <1>6 DEF CursorEntry, KeyWalks, LabelWalks, RlWalks

(* The trees and the cursors hold entries of their kind.                   *)
THEOREM WalksTypeCorrect == Spec => []TypeOK
<1> DEFINE Inv == IInv /\ TypeOK
<1>1. Init => TypeOK
  BY DEF Init, TypeOK, Trees
<1>2. ASSUME Inv, IInv', [Next]_vars
      PROVE  TypeOK'
  <2>1. trees' \in Trees /\ start' \in Trees /\ from' \in Label \cup {0}
    BY <1>2 DEF IInv, Control, InStep
  <2>2. CASE Step /\ ~Return
    <3>1. trees \in Trees /\ at2 \in SUBSET LrEntry /\ at \in SUBSET CursorEntry
      BY <1>2 DEF TypeOK, CursorEntry
    <3>2. /\ at' \in SUBSET CursorEntry /\ at2' \in SUBSET LrEntry
          /\ call' = call /\ pc' # "idle"
      BY <2>2, <3>1, CursorsLand
    <3>3. CursorEntry' = CursorEntry
      BY <3>2 DEF CursorEntry, walk
    <3>4. QED
      BY <2>1, <3>2, <3>3 DEF TypeOK, CursorEntry
  <2>3. CASE Return
    BY <2>1, <2>3 DEF Return, Idle, TypeOK
  <2>4. CASE Ensure
    BY <1>2, <2>1, <2>4 DEF Ensure, TypeOK
  <2>5. CASE \E c \in Calls : Delete(c)
    <3>1. at = {} /\ at2 = {} /\ at' = at /\ at2' = at2
      BY <1>2, <2>5 DEF Delete, IInv, Control
    <3>2. QED
      BY <2>1, <3>1 DEF TypeOK
  <2>6. CASE UNCHANGED vars
    BY <1>2, <2>6 DEF vars, TypeOK, walk
  <2>7. QED
    BY <1>2, <2>2, <2>3, <2>4, <2>5, <2>6 DEF Next
<1>3. QED
  BY <1>1, <1>2, WalksInvariant, PTL DEF Spec
=============================================================================
