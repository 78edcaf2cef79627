-------------------------- MODULE RelationReadProofs --------------------------
(***************************************************************************)
(* That every reader reads each match once and misses none, however the    *)
(* reading is divided into calls, for any ids, ordinals, relations and     *)
(* selections that are Sound.                                              *)
(*                                                                         *)
(* The inductive invariant says which matches are still to come from where *)
(* the cursors and the id arrays stand, at every label and between calls:  *)
(* they are the ones that have not been seen.                              *)
(***************************************************************************)
EXTENDS RelationRead, WellFoundedInduction, NaturalsInduction, TLAPS

SoundCalls == \A c \in Calls : Sound(c)

(* What the readers walk: lr, or rl, where an entry of lr has its own.     *)
Tree == IF reader \in OverRl THEN trees.rl ELSE trees.lr
Place(e) == IF reader \in OverRl THEN RlOf(e) ELSE e
DataBefore(c, d) == IF reader \in OverRl THEN IdBefore(c, d) ELSE RelationDataBefore(c, d)
Before(x, y) == RelationKeyBefore(x.key, y.key) \/ (x.key = y.key /\ DataBefore(x.data, y.data))
FirstOfKey(a) == \A x \in Tree : x.key = a.key => x = a \/ DataBefore(a.data, x.data)
FirstOfLr(d) == \A e \in trees.lr : e = d \/ LR!Before(d, e)

Relation(e) == <<e.key[1], e.key[2], e.data[2]>>
Selected(e) ==
  /\ Selects(Ids(call.left), e.key[1])
  /\ Selects(Ids(call.label), e.key[2])
  /\ Selects(Ids(call.right), e.data[2])
  /\ call.ordinal # Null => /\ call.ordinal.min <= e.data[1]
                            /\ call.ordinal.max = 0 \/ e.data[1] <= call.ordinal.max
-----------------------------------------------------------------------------
(* What is still to come of a match.                                       *)
OnOrAfter(e) == \E a \in at : Place(e) = a \/ Before(a, Place(e))

(* The ids whose ranges are walked, outermost.                             *)
Queue == IF reader \in OverRl THEN right ELSE left
BetweenCalls == pc \in {"open", "resume"}

InRange == \/ pc \in {"each_key", "each_data", "each_left"}
           \/ BetweenCalls /\ \E a \in at : InCurrentRange(a)
ComingInRange(e) ==
  \/ reader = "0000" /\ OnOrAfter(e)
  \/ reader # "0000" /\ Place(e).key[1] \in Range(Tail(Queue))
  \/ reader # "0000" /\ Place(e).key[1] = Head(Queue) /\ (InRange => OnOrAfter(e))

ComingByLeft(e) ==
  \/ e.data[2] \in Range(Tail(right))
  \/ /\ e.data[2] = Head(right)
     /\ InRange => \E a \in at : \/ RelationKeyBefore(a.key, Place(e).key)
                                 \/ a.key = Place(e).key /\ e.key[1] \in Range(left)

Inner == IF reader = "0110" THEN right ELSE left
OnKey == pc = "each_data" \/ (BetweenCalls /\ \E a \in at : a.key = CurrentKey)
ComingAtKey(e) ==
  \/ e.key[2] \in Range(Tail(label))
  \/ /\ e.key[2] = Head(label)
     /\ \/ Place(e).key[1] \in Range(Tail(Inner))
        \/ Place(e).key[1] = Head(Inner) /\ (OnKey => OnOrAfter(e))

ComingOfQuery(e) ==
  \/ e.key[2] \in Range(Tail(label))
  \/ /\ e.key[2] = Head(label)
     /\ \/ e.key[1] \in Range(Tail(left))
        \/ e.key[1] = Head(left) /\ e.data[2] \in Range(right)

OnLabel == \/ pc \in {"each_label_data", "each_left_data"}
           \/ BetweenCalls /\ \E x \in at : x.key = Head(label)
ComingOfLabel(e) ==
  \/ e.key[2] \in Range(Tail(label))
  \/ /\ e.key[2] = Head(label)
     /\ OnLabel => \E x \in at :
          \/ x.data < e.key[1]
          \/ /\ x.data = e.key[1]
             /\ \A d \in at2 : d.key[1] = x.data => e = d \/ RelationDataBefore(d.data, e.data)

Coming(e) ==
  /\ pc # "end"
  /\ \/ reader \in RangeReaders /\ ComingInRange(e)
     \/ reader = "1100" /\ ComingByLeft(e)
     \/ reader \in KeyReaders /\ ComingAtKey(e)
     \/ reader = "1110" /\ ComingOfQuery(e)
     \/ reader = "0010" /\ ComingOfLabel(e)
-----------------------------------------------------------------------------
(* The inductive invariant.                                                *)
Labels == CASE reader = "0000" -> {"resume", "each_key", "each_data"}
            [] reader \in RangeReaders \ {"0000"} -> {"resume", "set_range", "each_key", "each_data"}
            [] reader = "1100" -> {"resume", "set_range", "each_key", "each_left"}
            [] reader \in KeyReaders -> {"resume", "set_key", "each_data"}
            [] reader = "1110" -> {"resume", "set_cursor"}
            [] reader = "0010" -> {"resume", "set_label_key", "each_label_data", "each_left_data"}
Control ==
  /\ trees.lr \subseteq Relations /\ trees = Stored(trees.lr)
  /\ call \in Calls
  /\ pc \in Labels \cup {"closed", "open", "end"}
  /\ pc = "closed" => seen = <<>>

Running == pc \notin {"closed", "end"}
Rest(array, given) == array \in Seq(Ids(given)) \ {<<>>} /\ IsInjective(array)
Arrays ==
  Running =>
    /\ reader \notin {"0000", "0100", "0110", "0010"} => Rest(left, call.left)
    /\ reader \in OverRl => Rest(right, call.right)
    /\ reader \in KeyReaders \cup {"1110", "0010"} => Rest(label, call.label)
    /\ reader = "0010" => OneLabelEach \/ label = call.label
    /\ reader = "1100" => left = call.left \/ (InRange /\ pc # "each_key")

Places ==
  /\ reader \in RangeReaders \cup {"1100"} =>
       /\ BetweenCalls => \E a \in Tree : at = {a}
       /\ pc \in {"each_data", "each_left"} => \E a \in Tree : at = {a} /\ InCurrentRange(a)
       /\ pc = "each_key" =>
            at = {} \/ \E a \in Tree : /\ at = {a} /\ FirstOfKey(a)
                                       /\ reader # "0000" => Head(Queue) <= a.key[1]
  /\ reader \in KeyReaders =>
       /\ BetweenCalls => \E a \in Tree : at = {a}
       /\ pc = "each_data" => \E a \in Tree : at = {a} /\ a.key = CurrentKey
  /\ reader = "0010" /\ Running =>
       \E d \in trees.lr :
         /\ at2 = {d}
         /\ BetweenCalls => \E x \in trees.ll : at = {x}
         /\ OnLabel => \E x \in trees.ll :
              /\ at = {x} /\ x.key = Head(label)
              /\ d.key[1] = x.data => d.key[2] = Head(label)
              /\ pc = "each_left_data" => d.key[1] = x.data
         /\ ~OnLabel => FirstOfLr(d) \/ (OneLabelEach /\ d.key[2] \notin Range(label))

Seen ==
  /\ seen \in Seq(Left \X Label \X Right)
  /\ Range(seen) \subseteq Matches
  /\ \A i, j \in DOMAIN seen : seen[i] = seen[j] => i = j
  /\ pc # "closed" =>
       \A e \in trees.lr : Selected(e) => (Relation(e) \in Range(seen) <=> ~Coming(e))

ReadInv == Control /\ Arrays /\ Places /\ Seen
-----------------------------------------------------------------------------
(* The orders of the trees, and the arrays.                                *)

LEMMA LeastNumber ==
  ASSUME NEW S, S # {}, NEW f \in [S -> Nat]
  PROVE  \E m \in S : \A d \in S : f[m] <= f[d]
<1> DEFINE values == {f[d] : d \in S}
<1>1. values \in SUBSET Nat /\ values # {}
  OBVIOUS
<1> HIDE DEF values
<1>2. PICK n \in values : \A k \in values : <<k, n>> \notin OpToRel(<, Nat)
  BY <1>1, WFMin, NatLessThanWellFounded, Zenon
<1>3. \A k \in values : ~(k < n)
  BY <1>1, <1>2, Zenon DEF OpToRel
<1>4. \A k \in values : n <= k
  BY <1>1, <1>3
<1>5. QED
  BY <1>4 DEF values

LEMMA LrTyped ==
  ASSUME NEW e \in LrEntry
  PROVE  /\ e.key[1] \in Nat /\ e.key[2] \in Nat /\ e.data[1] \in Nat /\ e.data[2] \in Nat
         /\ e.key[1] \in Left /\ e.key[2] \in Label /\ e.data[2] \in Right
         /\ e = Lr(e.key[1], e.key[2], e.data[1], e.data[2])
         /\ e.key = <<e.key[1], e.key[2]>> /\ e.data = <<e.data[1], e.data[2]>>
<1>1. e.key[1] \in Left /\ e.key[2] \in Label /\ e.data[1] \in Ordinal /\ e.data[2] \in Right
      /\ e.key = <<e.key[1], e.key[2]>> /\ e.data = <<e.data[1], e.data[2]>>
  BY DEF LrEntry
<1>2. e = Lr(e.key[1], e.key[2], e.data[1], e.data[2])
  BY <1>1 DEF LrEntry, Lr
<1>3. QED
  BY <1>1, <1>2, IdsAssumption, OrdinalAssumption

LEMMA RlTyped ==
  ASSUME NEW x \in RlEntry
  PROVE  /\ x.key[1] \in Nat /\ x.key[2] \in Nat /\ x.data \in Nat
         /\ x.key[1] \in Right /\ x.key[2] \in Label /\ x.data \in Left
         /\ x = Rl(x.key[1], x.key[2], x.data) /\ x.key = <<x.key[1], x.key[2]>>
BY IdsAssumption DEF RlEntry, Rl

LEMMA LlTyped ==
  ASSUME NEW x \in LlEntry
  PROVE  x.key \in Nat /\ x.data \in Nat /\ x.key \in Label /\ x.data \in Left
         /\ x = Ll(x.key, x.data)
BY IdsAssumption DEF LlEntry, Ll

(* A lookup lands on the first of the entries it is about, if there is one.*)
LEMMA LrLands ==
  ASSUME NEW S \in SUBSET LrEntry
  PROVE  /\ S = {} => LR!Least(S) = {}
         /\ S # {} => \E m \in S : LR!Least(S) = {m} /\ \A d \in S : d = m \/ LR!Before(m, d)
<1>1. ASSUME S # {}
      PROVE  \E m \in S : \A d \in S : d = m \/ LR!Before(m, d)
  <2>1. \A d \in S : /\ d.key[1] \in Nat /\ d.key[2] \in Nat
                     /\ d.data[1] \in Nat /\ d.data[2] \in Nat
                     /\ d.key = <<d.key[1], d.key[2]>> /\ d.data = <<d.data[1], d.data[2]>>
                     /\ d = Lr(d.key[1], d.key[2], d.data[1], d.data[2])
    BY LrTyped
  <2>2. PICK m1 \in S : \A d \in S : m1.key[1] <= d.key[1]
    <3> DEFINE f == [d \in S |-> d.key[1]]
    <3>1. f \in [S -> Nat]
      BY <2>1
    <3>2. \E m \in S : \A d \in S : f[m] <= f[d]
      BY <1>1, <3>1, LeastNumber
    <3>3. QED
      BY <3>2
  <2> DEFINE S1 == {d \in S : d.key[1] = m1.key[1]}
  <2>3. PICK m2 \in S1 : \A d \in S1 : m2.key[2] <= d.key[2]
    <3> DEFINE f == [d \in S1 |-> d.key[2]]
    <3>1. f \in [S1 -> Nat] /\ S1 # {}
      BY <2>1
    <3>2. \E m \in S1 : \A d \in S1 : f[m] <= f[d]
      BY <3>1, LeastNumber
    <3>3. QED
      BY <3>2
  <2> DEFINE S2 == {d \in S1 : d.key[2] = m2.key[2]}
  <2>4. PICK m3 \in S2 : \A d \in S2 : m3.data[1] <= d.data[1]
    <3> DEFINE f == [d \in S2 |-> d.data[1]]
    <3>1. f \in [S2 -> Nat] /\ S2 # {}
      BY <2>1
    <3>2. \E m \in S2 : \A d \in S2 : f[m] <= f[d]
      BY <3>1, LeastNumber
    <3>3. QED
      BY <3>2
  <2> DEFINE S3 == {d \in S2 : d.data[1] = m3.data[1]}
  <2>5. PICK m \in S3 : \A d \in S3 : m.data[2] <= d.data[2]
    <3> DEFINE f == [d \in S3 |-> d.data[2]]
    <3>1. f \in [S3 -> Nat] /\ S3 # {} /\ \A d \in S3 : f[d] = d.data[2]
      BY <2>1
    <3> HIDE DEF f, S3
    <3>2. \E n \in S3 : \A d \in S3 : f[n] <= f[d]
      BY <3>1, LeastNumber
    <3>3. QED
      BY <3>1, <3>2
  <2>6. ASSUME NEW d \in S
        PROVE  d = m \/ LR!Before(m, d)
    <3>1. m.key[1] <= d.key[1] /\ (d.key[1] = m.key[1] => m.key[2] <= d.key[2])
      BY <2>2, <2>3, <2>4, <2>5
    <3>2. d.key = m.key => m.data[1] <= d.data[1]
      BY <2>3, <2>4, <2>5
    <3>3. d.key = m.key /\ d.data[1] = m.data[1] => m.data[2] <= d.data[2]
      BY <2>3, <2>4, <2>5
    <3> HIDE DEF S1, S2, S3
    <3>4. m \in S
      BY <2>5 DEF S1, S2, S3
    <3>5. QED
      BY <2>1, <3>1, <3>2, <3>3, <3>4 DEF LR!Before, RelationKeyBefore, RelationDataBefore, Lr
  <2>7. QED
    BY <2>6
<1>2. \A m, n \in S : LR!Before(m, n) => ~LR!Before(n, m) /\ m # n
  BY LrTyped DEF LR!Before, RelationKeyBefore, RelationDataBefore
<1>3. QED
  BY <1>1, <1>2 DEF LR!Least

LEMMA RlLands ==
  ASSUME NEW S \in SUBSET RlEntry
  PROVE  /\ S = {} => RL!Least(S) = {}
         /\ S # {} => \E m \in S : RL!Least(S) = {m} /\ \A d \in S : d = m \/ RL!Before(m, d)
<1>1. ASSUME S # {}
      PROVE  \E m \in S : \A d \in S : d = m \/ RL!Before(m, d)
  <2>1. \A d \in S : /\ d.key[1] \in Nat /\ d.key[2] \in Nat /\ d.data \in Nat
                     /\ d.key = <<d.key[1], d.key[2]>> /\ d = Rl(d.key[1], d.key[2], d.data)
    BY RlTyped
  <2>2. PICK m1 \in S : \A d \in S : m1.key[1] <= d.key[1]
    <3> DEFINE f == [d \in S |-> d.key[1]]
    <3>1. f \in [S -> Nat]
      BY <2>1
    <3>2. \E m \in S : \A d \in S : f[m] <= f[d]
      BY <1>1, <3>1, LeastNumber
    <3>3. QED
      BY <3>2
  <2> DEFINE S1 == {d \in S : d.key[1] = m1.key[1]}
  <2>3. PICK m2 \in S1 : \A d \in S1 : m2.key[2] <= d.key[2]
    <3> DEFINE f == [d \in S1 |-> d.key[2]]
    <3>1. f \in [S1 -> Nat] /\ S1 # {}
      BY <2>1
    <3>2. \E m \in S1 : \A d \in S1 : f[m] <= f[d]
      BY <3>1, LeastNumber
    <3>3. QED
      BY <3>2
  <2> DEFINE S2 == {d \in S1 : d.key[2] = m2.key[2]}
  <2>4. PICK m \in S2 : \A d \in S2 : m.data <= d.data
    <3> DEFINE f == [d \in S2 |-> d.data]
    <3>1. f \in [S2 -> Nat] /\ S2 # {}
      BY <2>1
    <3>2. \E n \in S2 : \A d \in S2 : f[n] <= f[d]
      BY <3>1, LeastNumber
    <3>3. QED
      BY <3>2
  <2>5. ASSUME NEW d \in S
        PROVE  d = m \/ RL!Before(m, d)
    <3>1. m.key[1] <= d.key[1] /\ (d.key[1] = m.key[1] => m.key[2] <= d.key[2])
      BY <2>2, <2>3, <2>4
    <3>2. d.key = m.key => m.data <= d.data
      BY <2>3, <2>4
    <3> HIDE DEF S1, S2
    <3>3. m \in S
      BY <2>4 DEF S1, S2
    <3>4. QED
      BY <2>1, <3>1, <3>2, <3>3 DEF RL!Before, RelationKeyBefore, IdBefore, Rl
  <2>6. QED
    BY <2>5
<1>2. \A m, n \in S : RL!Before(m, n) => ~RL!Before(n, m) /\ m # n
  BY RlTyped DEF RL!Before, RelationKeyBefore, IdBefore
<1>3. QED
  BY <1>1, <1>2 DEF RL!Least

LEMMA LlLands ==
  ASSUME NEW S \in SUBSET LlEntry
  PROVE  /\ S = {} => LL!Least(S) = {}
         /\ S # {} => \E m \in S : LL!Least(S) = {m} /\ \A d \in S : d = m \/ LL!Before(m, d)
<1>1. ASSUME S # {}
      PROVE  \E m \in S : \A d \in S : d = m \/ LL!Before(m, d)
  <2>1. \A d \in S : d.key \in Nat /\ d.data \in Nat /\ d = Ll(d.key, d.data)
    BY LlTyped
  <2>2. PICK m1 \in S : \A d \in S : m1.key <= d.key
    <3> DEFINE f == [d \in S |-> d.key]
    <3>1. f \in [S -> Nat]
      BY <2>1
    <3>2. \E m \in S : \A d \in S : f[m] <= f[d]
      BY <1>1, <3>1, LeastNumber
    <3>3. QED
      BY <3>2
  <2> DEFINE S1 == {d \in S : d.key = m1.key}
  <2>3. PICK m \in S1 : \A d \in S1 : m.data <= d.data
    <3> DEFINE f == [d \in S1 |-> d.data]
    <3>1. f \in [S1 -> Nat] /\ S1 # {}
      BY <2>1
    <3>2. \E n \in S1 : \A d \in S1 : f[n] <= f[d]
      BY <3>1, LeastNumber
    <3>3. QED
      BY <3>2
  <2>4. ASSUME NEW d \in S
        PROVE  d = m \/ LL!Before(m, d)
    BY <2>1, <2>2, <2>3 DEF LL!Before, IdBefore, Ll
  <2>5. QED
    BY <2>4
<1>2. \A m, n \in S : LL!Before(m, n) => ~LL!Before(n, m) /\ m # n
  BY LlTyped DEF LL!Before, IdBefore
<1>3. QED
  BY <1>1, <1>2 DEF LL!Least

(* The arrays: the current id and those that follow it.                    *)
LEMMA Current ==
  ASSUME NEW S, NEW array \in Seq(S) \ {<<>>}
  PROVE  /\ Head(array) \in S /\ Tail(array) \in Seq(S)
         /\ Range(array) = {Head(array)} \cup Range(Tail(array)) /\ Range(array) \subseteq S
<1>1. /\ Len(array) \in Nat \ {0} /\ Head(array) = array[1] /\ DOMAIN array = 1 .. Len(array)
      /\ Tail(array) \in Seq(S) /\ DOMAIN Tail(array) = 1 .. Len(array) - 1
      /\ \A i \in 1 .. Len(array) - 1 : Tail(array)[i] = array[i + 1]
      /\ \A i \in 1 .. Len(array) : array[i] \in S
  OBVIOUS
<1>2. \A i \in 1 .. Len(array) : i = 1 \/ (i - 1 \in 1 .. Len(array) - 1 /\ (i - 1) + 1 = i)
  BY <1>1
<1>3. \A i \in 1 .. Len(array) - 1 : i + 1 \in 1 .. Len(array)
  BY <1>1
<1>4. 1 \in 1 .. Len(array)
  BY <1>1
<1> DEFINE t == Tail(array)
<1>5. Range(array) = {array[1]} \cup {t[i] : i \in 1 .. Len(array) - 1}
  <2> HIDE DEF t
  <2>1. \A i \in 1 .. Len(array) : i = 1 \/ (i - 1 \in 1 .. Len(array) - 1 /\ array[i] = t[i - 1])
    BY <1>1, <1>2 DEF t
  <2>2. \A i \in 1 .. Len(array) - 1 : i + 1 \in 1 .. Len(array) /\ t[i] = array[i + 1]
    BY <1>1, <1>3 DEF t
  <2>3. Range(array) = {array[i] : i \in 1 .. Len(array)}
    BY <1>1 DEF Range
  <2>4. QED
    BY <1>4, <2>1, <2>2, <2>3
<1>6. Range(t) = {t[i] : i \in 1 .. Len(array) - 1}
  BY <1>1 DEF Range
<1>7. Range(array) \subseteq S
  BY <1>1 DEF Range
<1>8. QED
  BY <1>1, <1>4, <1>5, <1>6, <1>7

LEMMA CurrentOfRest ==
  ASSUME NEW S, NEW array \in Seq(S) \ {<<>>}, Tail(array) # <<>>
  PROVE  Range(Tail(array)) = {Head(Tail(array))} \cup Range(Tail(Tail(array)))
<1>1. Tail(array) \in Seq(S)
  BY Current
<1>2. QED
  BY <1>1, Current

LEMMA Given ==
  ASSUME NEW c \in Call
  PROVE  /\ c.left # Null => Ids(c.left) \in SUBSET Left /\ c.left \in Seq(Ids(c.left)) \ {<<>>}
         /\ c.label # Null => Ids(c.label) \in SUBSET Label /\ c.label \in Seq(Ids(c.label)) \ {<<>>}
         /\ c.right # Null => Ids(c.right) \in SUBSET Right /\ c.right \in Seq(Ids(c.right)) \ {<<>>}
         /\ c.left = Null <=> Ids(c.left) = Null
         /\ c.label = Null <=> Ids(c.label) = Null
         /\ c.right = Null <=> Ids(c.right) = Null
         /\ c.ordinal # Null => c.ordinal \in OrdinalCondition
<1>1. ASSUME NEW S, NEW array \in ArrayOf(S)
      PROVE  Range(array) \in SUBSET S /\ array \in Seq(Range(array)) \ {<<>>}
  <2> DEFINE n == Len(array)
  <2>1. n \in Nat \ {0} /\ array \in [1 .. n -> S] /\ array # <<>>
    BY DEF ArrayOf
  <2> HIDE DEF n
  <2>2. \A i \in 1 .. n : array[i] \in Range(array) /\ array[i] \in S
    BY <2>1 DEF Range
  <2>3. array \in [1 .. n -> Range(array)]
    BY <2>1, <2>2
  <2>4. array \in Seq(Range(array))
    BY <2>1, <2>3
  <2>5. QED
    BY <2>1, <2>2, <2>4 DEF Range
<1>2. /\ c.left # Null => c.left \in ArrayOf(Left)
      /\ c.label # Null => c.label \in ArrayOf(Label)
      /\ c.right # Null => c.right \in ArrayOf(Right)
      /\ c.ordinal # Null => c.ordinal \in OrdinalCondition
  BY DEF Call
<1>3. \A S \in SUBSET (Left \cup Label \cup Right) : S # Null
  BY NullAssumption
<1>4. QED
  BY <1>1, <1>2, <1>3 DEF Ids
-----------------------------------------------------------------------------
(* The trees do not change, and say the same.                              *)
LEMMA TreesAgree ==
  ASSUME Control
  PROVE  /\ trees.lr \in SUBSET LrEntry /\ trees.lr \subseteq Relations /\ Unique(trees.lr)
         /\ trees.rl = {RlOf(e) : e \in trees.lr} /\ trees.rl \in SUBSET RlEntry
         /\ trees.ll = {LlOf(e) : e \in trees.lr} /\ trees.ll \in SUBSET LlEntry
         /\ call \in Call
<1>1. trees.lr \in SUBSET LrEntry /\ Unique(trees.lr) /\ trees.lr \subseteq Relations
  BY RelationsAssumption DEF Control, Unique
<1>2. trees.rl = {RlOf(e) : e \in trees.lr} /\ trees.ll = {LlOf(e) : e \in trees.lr}
  BY DEF Control, Stored
<1>3. \A e \in LrEntry : RlOf(e) \in RlEntry /\ LlOf(e) \in LlEntry
  BY LrTyped DEF RlOf, LlOf, Rl, Ll, RlEntry, LlEntry
<1>4. call \in Call
  BY CallsAssumption DEF Control
<1>5. QED
  BY <1>1, <1>2, <1>3, <1>4

LEMMA TreeTyped ==
  ASSUME Control
  PROVE  /\ \A x \in Tree : x.key[1] \in Nat /\ x.key[2] \in Nat /\ x.key = <<x.key[1], x.key[2]>>
         /\ \A x, y \in Tree : x.key = y.key /\ x.data = y.data => x = y
         /\ \A e \in trees.lr : Place(e) \in Tree
         /\ \A x \in Tree : \E e \in trees.lr : x = Place(e)
         /\ \A e \in trees.lr : Place(e).key[2] = e.key[2]
         /\ \A e \in trees.lr : Place(e).key[1] = IF reader \in OverRl THEN e.data[2] ELSE e.key[1]
         /\ \A d, e \in trees.lr : Place(d) = Place(e) => d = e
<1>1. \A e \in trees.lr : e \in LrEntry /\ RlOf(e) \in RlEntry /\ RlOf(e) \in trees.rl
  BY TreesAgree
<1>2. \A d, e \in trees.lr : RlOf(d) = RlOf(e) => d = e
  <2>1. SUFFICES ASSUME NEW d \in trees.lr, NEW e \in trees.lr, RlOf(d) = RlOf(e) PROVE d = e
    OBVIOUS
  <2>2. d.key[1] = e.key[1] /\ d.key[2] = e.key[2] /\ d.data[2] = e.data[2]
    BY <2>1 DEF RlOf, Rl
  <2>3. d.key = e.key
    BY <1>1, <2>2, LrTyped
  <2>4. QED
    BY <2>2, <2>3, TreesAgree DEF Unique
<1>3. CASE reader \in OverRl
  <2>1. Tree = trees.rl /\ \A e \in trees.lr : Place(e) = RlOf(e)
    BY <1>3 DEF Tree, Place
  <2>2. \A x \in trees.rl : x \in RlEntry
    BY TreesAgree
  <2>3. \A x \in trees.rl : x.key[1] \in Nat /\ x.key[2] \in Nat /\ x.key = <<x.key[1], x.key[2]>>
                            /\ x = Rl(x.key[1], x.key[2], x.data)
    BY <2>2, RlTyped
  <2>4. \A x, y \in trees.rl : x.key = y.key /\ x.data = y.data => x = y
    BY <2>3 DEF Rl
  <2>5. \A x \in trees.rl : \E e \in trees.lr : x = RlOf(e)
    BY TreesAgree
  <2>6. \A e \in trees.lr : RlOf(e).key[2] = e.key[2] /\ RlOf(e).key[1] = e.data[2]
    BY DEF RlOf, Rl
  <2>7. QED
    BY <1>1, <1>2, <1>3, <2>1, <2>3, <2>4, <2>5, <2>6
<1>4. CASE reader \notin OverRl
  <2>1. Tree = trees.lr /\ \A e \in trees.lr : Place(e) = e
    BY <1>4 DEF Tree, Place
  <2>2. \A x \in trees.lr : x.key[1] \in Nat /\ x.key[2] \in Nat /\ x.key = <<x.key[1], x.key[2]>>
                            /\ x = Lr(x.key[1], x.key[2], x.data[1], x.data[2])
    BY <1>1, LrTyped
  <2>3. \A x, y \in trees.lr : x.key = y.key /\ x.data = y.data => x = y
    BY <2>2 DEF Lr
  <2>4. QED
    BY <1>4, <2>1, <2>2, <2>3
<1>5. QED
  BY <1>3, <1>4

LEMMA KeyOrder ==
  ASSUME Control, NEW x \in Tree, NEW y \in Tree
  PROVE  /\ ~RelationKeyBefore(x.key, x.key)
         /\ RelationKeyBefore(x.key, y.key) => x.key # y.key /\ ~RelationKeyBefore(y.key, x.key)
         /\ x.key = y.key \/ RelationKeyBefore(x.key, y.key) \/ RelationKeyBefore(y.key, x.key)
         /\ RelationKeyBefore(x.key, y.key) => x.key[1] <= y.key[1]
<1>1. /\ x.key[1] \in Nat /\ x.key[2] \in Nat /\ x.key = <<x.key[1], x.key[2]>>
      /\ y.key[1] \in Nat /\ y.key[2] \in Nat /\ y.key = <<y.key[1], y.key[2]>>
  BY TreeTyped
<1>2. QED
  BY <1>1 DEF RelationKeyBefore

LEMMA KeyOrderTransitive ==
  ASSUME Control, NEW x \in Tree, NEW y \in Tree, NEW z \in Tree,
         RelationKeyBefore(x.key, y.key), RelationKeyBefore(y.key, z.key)
  PROVE  RelationKeyBefore(x.key, z.key)
<1>1. /\ x.key[1] \in Nat /\ x.key[2] \in Nat /\ y.key[1] \in Nat /\ y.key[2] \in Nat
      /\ z.key[1] \in Nat /\ z.key[2] \in Nat
  BY TreeTyped
<1>2. QED
  BY <1>1 DEF RelationKeyBefore

LEMMA DataOrder ==
  ASSUME Control, NEW x \in Tree, NEW y \in Tree, NEW z \in Tree
  PROVE  /\ ~DataBefore(x.data, x.data)
         /\ DataBefore(x.data, y.data) => ~DataBefore(y.data, x.data)
         /\ x.data = y.data \/ DataBefore(x.data, y.data) \/ DataBefore(y.data, x.data)
         /\ DataBefore(x.data, y.data) /\ DataBefore(y.data, z.data) => DataBefore(x.data, z.data)
<1>1. CASE reader \in OverRl
  <2>1. x \in RlEntry /\ y \in RlEntry /\ z \in RlEntry
    BY <1>1, TreesAgree DEF Tree
  <2>2. x.data \in Nat /\ y.data \in Nat /\ z.data \in Nat
    BY <2>1, RlTyped
  <2>3. QED
    BY <1>1, <2>2 DEF DataBefore, IdBefore
<1>2. CASE reader \notin OverRl
  <2>1. x \in LrEntry /\ y \in LrEntry /\ z \in LrEntry
    BY <1>2, TreesAgree DEF Tree
  <2>2. /\ x.data[1] \in Nat /\ x.data[2] \in Nat /\ x.data = <<x.data[1], x.data[2]>>
        /\ y.data[1] \in Nat /\ y.data[2] \in Nat /\ y.data = <<y.data[1], y.data[2]>>
        /\ z.data[1] \in Nat /\ z.data[2] \in Nat
    BY <2>1, LrTyped
  <2>3. QED
    BY <1>2, <2>2 DEF DataBefore, RelationDataBefore
<1>3. QED
  BY <1>1, <1>2

LEMMA Order ==
  ASSUME Control, NEW x \in Tree, NEW y \in Tree
  PROVE  ~Before(x, x) /\ (Before(x, y) => ~Before(y, x) /\ x # y)
BY KeyOrder, DataOrder DEF Before

(* A lookup lands on the first of the entries it is about, if there is one.*)
Lookup(S) == IF reader \in OverRl THEN RL!Least(S) ELSE LR!Least(S)

LEMMA Lands ==
  ASSUME Control, NEW S \in SUBSET Tree
  PROVE  /\ S = {} => Lookup(S) = {}
         /\ S # {} => \E m \in S : Lookup(S) = {m} /\ \A d \in S : d = m \/ Before(m, d)
<1>1. CASE reader \in OverRl
  <2>1. S \in SUBSET RlEntry
    BY <1>1, TreesAgree DEF Tree
  <2>2. \A d, m : Before(m, d) <=> RL!Before(m, d)
    BY <1>1 DEF Before, DataBefore, RL!Before
  <2>3. QED
    BY <1>1, <2>1, <2>2, RlLands DEF Lookup
<1>2. CASE reader \notin OverRl
  <2>1. S \in SUBSET LrEntry
    BY <1>2, TreesAgree DEF Tree
  <2>2. \A d, m : Before(m, d) <=> LR!Before(m, d)
    BY <1>2 DEF Before, DataBefore, LR!Before
  <2>3. QED
    BY <1>2, <2>1, <2>2, LrLands DEF Lookup
<1>3. QED
  BY <1>1, <1>2

LEMMA DupMoves ==
  ASSUME Control, NEW a \in Tree
  PROVE  /\ NextDup(a) = {} => \A x \in Tree : Before(a, x) <=> RelationKeyBefore(a.key, x.key)
         /\ NextDup(a) # {} => \E f \in Tree : /\ NextDup(a) = {f} /\ f.key = a.key
                                               /\ DataBefore(a.data, f.data)
                                               /\ \A x \in Tree : x = f \/ Before(f, x) <=> Before(a, x)
<1> DEFINE S == {x \in Tree : x.key = a.key /\ DataBefore(a.data, x.data)}
<1>1. NextDup(a) = Lookup(S)
  BY DEF NextDup, Lookup, Tree, DataBefore, RL!NextDup, LR!NextDup
<1>2. S \in SUBSET Tree
  OBVIOUS
<1>3. \A x \in Tree : x \in S <=> x.key = a.key /\ DataBefore(a.data, x.data)
  OBVIOUS
<1> HIDE DEF S
<1>4. CASE S = {}
  <2>1. NextDup(a) = {}
    BY <1>1, <1>2, <1>4, Lands
  <2>2. \A x \in Tree : Before(a, x) <=> RelationKeyBefore(a.key, x.key)
    BY <1>3, <1>4 DEF Before
  <2>3. QED
    BY <2>1, <2>2
<1>5. CASE S # {}
  <2>1. PICK f \in S : Lookup(S) = {f} /\ \A d \in S : d = f \/ Before(f, d)
    BY <1>2, <1>5, Lands
  <2>2. f \in Tree /\ f.key = a.key /\ DataBefore(a.data, f.data)
    BY <1>2, <1>3, <2>1
  <2>3. ASSUME NEW x \in Tree PROVE x = f \/ Before(f, x) <=> Before(a, x)
    <3>1. CASE x.key = a.key
      <4>1. ~RelationKeyBefore(a.key, x.key) /\ ~RelationKeyBefore(f.key, x.key)
        BY <2>2, <3>1, KeyOrder
      <4>2. Before(a, x) <=> x \in S
        BY <1>3, <3>1, <4>1 DEF Before
      <4>3. Before(f, x) => x \in S
        BY <1>3, <2>2, <3>1, <4>1, DataOrder DEF Before
      <4>4. QED
        BY <2>1, <4>2, <4>3
    <3>2. CASE x.key # a.key
      BY <2>2, <3>2 DEF Before
    <3>3. QED
      BY <3>1, <3>2
  <2>4. QED
    BY <1>1, <2>1, <2>2, <2>3
<1>6. QED
  BY <1>4, <1>5

LEMMA NodupMoves ==
  ASSUME Control, NEW a \in Tree
  PROVE  /\ NextNodup(a) = {} => \A x \in Tree : ~RelationKeyBefore(a.key, x.key)
         /\ NextNodup(a) # {} => \E f \in Tree :
              /\ NextNodup(a) = {f} /\ FirstOfKey(f) /\ RelationKeyBefore(a.key, f.key)
              /\ \A x \in Tree : x = f \/ Before(f, x) <=> RelationKeyBefore(a.key, x.key)
<1> DEFINE S == {x \in Tree : RelationKeyBefore(a.key, x.key)}
<1>1. NextNodup(a) = Lookup(S)
  BY DEF NextNodup, Lookup, Tree, RL!NextNodup, LR!NextNodup
<1>2. S \in SUBSET Tree
  OBVIOUS
<1>3. \A x \in Tree : x \in S <=> RelationKeyBefore(a.key, x.key)
  OBVIOUS
<1> HIDE DEF S
<1>4. CASE S = {}
  BY <1>1, <1>2, <1>3, <1>4, Lands
<1>5. CASE S # {}
  <2>1. PICK f \in S : Lookup(S) = {f} /\ \A d \in S : d = f \/ Before(f, d)
    BY <1>2, <1>5, Lands
  <2>2. f \in Tree /\ RelationKeyBefore(a.key, f.key)
    BY <1>2, <1>3, <2>1
  <2>3. ASSUME NEW x \in Tree PROVE x = f \/ Before(f, x) <=> RelationKeyBefore(a.key, x.key)
    <3>1. Before(f, x) => RelationKeyBefore(a.key, x.key)
      BY <2>2, KeyOrderTransitive DEF Before
    <3>2. QED
      BY <1>3, <2>1, <2>2, <3>1
  <2>4. FirstOfKey(f)
    <3>1. SUFFICES ASSUME NEW x \in Tree, x.key = f.key PROVE x = f \/ DataBefore(f.data, x.data)
      BY DEF FirstOfKey
    <3>2. x = f \/ Before(f, x)
      BY <2>2, <2>3, <3>1
    <3>3. QED
      BY <2>2, <3>1, <3>2, KeyOrder DEF Before
  <2>5. QED
    BY <1>1, <2>1, <2>2, <2>3, <2>4
<1>6. QED
  BY <1>4, <1>5

(* The range of keys that start with an id, or follow it.                  *)
RangeOf(n) == IF reader \in OverRl THEN RL!SetRange(trees.rl, <<n, 0>>)
              ELSE LR!SetRange(trees.lr, <<n, 0>>)
LEMMA RangeLands ==
  ASSUME Control, NEW n \in Nat
  PROVE  /\ RangeOf(n) = {} => \A x \in Tree : ~(n <= x.key[1])
         /\ RangeOf(n) # {} => \E f \in Tree :
              /\ RangeOf(n) = {f} /\ FirstOfKey(f) /\ n <= f.key[1]
              /\ \A x \in Tree : x = f \/ Before(f, x) <=> n <= x.key[1]
<1> DEFINE S == {x \in Tree : x.key = <<n, 0>> \/ RelationKeyBefore(<<n, 0>>, x.key)}
<1>1. RangeOf(n) = Lookup(S)
  BY DEF RangeOf, Lookup, Tree, RL!SetRange, LR!SetRange
<1>2. S \in SUBSET Tree
  OBVIOUS
<1>3. \A x \in Tree : x \in S <=> n <= x.key[1]
  <2>1. SUFFICES ASSUME NEW x \in Tree PROVE x \in S <=> n <= x.key[1]
    OBVIOUS
  <2>2. x.key[1] \in Nat /\ x.key[2] \in Nat /\ x.key = <<x.key[1], x.key[2]>>
    BY TreeTyped
  <2>3. x.key = <<n, 0>> \/ RelationKeyBefore(<<n, 0>>, x.key) <=> n <= x.key[1]
    BY <2>2 DEF RelationKeyBefore
  <2>4. QED
    BY <2>3
<1> HIDE DEF S
<1>4. CASE S = {}
  BY <1>1, <1>2, <1>3, <1>4, Lands
<1>5. CASE S # {}
  <2>1. PICK f \in S : Lookup(S) = {f} /\ \A d \in S : d = f \/ Before(f, d)
    BY <1>2, <1>5, Lands
  <2>2. f \in Tree /\ n <= f.key[1]
    BY <1>2, <1>3, <2>1
  <2>3. ASSUME NEW x \in Tree PROVE x = f \/ Before(f, x) <=> n <= x.key[1]
    <3>1. Before(f, x) => f.key[1] <= x.key[1]
      BY <2>2, KeyOrder, TreeTyped DEF Before
    <3>2. x.key[1] \in Nat /\ f.key[1] \in Nat
      BY <2>2, TreeTyped
    <3>3. Before(f, x) => n <= x.key[1]
      BY <2>2, <3>1, <3>2
    <3>4. QED
      BY <1>3, <2>1, <2>2, <3>3
  <2>4. FirstOfKey(f)
    <3>1. SUFFICES ASSUME NEW x \in Tree, x.key = f.key PROVE x = f \/ DataBefore(f.data, x.data)
      BY DEF FirstOfKey
    <3>2. x = f \/ Before(f, x)
      BY <2>2, <2>3, <3>1
    <3>3. QED
      BY <2>2, <3>1, <3>2, KeyOrder DEF Before
  <2>5. QED
    BY <1>1, <2>1, <2>2, <2>3, <2>4
<1>6. QED
  BY <1>4, <1>5

(* The data of a key.                                                      *)
KeyIn(key) == IF reader \in OverRl THEN RL!SetKey(trees.rl, key) ELSE LR!SetKey(trees.lr, key)
LEMMA KeyLands ==
  ASSUME Control, NEW key
  PROVE  /\ KeyIn(key) = {} => \A x \in Tree : x.key # key
         /\ KeyIn(key) # {} => \E f \in Tree : /\ KeyIn(key) = {f} /\ f.key = key /\ FirstOfKey(f)
<1> DEFINE S == {x \in Tree : x.key = key}
<1>1. KeyIn(key) = Lookup(S)
  BY DEF KeyIn, Lookup, Tree, RL!SetKey, LR!SetKey
<1>2. S \in SUBSET Tree
  OBVIOUS
<1>3. \A x \in Tree : x \in S <=> x.key = key
  OBVIOUS
<1> HIDE DEF S
<1>4. CASE S = {}
  BY <1>1, <1>2, <1>3, <1>4, Lands
<1>5. CASE S # {}
  <2>1. PICK f \in S : Lookup(S) = {f} /\ \A d \in S : d = f \/ Before(f, d)
    BY <1>2, <1>5, Lands
  <2>2. f \in Tree /\ f.key = key
    BY <1>2, <1>3, <2>1
  <2>3. \A x \in Tree : x.key = f.key => x = f \/ DataBefore(f.data, x.data)
    BY <1>3, <2>1, <2>2, KeyOrder DEF Before
  <2>4. QED
    BY <1>1, <2>1, <2>2, <2>3 DEF FirstOfKey
<1>6. QED
  BY <1>4, <1>5

(* The data of a key from an ordinal on.                                   *)
LEMMA MinimumLands ==
  ASSUME Control, NEW key, NEW min \in Nat
  PROVE  LET found == LR!GetBothRange(trees.lr, key, <<min, 0>>)
         IN /\ found = {} => \A e \in trees.lr : e.key = key => ~(min <= e.data[1])
            /\ found # {} => \E f \in trees.lr :
                 /\ found = {f} /\ f.key = key
                 /\ \A e \in trees.lr : e.key = key /\ min <= e.data[1] =>
                      e = f \/ RelationDataBefore(f.data, e.data)
<1> DEFINE S == {e \in trees.lr : e.key = key /\ (e.data = <<min, 0>> \/ RelationDataBefore(<<min, 0>>, e.data))}
           found == LR!GetBothRange(trees.lr, key, <<min, 0>>)
<1>1. found = LR!Least(S)
  BY DEF LR!GetBothRange
<1>2. S \in SUBSET LrEntry
  BY TreesAgree
<1>3. \A e \in trees.lr : e \in S <=> e.key = key /\ min <= e.data[1]
  <2>1. SUFFICES ASSUME NEW e \in trees.lr PROVE e \in S <=> e.key = key /\ min <= e.data[1]
    OBVIOUS
  <2>2. e \in LrEntry
    BY TreesAgree
  <2>3. e.data[1] \in Nat /\ e.data[2] \in Nat /\ e.data = <<e.data[1], e.data[2]>>
    BY <2>2, LrTyped
  <2>4. e.data = <<min, 0>> \/ RelationDataBefore(<<min, 0>>, e.data) <=> min <= e.data[1]
    BY <2>3 DEF RelationDataBefore
  <2>5. QED
    BY <2>4
<1>4. \A e \in S : e \in trees.lr
  OBVIOUS
<1> HIDE DEF S, found
<1>5. CASE S = {}
  <2>1. found = {}
    BY <1>1, <1>2, <1>5, LrLands
  <2>2. QED
    BY <1>3, <1>5, <2>1 DEF found
<1>6. CASE S # {}
  <2>1. PICK f \in S : LR!Least(S) = {f} /\ \A d \in S : d = f \/ LR!Before(f, d)
    BY <1>2, <1>6, LrLands
  <2>2. f \in trees.lr /\ f.key = key
    BY <1>3, <1>4, <2>1
  <2>3. ASSUME NEW e \in trees.lr, e.key = key, min <= e.data[1]
        PROVE  e = f \/ RelationDataBefore(f.data, e.data)
    <3>1. e = f \/ LR!Before(f, e)
      BY <1>3, <2>1, <2>3
    <3>2. e \in LrEntry /\ e.key = f.key
      BY <2>2, <2>3, TreesAgree
    <3>3. ~RelationKeyBefore(f.key, e.key)
      BY <3>2, LrTyped DEF RelationKeyBefore
    <3>4. QED
      BY <3>1, <3>3 DEF LR!Before
  <2>4. QED
    BY <1>1, <2>1, <2>2, <2>3 DEF found
<1>7. QED
  BY <1>5, <1>6

LEMMA FirstLands ==
  ASSUME Control, Tree # {}
  PROVE  \E f \in Tree : Lookup(Tree) = {f} /\ \A x \in Tree : x = f \/ Before(f, x)
BY Lands
-----------------------------------------------------------------------------
(* What the readers are for, and what their filters select.                *)
LEMMA ReaderIs ==
  ASSUME Control, SoundCalls
  PROVE  /\ reader \in RangeReaders \cup KeyReaders \cup {"1100", "1110", "0010"}
         /\ call.left # Null <=> reader \notin {"0000", "0100", "0110", "0010"}
         /\ call.right # Null <=> \/ reader \in {"0100", "0110", "1100", "1110"}
                                  \/ call.right # Null /\ reader \in {"1001_1101", "1011_1111"}
         /\ call.label # Null <=> reader \in {"1010", "1011_1111", "0110", "1110", "0010"}
         /\ HasOrdinal <=> reader \in {"1001_1101", "1011_1111"}
         /\ HasOrdinal => call.ordinal.min \in Nat /\ call.ordinal.max \in Nat
         /\ reader = "0010" => \/ OneLabelEach
                               \/ /\ Len(call.label) = 1
                                  /\ \A e \in Relations : call.label[1] <= e.key[2]
<1>1. call \in Call /\ Sound(call)
  BY TreesAgree DEF Control, SoundCalls
<1>2. call.ordinal # Null => call.left # Null
  BY <1>1 DEF Sound
<1>3. reader = Reader(call)
  BY DEF reader
<1>4. call.ordinal # Null => call.ordinal.min \in Nat /\ call.ordinal.max \in Nat
  <2>1. call.ordinal # Null => call.ordinal \in OrdinalCondition
    BY <1>1, Given
  <2>2. QED
    BY <2>1, OrdinalAssumption DEF OrdinalCondition
<1>5. reader = "0010" => OneLabelEach \/ (Len(call.label) = 1 /\ \A e \in Relations : call.label[1] <= e.key[2])
  BY <1>1, <1>3 DEF Sound
<1>6. /\ reader \in RangeReaders \cup KeyReaders \cup {"1100", "1110", "0010"}
      /\ call.left # Null <=> reader \notin {"0000", "0100", "0110", "0010"}
      /\ call.right # Null <=> \/ reader \in {"0100", "0110", "1100", "1110"}
                               \/ call.right # Null /\ reader \in {"1001_1101", "1011_1111"}
      /\ call.label # Null <=> reader \in {"1010", "1011_1111", "0110", "1110", "0010"}
      /\ call.ordinal # Null <=> reader \in {"1001_1101", "1011_1111"}
  BY <1>2, <1>3 DEF Reader, RangeReaders, KeyReaders
<1>7. QED
  BY <1>4, <1>5, <1>6 DEF HasOrdinal

LEMMA SelectedIs ==
  ASSUME Control, SoundCalls, NEW e \in trees.lr
  PROVE  /\ reader = "0000" => Selected(e)
         /\ reader = "1000" => (Selected(e) <=> e.key[1] \in Ids(call.left))
         /\ reader = "0100" => (Selected(e) <=> e.data[2] \in Ids(call.right))
         /\ reader = "1100" =>
              (Selected(e) <=> e.key[1] \in Ids(call.left) /\ e.data[2] \in Ids(call.right))
         /\ reader = "1001_1101" =>
              (Selected(e) <=> e.key[1] \in Ids(call.left) /\ Counted(e) /\ ~Above(e))
         /\ reader = "1010" =>
              (Selected(e) <=> e.key[1] \in Ids(call.left) /\ e.key[2] \in Ids(call.label))
         /\ reader = "0110" =>
              (Selected(e) <=> e.data[2] \in Ids(call.right) /\ e.key[2] \in Ids(call.label))
         /\ reader = "1011_1111" =>
              (Selected(e) <=> /\ e.key[1] \in Ids(call.left) /\ e.key[2] \in Ids(call.label)
                               /\ Counted(e) /\ ~Above(e))
         /\ reader = "1110" =>
              (Selected(e) <=> /\ e.key[1] \in Ids(call.left) /\ e.key[2] \in Ids(call.label)
                               /\ e.data[2] \in Ids(call.right))
         /\ reader = "0010" => (Selected(e) <=> e.key[2] \in Ids(call.label))
<1>1. call \in Call /\ e \in LrEntry
  BY TreesAgree
<1>2. /\ call.left = Null <=> Ids(call.left) = Null
      /\ call.label = Null <=> Ids(call.label) = Null
      /\ call.right = Null <=> Ids(call.right) = Null
  BY <1>1, Given
<1>3. e.data[1] \in Nat
  BY <1>1, LrTyped
<1>4. HasOrdinal => (Selected(e) <=> /\ Selects(Ids(call.left), e.key[1])
                                     /\ Selects(Ids(call.label), e.key[2])
                                     /\ Counted(e) /\ ~Above(e))
  <2>1. HasOrdinal => call.ordinal.min \in Nat /\ call.ordinal.max \in Nat
    BY ReaderIs
  <2>2. QED
    BY <1>3, <2>1 DEF Selected, Counted, Above, HasOrdinal
<1>5. ~HasOrdinal => (Selected(e) <=> /\ Selects(Ids(call.left), e.key[1])
                                      /\ Selects(Ids(call.label), e.key[2])
                                      /\ Selects(Ids(call.right), e.data[2]))
  BY DEF Selected, HasOrdinal
<1>6. QED
  BY <1>2, <1>4, <1>5, ReaderIs DEF Selects

(* Without a condition on ordinals everything counts.                      *)
LEMMA NoOrdinal ==
  ASSUME NEW e, ~HasOrdinal
  PROVE  ~Above(e) /\ Counted(e)
BY DEF Above, Counted
-----------------------------------------------------------------------------
(* Matches that are seen are no longer to come.                            *)
LEMMA MatchesAre ==
  ASSUME NEW m
  PROVE  m \in Matches <=> \E e \in trees.lr : Selected(e) /\ m = Relation(e)
BY DEF Matches, Selected, Relation, FilterOf

LEMMA RelationsDiffer ==
  ASSUME Control
  PROVE  \A d, e \in trees.lr : Relation(d) = Relation(e) => d = e
<1>1. SUFFICES ASSUME NEW d \in trees.lr, NEW e \in trees.lr, Relation(d) = Relation(e) PROVE d = e
  OBVIOUS
<1>2. d \in LrEntry /\ e \in LrEntry
  BY TreesAgree
<1>3. d.key[1] = e.key[1] /\ d.key[2] = e.key[2] /\ d.data[2] = e.data[2]
  BY <1>1 DEF Relation
<1>4. d.key = e.key
  BY <1>2, <1>3, LrTyped
<1>5. QED
  BY <1>3, <1>4, TreesAgree DEF Unique

LEMMA Passing ==
  ASSUME Control, Seen, pc # "closed", UNCHANGED <<trees, call, seen>>,
         \A e \in trees.lr : Selected(e) => (Coming(e)' <=> Coming(e))
  PROVE  Seen'
<1>1. Matches' = Matches /\ trees' = trees /\ seen' = seen
  BY DEF Matches
<1>2. \A e \in trees.lr : (Selected(e)' <=> Selected(e)) /\ Relation(e)' = Relation(e)
  BY DEF Selected, Relation
<1>3. (Range(seen))' = Range(seen)
  BY <1>1
<1>4. \A e \in trees.lr : Selected(e) => (Relation(e) \in Range(seen) <=> ~Coming(e))
  BY DEF Seen
<1>5. \A e \in trees'.lr : Selected(e)' => (Relation(e)' \in Range(seen)' <=> ~Coming(e)')
  BY <1>1, <1>2, <1>4
<1>6. QED
  BY <1>1, <1>5 DEF Seen

LEMMA Appended ==
  ASSUME NEW S, NEW s \in Seq(S), NEW x \in S
  PROVE  /\ Append(s, x) \in Seq(S)
         /\ Range(Append(s, x)) = Range(s) \cup {x}
         /\ Len(Append(s, x)) = Len(s) + 1
         /\ x \notin Range(s) /\ (\A i, j \in DOMAIN s : s[i] = s[j] => i = j) =>
              \A i, j \in DOMAIN Append(s, x) : Append(s, x)[i] = Append(s, x)[j] => i = j
<1> DEFINE n == Len(s)
           t == Append(s, x)
<1>1. /\ n \in Nat /\ DOMAIN s = 1 .. n /\ t \in Seq(S) /\ Len(t) = n + 1 /\ DOMAIN t = 1 .. n + 1
      /\ \A i \in 1 .. n : t[i] = s[i]
      /\ t[n + 1] = x
  OBVIOUS
<1> HIDE DEF n, t
<1>2. \A i : i \in 1 .. n + 1 <=> i \in 1 .. n \/ i = n + 1
  BY <1>1
<1>3. Range(t) = Range(s) \cup {x}
  BY <1>1, <1>2 DEF Range
<1>4. ASSUME x \notin Range(s), \A i, j \in DOMAIN s : s[i] = s[j] => i = j,
             NEW i \in DOMAIN t, NEW j \in DOMAIN t, t[i] = t[j]
      PROVE  i = j
  <2>1. \A k \in 1 .. n : s[k] # x
    BY <1>1, <1>4 DEF Range
  <2>2. QED
    BY <1>1, <1>2, <1>4, <2>1
<1>5. QED
  BY <1>1, <1>3, <1>4 DEF n, t

LEMMA Taking ==
  ASSUME Control, Seen, pc # "closed", UNCHANGED <<trees, call>>,
         NEW t \in trees.lr, Selected(t), Coming(t), seen' = Append(seen, Relation(t)),
         \A e \in trees.lr : Selected(e) => (Coming(e)' <=> Coming(e) /\ e # t)
  PROVE  Seen'
<1> DEFINE Triples == Left \X Label \X Right
<1>1. Matches' = Matches /\ trees' = trees
  BY DEF Matches
<1>2. \A e \in trees.lr : (Selected(e)' <=> Selected(e)) /\ Relation(e)' = Relation(e)
  BY DEF Selected, Relation
<1>3. t \in LrEntry
  BY TreesAgree
<1>4. Relation(t) \in Triples
  BY <1>3, LrTyped DEF Relation
<1>5. seen \in Seq(Triples) /\ Range(seen) \subseteq Matches /\ Relation(t) \notin Range(seen)
      /\ \A i, j \in DOMAIN seen : seen[i] = seen[j] => i = j
  BY DEF Seen
<1>6. \A e \in trees.lr : Selected(e) => (Relation(e) \in Range(seen) <=> ~Coming(e))
  BY DEF Seen
<1>7. Relation(t) \in Matches
  BY MatchesAre
<1> HIDE DEF Triples
<1> DEFINE s == Append(seen, Relation(t))
<1>8. s \in Seq(Triples) /\ Range(s) = Range(seen) \cup {Relation(t)}
      /\ \A i, j \in DOMAIN s : s[i] = s[j] => i = j
  BY <1>4, <1>5, Appended
<1>9. seen' = s
  OBVIOUS
<1> HIDE DEF s
<1>10. \A e \in trees.lr : Relation(e) \in Range(s) <=> Relation(e) \in Range(seen) \/ e = t
  BY <1>8, RelationsDiffer
<1>11. \A e \in trees'.lr : Selected(e)' => (Relation(e)' \in Range(seen)' <=> ~Coming(e)')
  <2>1. Range(seen)' = Range(s)
    BY <1>9
  <2>2. \A e \in trees.lr : Selected(e) => (Relation(e) \in Range(s) <=> ~Coming(e)')
    BY <1>6, <1>10
  <2>3. QED
    BY <1>1, <1>2, <2>1, <2>2
<1>12. Range(s) \subseteq Matches
  BY <1>5, <1>7, <1>8
<1>13. seen' \in Seq(Left \X Label \X Right)
  BY <1>8, <1>9 DEF Triples
<1>14. Range(seen)' \subseteq Matches'
  BY <1>1, <1>9, <1>12
<1>15. \A i, j \in DOMAIN seen' : seen'[i] = seen'[j] => i = j
  BY <1>8, <1>9
<1>16. QED
  BY <1>11, <1>13, <1>14, <1>15 DEF Seen
-----------------------------------------------------------------------------
(* Arrays without an id twice.                                             *)
LEMMA Distinct ==
  ASSUME NEW S, NEW array \in Seq(S) \ {<<>>}, IsInjective(array)
  PROVE  Head(array) \notin Range(Tail(array)) /\ IsInjective(Tail(array))
<1> DEFINE t == Tail(array)
           n == Len(array)
<1>1. /\ n \in Nat \ {0} /\ Head(array) = array[1] /\ DOMAIN array = 1 .. n
      /\ DOMAIN t = 1 .. n - 1 /\ \A i \in 1 .. n - 1 : t[i] = array[i + 1]
  OBVIOUS
<1> HIDE DEF t, n
<1>2. \A i \in 1 .. n - 1 : i + 1 \in 1 .. n /\ i + 1 # 1
  BY <1>1
<1>3. 1 \in 1 .. n
  BY <1>1
<1>4. \A i, j \in 1 .. n : array[i] = array[j] => i = j
  BY <1>1 DEF IsInjective
<1>5. \A i \in 1 .. n - 1 : t[i] # array[1]
  BY <1>1, <1>2, <1>3, <1>4
<1>6. ASSUME NEW i \in 1 .. n - 1, NEW j \in 1 .. n - 1, t[i] = t[j] PROVE i = j
  <2>1. i + 1 = j + 1
    BY <1>1, <1>2, <1>4, <1>6
  <2>2. QED
    BY <1>1, <2>1
<1>7. Head(array) \notin Range(t)
  BY <1>1, <1>5 DEF Range
<1>8. IsInjective(t)
  BY <1>1, <1>6 DEF IsInjective
<1>9. QED
  BY <1>7, <1>8 DEF t

LEMMA OneElement ==
  ASSUME NEW S, NEW array \in Seq(S), Len(array) = 1
  PROVE  array # <<>> /\ Tail(array) = <<>> /\ Head(array) = array[1]
<1>1. array # <<>>
  <2>1. Len(<<>>) = 0
    OBVIOUS
  <2>2. QED
    BY <2>1
<1>2. Head(array) = array[1]
  BY <1>1
<1>3. Tail(array) \in Seq(S)
  BY <1>1
<1>4. Len(Tail(array)) = 0
  BY <1>1
<1>5. Tail(array) = <<>>
  <2> DEFINE t == Tail(array)
  <2>1. t \in Seq(S) /\ Len(t) = 0
    BY <1>3, <1>4
  <2> HIDE DEF t
  <2>2. t = <<>>
    BY <2>1
  <2>3. QED
    BY <2>2 DEF t
<1>6. QED
  BY <1>1, <1>2, <1>5

LEMMA RestIs ==
  ASSUME NEW array, NEW given, Rest(array, given)
  PROVE  /\ Head(array) \in Ids(given) /\ Head(array) \notin Range(Tail(array))
         /\ Range(array) = {Head(array)} \cup Range(Tail(array)) /\ Range(array) \subseteq Ids(given)
         /\ Tail(array) # <<>> => Rest(Tail(array), given)
         /\ Tail(array) = <<>> => Range(Tail(array)) = {}
<1>1. array \in Seq(Ids(given)) \ {<<>>} /\ IsInjective(array)
  BY DEF Rest
<1>2. /\ Head(array) \in Ids(given) /\ Tail(array) \in Seq(Ids(given))
      /\ Range(array) = {Head(array)} \cup Range(Tail(array)) /\ Range(array) \subseteq Ids(given)
  BY <1>1, Current
<1>3. Head(array) \notin Range(Tail(array)) /\ IsInjective(Tail(array))
  BY <1>1, Distinct
<1>4. Range(<<>>) = {}
  BY DEF Range
<1>5. QED
  BY <1>2, <1>3, <1>4 DEF Rest

LEMMA RestStarts ==
  ASSUME Control, SoundCalls
  PROVE  /\ call.left # Null => Rest(call.left, call.left) /\ Ids(call.left) = Range(call.left)
         /\ call.label # Null => Rest(call.label, call.label) /\ Ids(call.label) = Range(call.label)
         /\ call.right # Null => Rest(call.right, call.right) /\ Ids(call.right) = Range(call.right)
         /\ call.left # Null => Ids(call.left) \in SUBSET Nat
         /\ call.right # Null => Ids(call.right) \in SUBSET Nat
<1>1. call \in Call /\ Sound(call)
  BY TreesAgree DEF Control, SoundCalls
<1>2. /\ call.left # Null => IsInjective(call.left)
      /\ call.label # Null => IsInjective(call.label)
      /\ call.right # Null => IsInjective(call.right)
  BY <1>1 DEF Sound
<1>3. QED
  BY <1>1, <1>2, Given, IdsAssumption DEF Rest, Ids

(* What two nested arrays have ahead of them.                              *)
Ahead(inner, outer, i, o) ==
  \/ o \in Range(Tail(outer))
  \/ o = Head(outer) /\ i \in Range(inner)

LEMMA Advanced ==
  ASSUME NEW given, NEW others, NEW inner, NEW outer,
         Rest(inner, given), Rest(given, given), Range(given) = Ids(given), Rest(outer, others)
  PROVE  LET next == AfterForward(inner, given, outer)
         IN /\ Rest(next[1], given)
            /\ next[2] # <<>> => Rest(next[2], others)
            /\ next[2] = outer \/ next[2] = Tail(outer)
            /\ \A o : \A i \in Ids(given) :
                 next[2] # <<>> /\ Ahead(next[1], next[2], i, o)
                   <=> Ahead(inner, outer, i, o) /\ ~(o = Head(outer) /\ i = Head(inner))
<1>1. CASE Tail(inner) # <<>>
  <2>1. AfterForward(inner, given, outer) = <<Tail(inner), outer>>
    BY <1>1 DEF AfterForward
  <2>2. Rest(Tail(inner), given) /\ Head(inner) \notin Range(Tail(inner))
        /\ Range(inner) = {Head(inner)} \cup Range(Tail(inner)) /\ outer # <<>>
        /\ Head(outer) \notin Range(Tail(outer))
    BY <1>1, RestIs DEF Rest
  <2>3. QED
    BY <2>1, <2>2 DEF Ahead
<1>2. CASE Tail(inner) = <<>>
  <2>1. AfterForward(inner, given, outer) = <<given, Tail(outer)>>
    BY <1>2 DEF AfterForward
  <2>2. Range(inner) = {Head(inner)} /\ Head(outer) \notin Range(Tail(outer))
        /\ (Tail(outer) # <<>> => Rest(Tail(outer), others)) /\ (Tail(outer) = <<>> => Range(Tail(outer)) = {})
    <3>1. Range(inner) = {Head(inner)} \cup Range(Tail(inner)) /\ Range(Tail(inner)) = {}
      BY <1>2, RestIs
    <3>2. Head(outer) \notin Range(Tail(outer))
          /\ (Tail(outer) # <<>> => Rest(Tail(outer), others)) /\ (Tail(outer) = <<>> => Range(Tail(outer)) = {})
      BY RestIs
    <3>3. QED
      BY <3>1, <3>2
  <2>3. Tail(outer) # <<>> => Range(Tail(outer)) = {Head(Tail(outer))} \cup Range(Tail(Tail(outer)))
    BY <2>2, RestIs
  <2> DEFINE next == AfterForward(inner, given, outer)
  <2>4. next[1] = given /\ next[2] = Tail(outer)
    BY <2>1
  <2> HIDE DEF next
  <2>5. ASSUME NEW o, NEW i \in Ids(given)
        PROVE  next[2] # <<>> /\ Ahead(next[1], next[2], i, o)
                 <=> Ahead(inner, outer, i, o) /\ ~(o = Head(outer) /\ i = Head(inner))
    BY <2>2, <2>3, <2>4 DEF Ahead
  <2>6. QED
    BY <2>2, <2>4, <2>5 DEF next
<1>3. QED
  BY <1>1, <1>2
-----------------------------------------------------------------------------
(* A step of a selection leaves the trees and the call alone.              *)
LEMMA Same ==
  ASSUME UNCHANGED <<trees, call>>
  PROVE  /\ reader' = reader /\ Tree' = Tree /\ Labels' = Labels /\ HasOrdinal' = HasOrdinal
         /\ \A e : Place(e)' = Place(e)
         /\ \A x, y : Before(x, y)' <=> Before(x, y)
         /\ \A x : FirstOfKey(x)' <=> FirstOfKey(x)
         /\ \A x : FirstOfLr(x)' <=> FirstOfLr(x)
<1>1. reader' = reader
  BY DEF reader
<1>2. QED
  BY <1>1 DEF Tree, Labels, HasOrdinal, Place, Before, DataBefore, FirstOfKey, FirstOfLr

LEMMA LabelsAre ==
  /\ reader = "0000" => Labels = {"resume", "each_key", "each_data"}
  /\ reader \in RangeReaders /\ reader # "0000" =>
       Labels = {"resume", "set_range", "each_key", "each_data"}
  /\ reader = "1100" => Labels = {"resume", "set_range", "each_key", "each_left"}
  /\ reader \in KeyReaders => Labels = {"resume", "set_key", "each_data"}
  /\ reader = "1110" => Labels = {"resume", "set_cursor"}
  /\ reader = "0010" => Labels = {"resume", "set_label_key", "each_label_data", "each_left_data"}
BY DEF Labels, RangeReaders, KeyReaders

LEMMA ControlKept ==
  ASSUME Control, UNCHANGED <<trees, call>>, pc' \in Labels \cup {"open", "end"}
  PROVE  Control'
<1>1. Labels' = Labels
  BY Same
<1>2. "closed" \notin Labels
  <2>1. reader \in RangeReaders \cup KeyReaders \cup {"1100", "1110", "0010"}
    BY DEF reader, Reader, RangeReaders, KeyReaders
  <2>2. QED
    BY <2>1, LabelsAre
<1>3. QED
  BY <1>1, <1>2 DEF Control
-----------------------------------------------------------------------------
(* 1000, 1001_1101, 0100 and 0000: ranges of keys.                         *)
QueueGiven == IF reader \in OverRl THEN call.right ELSE call.left

LEMMA Ranges ==
  ASSUME ReadInv, SoundCalls, reader \in RangeReaders \cup {"1100"}, Running
  PROVE  /\ reader # "0000" => Rest(Queue, QueueGiven) /\ Head(Queue) \in Nat
         /\ reader # "0000" => \A x : InCurrentRange(x) <=> x.key[1] = Head(Queue)
         /\ reader = "0000" => \A x : InCurrentRange(x)
<1>1. reader # "0000" => Rest(Queue, QueueGiven) /\ QueueGiven # Null
  BY ReaderIs DEF ReadInv, Arrays, Queue, QueueGiven, OverRl, RangeReaders
<1>2. reader # "0000" => Ids(QueueGiven) \in SUBSET Nat
  BY <1>1, RestStarts DEF ReadInv, QueueGiven
<1>3. reader # "0000" => Head(Queue) \in Nat
  BY <1>1, <1>2, RestIs
<1>4. reader # "0000" => \A x : InCurrentRange(x) <=> x.key[1] = Head(Queue)
  BY DEF InCurrentRange, Queue, OverRl, RangeReaders
<1>5. reader = "0000" => \A x : InCurrentRange(x)
  BY DEF InCurrentRange
<1>6. QED
  BY <1>1, <1>3, <1>4, <1>5

LEMMA RangeArraysKept ==
  ASSUME ReadInv, SoundCalls, reader \in RangeReaders, UNCHANGED <<trees, call>>,
         reader # "0000" /\ pc' # "end" => Rest(Queue', QueueGiven)
  PROVE  Arrays'
<1>1. reader' = reader /\ call' = call
  BY Same
<1>2. reader # "0000" /\ reader # "0100" => Queue' = left' /\ QueueGiven = call.left
  BY <1>1 DEF Queue, QueueGiven, RangeReaders, OverRl
<1>3. reader = "0100" => Queue' = right' /\ QueueGiven = call.right
  BY <1>1 DEF Queue, QueueGiven, RangeReaders, OverRl
<1>4. QED
  BY <1>1, <1>2, <1>3 DEF Arrays, Running, RangeReaders, KeyReaders, OverRl, Rest

LEMMA ResumeRangeInv ==
  ASSUME ReadInv, SoundCalls, reader \in RangeReaders, ResumeRange
  PROVE  ReadInv'
<1>1. /\ pc = "resume" /\ Running /\ UNCHANGED <<trees, call, left, right, label, at, at2, seen>>
      /\ pc' = IF ~ \E e \in at : InCurrentRange(e) THEN "set_range" ELSE "each_data"
  BY DEF ResumeRange, At, Running, Goto, selection, arrays, RangeReaders
<1>2. PICK a \in Tree : at = {a}
  BY <1>1 DEF ReadInv, Places, BetweenCalls
<1>3. reader' = reader /\ Tree' = Tree /\ Queue' = Queue /\ (\A x : InCurrentRange(x)' <=> InCurrentRange(x))
  BY <1>1, Same DEF Queue, InCurrentRange
<1>4. reader = "0000" => pc' = "each_data"
  BY <1>1, <1>2, Ranges
<1>5. Control'
  BY <1>1, <1>4, LabelsAre, ControlKept DEF ReadInv
<1>6. Arrays'
  BY <1>1, <1>3, Ranges, RangeArraysKept
<1>7. Places'
  BY <1>1, <1>2, <1>3 DEF Places, RangeReaders, KeyReaders, BetweenCalls
<1>8. ASSUME NEW e \in trees.lr
      PROVE  Coming(e)' <=> Coming(e)
  <2>1. InRange' <=> InRange
    BY <1>1, <1>3 DEF InRange, BetweenCalls
  <2>2. OnOrAfter(e)' <=> OnOrAfter(e)
    BY <1>1, Same DEF OnOrAfter
  <2>3. Place(e)' = Place(e)
    BY <1>1, Same
  <2>4. ComingInRange(e)' <=> ComingInRange(e)
    BY <1>3, <2>1, <2>2, <2>3 DEF ComingInRange
  <2>5. QED
    BY <1>1, <1>3, <2>4 DEF Coming, RangeReaders, KeyReaders
<1>9. Seen'
  BY <1>1, <1>8, Passing DEF ReadInv
<1>10. QED
  BY <1>5, <1>6, <1>7, <1>9 DEF ReadInv

LEMMA SetRangeInv ==
  ASSUME ReadInv, SoundCalls, reader \in RangeReaders, SetRange
  PROVE  ReadInv'
<1>1. /\ pc = "set_range" /\ pc' = "each_key" /\ Running
      /\ UNCHANGED <<trees, call, left, right, label, at2, seen>>
  BY DEF SetRange, Running, Goto, selection, arrays
<1>2. reader # "0000"
  BY <1>1, LabelsAre DEF ReadInv, Control
<1>3. at' = RangeOf(Head(Queue))
  BY DEF SetRange, RangeOf, Queue
<1>4. Head(Queue) \in Nat
  BY <1>1, <1>2, Ranges
<1>5. reader' = reader /\ Tree' = Tree /\ Queue' = Queue
  BY <1>1, Same DEF Queue
<1>6. Control'
  BY <1>1, <1>2, LabelsAre, ControlKept DEF ReadInv
<1>7. Arrays'
  BY <1>1, <1>2, <1>5, Ranges, RangeArraysKept
<1>8. at' = {} \/ \E f \in Tree : at' = {f} /\ FirstOfKey(f) /\ Head(Queue) <= f.key[1]
  BY <1>3, <1>4, RangeLands DEF ReadInv
<1>9. Places'
  <2>1. \A x : FirstOfKey(x)' <=> FirstOfKey(x)
    BY <1>1, Same
  <2>2. QED
    BY <1>1, <1>2, <1>5, <1>8, <2>1 DEF Places, RangeReaders, KeyReaders, BetweenCalls
<1>10. ASSUME NEW e \in trees.lr
       PROVE  Coming(e)' <=> Coming(e)
  <2>1. Place(e)' = Place(e) /\ Place(e) \in Tree
    BY <1>1, Same, TreeTyped DEF ReadInv
  <2>2. Place(e).key[1] = Head(Queue) => OnOrAfter(e)'
    <3>1. SUFFICES ASSUME Place(e).key[1] = Head(Queue) PROVE OnOrAfter(e)'
      OBVIOUS
    <3>2. Head(Queue) <= Place(e).key[1]
      BY <1>4, <3>1
    <3>3. PICK f \in Tree : at' = {f} /\ (Place(e) = f \/ Before(f, Place(e)))
      BY <1>3, <1>4, <2>1, <3>2, RangeLands DEF ReadInv
    <3>4. \A x, y : Before(x, y)' <=> Before(x, y)
      BY <1>1, Same
    <3>5. QED
      BY <2>1, <3>3, <3>4 DEF OnOrAfter
  <2>3. ~InRange
    BY <1>1 DEF InRange, BetweenCalls
  <2>4. ComingInRange(e)' <=> ComingInRange(e)
    BY <1>2, <1>5, <2>1, <2>2, <2>3 DEF ComingInRange
  <2>5. QED
    BY <1>1, <1>5, <2>4 DEF Coming, RangeReaders, KeyReaders
<1>11. Seen'
  BY <1>1, <1>10, Passing DEF ReadInv
<1>12. QED
  BY <1>6, <1>7, <1>9, <1>11 DEF ReadInv

(* Where a key of lr is entered at the minimum, what is before does not    *)
(* match.                                                                  *)
LEMMA CountedIs ==
  ASSUME HasOrdinal, NEW e
  PROVE  Counted(e) => call.ordinal.min <= e.data[1]
BY DEF Counted

LEMMA EachKeyEnters ==
  ASSUME ReadInv, SoundCalls, reader \in RangeReaders, EachKey, NEW a \in Tree, at = {a}, InCurrentRange(a),
         reader # "1001_1101"
  PROVE  ReadInv'
<1>1. /\ pc = "each_key" /\ pc' = "each_data" /\ Running
      /\ UNCHANGED <<trees, call, left, right, label, at, at2, seen>>
  BY DEF EachKey, At, Running, Goto, selection, arrays, RangeReaders
<1>2. reader' = reader /\ Tree' = Tree /\ Queue' = Queue /\ (InCurrentRange(a)' <=> InCurrentRange(a))
  BY <1>1, Same DEF Queue, InCurrentRange
<1>3. Control'
  BY <1>1, LabelsAre, ControlKept DEF ReadInv
<1>4. Arrays'
  BY <1>1, <1>2, Ranges, RangeArraysKept
<1>5. Places'
  BY <1>1, <1>2 DEF Places, RangeReaders, KeyReaders, BetweenCalls
<1>6. ASSUME NEW e \in trees.lr
      PROVE  Coming(e)' <=> Coming(e)
  <2>1. InRange' /\ InRange
    BY <1>1 DEF InRange
  <2>2. OnOrAfter(e)' <=> OnOrAfter(e)
    BY <1>1, Same DEF OnOrAfter
  <2>3. Place(e)' = Place(e)
    BY <1>1, Same
  <2>4. ComingInRange(e)' <=> ComingInRange(e)
    BY <1>2, <2>1, <2>2, <2>3 DEF ComingInRange
  <2>5. QED
    BY <1>1, <1>2, <2>4 DEF Coming, RangeReaders, KeyReaders
<1>7. Seen'
  BY <1>1, <1>6, Passing DEF ReadInv
<1>8. QED
  BY <1>3, <1>4, <1>5, <1>7 DEF ReadInv

(* The cursor goes on to f or, for lack of it, to the end.                 *)
LEMMA RangeMoves ==
  ASSUME ReadInv, SoundCalls, reader \in RangeReaders, Running,
         UNCHANGED <<trees, call, left, right, label>>,
         InRange, pc' \in {"each_key", "each_data"},
         at' = {} \/ \E f \in Tree : at' = {f},
         NEW e \in trees.lr
  PROVE  /\ (\E f \in at' : Place(e) = f \/ Before(f, Place(e))) /\ OnOrAfter(e) =>
              (Coming(e)' <=> Coming(e))
         /\ ~(\E f \in at' : Place(e) = f \/ Before(f, Place(e))) =>
              (Coming(e)' <=> reader # "0000" /\ Place(e).key[1] \in Range(Tail(Queue)))
         /\ Coming(e) <=> \/ reader = "0000" /\ OnOrAfter(e)
                          \/ reader # "0000" /\ Place(e).key[1] \in Range(Tail(Queue))
                          \/ reader # "0000" /\ Place(e).key[1] = Head(Queue) /\ OnOrAfter(e)
<1>1. reader' = reader /\ Queue' = Queue /\ Place(e)' = Place(e)
  BY Same DEF Queue
<1>2. InRange' /\ pc # "end" /\ pc' # "end"
  BY DEF InRange, Running
<1>3. OnOrAfter(e)' <=> \E f \in at' : Place(e) = f \/ Before(f, Place(e))
  BY <1>1, Same DEF OnOrAfter
<1>4. Coming(e) <=> \/ reader = "0000" /\ OnOrAfter(e)
                    \/ reader # "0000" /\ Place(e).key[1] \in Range(Tail(Queue))
                    \/ reader # "0000" /\ Place(e).key[1] = Head(Queue) /\ OnOrAfter(e)
  BY <1>2 DEF Coming, ComingInRange, RangeReaders, KeyReaders
<1>5. Coming(e)' <=> \/ reader = "0000" /\ OnOrAfter(e)'
                     \/ reader # "0000" /\ Place(e).key[1] \in Range(Tail(Queue))
                     \/ reader # "0000" /\ Place(e).key[1] = Head(Queue) /\ OnOrAfter(e)'
  BY <1>1, <1>2 DEF Coming, ComingInRange, RangeReaders, KeyReaders
<1>6. QED
  BY <1>3, <1>4, <1>5

LEMMA EachKeyEntersAtMinimum ==
  ASSUME ReadInv, SoundCalls, reader = "1001_1101", EachKey, NEW a \in Tree, at = {a}, InCurrentRange(a)
  PROVE  ReadInv'
<1> DEFINE found == LR!GetBothRange(trees.lr, a.key, <<call.ordinal.min, 0>>)
<1>1. /\ pc = "each_key" /\ Running /\ reader \in RangeReaders
      /\ UNCHANGED <<trees, call, left, right, label, at2, seen>>
  BY DEF EachKey, At, Running, selection, arrays, RangeReaders
<1>2. IF found # {} THEN at' = found /\ pc' = "each_data" ELSE at' = NextNodup(a) /\ pc' = "each_key"
  BY DEF EachKey, At, Goto
<1>3. reader' = reader /\ Tree' = Tree /\ Queue' = Queue /\ Tree = trees.lr
      /\ \A x : InCurrentRange(x)' <=> InCurrentRange(x)
  BY <1>1, Same DEF Queue, InCurrentRange, Tree, OverRl
<1>4. HasOrdinal /\ call.ordinal.min \in Nat /\ InRange
  BY <1>1, ReaderIs DEF ReadInv, InRange
<1>5. a.key[1] = Head(Queue) /\ Head(Queue) \in Nat /\ FirstOfKey(a)
  BY <1>1, Ranges, Order DEF ReadInv, Places
<1> HIDE DEF found
<1>6. found # {} => \E f \in Tree :
         /\ found = {f} /\ f.key = a.key
         /\ \A e \in trees.lr : e.key = a.key /\ call.ordinal.min <= e.data[1] =>
              e = f \/ RelationDataBefore(f.data, e.data)
  BY <1>3, <1>4, MinimumLands DEF ReadInv, found
<1>7. found = {} => \A e \in trees.lr : e.key = a.key => ~(call.ordinal.min <= e.data[1])
  BY <1>4, MinimumLands DEF ReadInv, found
<1>8. /\ NextNodup(a) = {} => \A x \in Tree : ~RelationKeyBefore(a.key, x.key)
      /\ NextNodup(a) # {} => \E f \in Tree :
           /\ NextNodup(a) = {f} /\ FirstOfKey(f) /\ RelationKeyBefore(a.key, f.key)
           /\ \A x \in Tree : x = f \/ Before(f, x) <=> RelationKeyBefore(a.key, x.key)
  BY NodupMoves DEF ReadInv
<1>9. Control'
  BY <1>1, <1>2, LabelsAre, ControlKept DEF ReadInv
<1>10. Arrays'
  BY <1>1, <1>3, Ranges, RangeArraysKept
<1>11. at' = {} \/ \E f \in Tree : at' = {f}
  BY <1>2, <1>6, <1>8
<1>12. Places'
  <2>1. \A x : FirstOfKey(x)' <=> FirstOfKey(x)
    BY <1>1, Same
  <2>2. CASE found # {}
    <3>1. PICK f \in Tree : at' = {f} /\ f.key = a.key
      BY <1>2, <1>6, <2>2
    <3>2. InCurrentRange(f)'
      BY <1>1, <1>3, <1>5, <3>1, Ranges
    <3>3. QED
      BY <1>2, <1>3, <2>2, <3>1, <3>2 DEF Places, RangeReaders, KeyReaders, BetweenCalls
  <2>3. CASE found = {}
    <3>1. at' = {} \/ \E f \in Tree : at' = {f} /\ FirstOfKey(f) /\ Head(Queue) <= f.key[1]
      BY <1>2, <1>5, <1>8, <2>3, KeyOrder DEF ReadInv
    <3>2. QED
      BY <1>2, <1>3, <2>1, <2>3, <3>1 DEF Places, RangeReaders, KeyReaders, BetweenCalls
  <2>4. QED
    BY <2>2, <2>3
<1>13. ASSUME NEW e \in trees.lr, Selected(e)
       PROVE  Coming(e)' <=> Coming(e)
  <2>1. Place(e) = e /\ e \in Tree
    BY <1>3 DEF Place, OverRl
  <2>2. call.ordinal.min <= e.data[1]
    BY <1>4, <1>13, SelectedIs, CountedIs DEF ReadInv
  <2>3. OnOrAfter(e) <=> e = a \/ Before(a, e)
    BY <2>1 DEF OnOrAfter
  <2>4. (\E f \in at' : e = f \/ Before(f, e)) <=> OnOrAfter(e)
    <3>1. CASE found # {}
      <4>1. PICK f \in Tree : at' = {f} /\ f.key = a.key
                              /\ (e.key = a.key => e = f \/ RelationDataBefore(f.data, e.data))
        BY <1>2, <1>6, <2>2, <3>1
      <4>2. CASE e.key = a.key
        <5>1. e = f \/ Before(f, e)
          BY <1>3, <4>1, <4>2 DEF Before, DataBefore, OverRl
        <5>2. e = a \/ Before(a, e)
          BY <1>5, <2>1, <4>2 DEF FirstOfKey, Before
        <5>3. QED
          BY <2>3, <4>1, <5>1, <5>2
      <4>3. CASE e.key # a.key
        BY <2>3, <4>1, <4>3 DEF Before
      <4>4. QED
        BY <4>2, <4>3
    <3>2. CASE found = {}
      <4>1. e.key # a.key
        BY <1>7, <2>2, <3>2
      <4>2. OnOrAfter(e) <=> RelationKeyBefore(a.key, e.key)
        BY <2>3, <4>1 DEF Before
      <4>3. at' = NextNodup(a)
        BY <1>2, <3>2
      <4>4. QED
        BY <1>8, <2>1, <4>2, <4>3
    <3>3. QED
      BY <3>1, <3>2
  <2>5. pc' \in {"each_key", "each_data"}
    BY <1>2
  <2>6. QED
    BY <1>1, <1>4, <1>11, <2>1, <2>4, <2>5, RangeMoves
<1>14. Seen'
  BY <1>1, <1>2, <1>13, Passing DEF ReadInv
<1>15. QED
  BY <1>9, <1>10, <1>12, <1>14 DEF ReadInv

LEMMA EachKeyForwards ==
  ASSUME ReadInv, SoundCalls, reader \in RangeReaders, EachKey, ~ \E a \in at : InCurrentRange(a)
  PROVE  ReadInv'
<1>1. /\ pc = "each_key" /\ Running /\ ForwardRange /\ UNCHANGED <<trees, call, at, at2, seen>>
  BY DEF EachKey, At, Running, selection, RangeReaders
<1>2. reader = "0000" => pc' = "end"
  BY <1>1 DEF ForwardRange, EndUnconverted, Goto
<1>3. reader # "0000" => Queue' = Tail(Queue) /\ pc' = IF Tail(Queue) = <<>> THEN "end" ELSE "set_range"
  <2>1. reader' = reader
    BY <1>1, Same
  <2>2. QED
    BY <1>1, <2>1 DEF ForwardRange, OnOrEnd, End, Goto, Queue, OverRl, RangeReaders
<1>4. reader' = reader /\ Tree' = Tree
  BY <1>1, Same
<1>5. Control'
  BY <1>1, <1>2, <1>3, LabelsAre, ControlKept DEF ReadInv
<1>6. Arrays'
  <2>1. reader # "0000" => Rest(Queue, QueueGiven)
    BY <1>1, Ranges
  <2>2. reader # "0000" /\ Tail(Queue) # <<>> => Rest(Tail(Queue), QueueGiven)
    BY <2>1, RestIs
  <2>3. reader # "0000" /\ pc' # "end" => Rest(Queue', QueueGiven)
    BY <1>3, <2>2
  <2>4. QED
    BY <1>1, <2>3, RangeArraysKept
<1>7. Places'
  BY <1>2, <1>3, <1>4 DEF Places, RangeReaders, KeyReaders, BetweenCalls
<1>8. ASSUME NEW e \in trees.lr
      PROVE  Coming(e)' <=> Coming(e)
  <2>1. Place(e)' = Place(e) /\ Place(e) \in Tree
    BY <1>1, Same, TreeTyped DEF ReadInv
  <2>2. reader = "0000" => ~OnOrAfter(e)
    BY <1>1, Ranges DEF OnOrAfter
  <2>3. reader # "0000" /\ Place(e).key[1] = Head(Queue) => ~OnOrAfter(e)
    <3>1. SUFFICES ASSUME reader # "0000", Place(e).key[1] = Head(Queue), OnOrAfter(e) PROVE FALSE
      OBVIOUS
    <3>2. PICK a \in Tree : at = {a} /\ Head(Queue) <= a.key[1]
      BY <1>1, <3>1 DEF ReadInv, Places, OnOrAfter
    <3>3. a.key[1] # Head(Queue)
      BY <1>1, <3>1, <3>2, Ranges
    <3>4. Place(e) = a \/ Before(a, Place(e))
      BY <3>1, <3>2 DEF OnOrAfter
    <3>5. a.key[1] <= Place(e).key[1]
      BY <2>1, <3>2, <3>4, KeyOrder, TreeTyped DEF ReadInv, Before
    <3>6. a.key[1] \in Nat /\ Head(Queue) \in Nat
      BY <1>1, <3>1, <3>2, Ranges, TreeTyped DEF ReadInv
    <3>7. QED
      BY <3>1, <3>2, <3>3, <3>5, <3>6
  <2>4. InRange /\ (pc' # "end" => ~InRange')
    BY <1>1, <1>2, <1>3 DEF InRange, BetweenCalls
  <2>5. Coming(e) <=> reader # "0000" /\ Place(e).key[1] \in Range(Tail(Queue))
    BY <1>1, <2>2, <2>3, <2>4 DEF Coming, ComingInRange, RangeReaders, KeyReaders
  <2>6. pc' # "end" => (Coming(e)' <=> Place(e).key[1] \in Range(Queue'))
    <3>1. SUFFICES ASSUME pc' # "end" PROVE Coming(e)' <=> Place(e).key[1] \in Range(Queue')
      OBVIOUS
    <3>2. reader # "0000" /\ Rest(Queue', QueueGiven)
      <4>1. reader # "0000" /\ Tail(Queue) # <<>> /\ Queue' = Tail(Queue)
        BY <1>2, <1>3, <3>1
      <4>2. Rest(Queue, QueueGiven)
        BY <1>1, <4>1, Ranges
      <4>3. QED
        BY <4>1, <4>2, RestIs
    <3>3. Range(Queue') = {Head(Queue')} \cup Range(Tail(Queue'))
      BY <3>2, RestIs
    <3>4. QED
      BY <1>4, <2>1, <2>4, <3>1, <3>2, <3>3 DEF Coming, ComingInRange, RangeReaders, KeyReaders
  <2>7. CASE pc' = "end"
    <3>1. reader # "0000" => Range(Tail(Queue)) = {}
      BY <1>1, <1>3, <2>7, Ranges, RestIs
    <3>2. QED
      BY <2>5, <2>7, <3>1 DEF Coming
  <2>8. CASE pc' # "end"
    BY <1>2, <1>3, <2>5, <2>6, <2>8
  <2>9. QED
    BY <2>7, <2>8
<1>9. pc' # "closed" /\ pc # "closed"
  BY <1>1, <1>2, <1>3
<1>10. Seen'
  BY <1>1, <1>8, <1>9, Passing DEF ReadInv
<1>11. QED
  BY <1>5, <1>6, <1>7, <1>10 DEF ReadInv

LEMMA RelationAtIs ==
  ASSUME Control, NEW t \in trees.lr
  PROVE  RelationAt(Place(t)) = Relation(t)
BY DEF RelationAt, Relation, Place, RlOf, Rl

(* An entry of lr with more than the maximum: nor do the ones behind it.   *)
LEMMA AboveStays ==
  ASSUME Control, SoundCalls, reader \notin OverRl, NEW d \in trees.lr, NEW e \in trees.lr, Above(d),
         d.key = e.key, Before(d, e)
  PROVE  Above(e)
<1>1. d \in LrEntry /\ e \in LrEntry /\ d \in Tree /\ e \in Tree
  BY TreesAgree DEF Tree
<1>2. RelationDataBefore(d.data, e.data)
  BY <1>1, KeyOrder DEF Before, DataBefore
<1>3. d.data[1] \in Nat /\ e.data[1] \in Nat
  BY <1>1, LrTyped
<1>4. HasOrdinal /\ call.ordinal.max \in Nat /\ d.data[1] > call.ordinal.max /\ call.ordinal.max # 0
  BY ReaderIs DEF Above
<1>5. d.data[1] <= e.data[1]
  BY <1>2, <1>3 DEF RelationDataBefore
<1>6. e.data[1] > call.ordinal.max
  BY <1>3, <1>4, <1>5
<1>7. QED
  BY <1>4, <1>6 DEF Above

(* The step from an entry to the next of its key or to the next key.       *)
LEMMA DataMoves ==
  ASSUME Control, SoundCalls, NEW a \in Tree, NEW next,
         Above(a) => reader \notin OverRl,
         next = IF ~Above(a) /\ NextDup(a) # {} THEN NextDup(a) ELSE NextNodup(a)
  PROVE  \A e \in trees.lr : Selected(e) /\ ~Above(Place(e)) =>
           ((\E f \in next : Place(e) = f \/ Before(f, Place(e))) <=> Before(a, Place(e)))
<1> SUFFICES ASSUME NEW e \in trees.lr, Selected(e), ~Above(Place(e))
             PROVE  (\E f \in next : Place(e) = f \/ Before(f, Place(e))) <=> Before(a, Place(e))
  OBVIOUS
<1>1. Place(e) \in Tree
  BY TreeTyped
<1>2. CASE ~Above(a) /\ NextDup(a) # {}
  BY <1>1, <1>2, DupMoves
<1>3. CASE Above(a) \/ NextDup(a) = {}
  <2>1. Before(a, Place(e)) <=> RelationKeyBefore(a.key, Place(e).key)
    <3>1. CASE NextDup(a) = {}
      BY <1>1, <3>1, DupMoves
    <3>2. CASE Above(a)
      <4>1. Tree = trees.lr /\ Place(e) = e
        BY <3>2 DEF Tree, Place
      <4>2. ~(a.key = e.key /\ Before(a, e))
        BY <1>3, <3>2, <4>1, AboveStays
      <4>3. QED
        BY <4>1, <4>2 DEF Before
    <3>3. QED
      BY <1>3, <3>1, <3>2
  <2>2. next = NextNodup(a)
    BY <1>3
  <2>3. QED
    BY <1>1, <2>1, <2>2, NodupMoves
<1>4. QED
  BY <1>2, <1>3

LEMMA RangeSelects ==
  ASSUME ReadInv, SoundCalls, reader \in RangeReaders, Running, NEW t \in trees.lr,
         InCurrentRange(Place(t))
  PROVE  Selected(t) <=> ~Above(Place(t)) /\ Counted(Place(t))
<1>1. reader # "0000" => Head(Queue) \in Ids(QueueGiven) /\ Place(t).key[1] = Head(Queue)
  BY Ranges, RestIs DEF ReadInv
<1>2. Place(t).key[1] = IF reader \in OverRl THEN t.data[2] ELSE t.key[1]
  BY TreeTyped DEF ReadInv
<1>3. reader # "1001_1101" => ~HasOrdinal
  BY ReaderIs DEF ReadInv, RangeReaders, KeyReaders
<1>4. reader # "1001_1101" => ~Above(Place(t)) /\ Counted(Place(t))
  BY <1>3, NoOrdinal
<1>5. reader = "1001_1101" => Place(t) = t
  BY DEF Place, OverRl
<1>6. reader \in {"1000", "1001_1101"} => t.key[1] \in Ids(call.left)
  BY <1>1, <1>2 DEF QueueGiven, OverRl
<1>7. reader = "0100" => t.data[2] \in Ids(call.right)
  BY <1>1, <1>2 DEF QueueGiven, OverRl
<1>8. QED
  BY <1>4, <1>5, <1>6, <1>7, SelectedIs DEF ReadInv, RangeReaders

LEMMA EachDataOfRangeInv ==
  ASSUME ReadInv, SoundCalls, EachDataOfRange
  PROVE  ReadInv'
<1>1. /\ pc = "each_data" /\ Running /\ reader \in RangeReaders /\ InRange
      /\ UNCHANGED <<trees, call, left, right, label, at2>>
  BY DEF EachDataOfRange, At, Running, InRange, selection, arrays
<1>2. PICK a \in Tree : at = {a} /\ InCurrentRange(a)
  BY <1>1 DEF ReadInv, Places
<1>3. PICK t \in trees.lr : a = Place(t)
  BY TreeTyped DEF ReadInv
<1> DEFINE again == ~Above(a) /\ NextDup(a) # {}
           next == IF again THEN NextDup(a) ELSE NextNodup(a)
<1>4. /\ IF ~Above(a) /\ Counted(a) THEN Take(RelationAt(a)) ELSE Pass
      /\ at' = next /\ pc' = IF again THEN "each_data" ELSE "each_key"
  BY <1>2 DEF EachDataOfRange, Goto
<1>5. Selected(t) <=> ~Above(a) /\ Counted(a)
  BY <1>1, <1>2, <1>3, RangeSelects
<1>6. IF Selected(t) THEN seen' = Append(seen, Relation(t)) ELSE seen' = seen
  BY <1>3, <1>4, <1>5, RelationAtIs DEF ReadInv, Take, Pass
<1>7. reader' = reader /\ Tree' = Tree /\ Queue' = Queue
      /\ \A x : InCurrentRange(x)' <=> InCurrentRange(x)
  BY <1>1, Same DEF Queue, InCurrentRange
<1>8. /\ again => \E f \in Tree : next = {f} /\ f.key = a.key
      /\ ~again => next = {} \/ \E f \in Tree : /\ next = {f} /\ FirstOfKey(f)
                                                /\ RelationKeyBefore(a.key, f.key)
  BY DupMoves, NodupMoves DEF ReadInv
<1>9. Above(a) => reader \notin OverRl
  BY <1>1, ReaderIs DEF ReadInv, Above, OverRl, RangeReaders
<1>10. \A e \in trees.lr : Selected(e) /\ ~Above(Place(e)) =>
         ((\E f \in next : Place(e) = f \/ Before(f, Place(e))) <=> Before(a, Place(e)))
  BY <1>9, DataMoves DEF ReadInv
<1> HIDE DEF next, again
<1>11. Control'
  BY <1>1, <1>4, LabelsAre, ControlKept DEF ReadInv
<1>12. Arrays'
  BY <1>1, <1>7, Ranges, RangeArraysKept
<1>13. Places'
  <2>1. CASE again
    <3>1. PICK f \in Tree : at' = {f} /\ f.key = a.key
      BY <1>4, <1>8, <2>1
    <3>2. InCurrentRange(f)'
      BY <1>1, <1>2, <1>7, <3>1, Ranges
    <3>3. QED
      BY <1>1, <1>4, <1>7, <2>1, <3>1, <3>2 DEF Places, RangeReaders, KeyReaders, BetweenCalls
  <2>2. CASE ~again
    <3>1. reader # "0000" => a.key[1] = Head(Queue)
      BY <1>1, <1>2, Ranges
    <3>2. at' = {} \/ \E f \in Tree : /\ at' = {f} /\ FirstOfKey(f)
                                      /\ reader # "0000" => Head(Queue) <= f.key[1]
      BY <1>4, <1>8, <2>2, <3>1, KeyOrder DEF ReadInv
    <3>3. \A x : FirstOfKey(x)' <=> FirstOfKey(x)
      BY <1>1, Same
    <3>4. QED
      BY <1>1, <1>4, <1>7, <2>2, <3>2, <3>3 DEF Places, RangeReaders, KeyReaders, BetweenCalls
  <2>3. QED
    BY <2>1, <2>2
<1>14. ASSUME NEW e \in trees.lr, Selected(e)
       PROVE  Coming(e)' <=> Coming(e) /\ e # t
  <2>1. ~Above(Place(e))
    <3>1. reader = "1001_1101" => ~Above(e) /\ Place(e) = e
      BY <1>14, SelectedIs DEF ReadInv, Place, OverRl
    <3>2. reader # "1001_1101" => ~HasOrdinal
      BY <1>1, ReaderIs DEF ReadInv, RangeReaders, KeyReaders
    <3>3. QED
      BY <3>1, <3>2, NoOrdinal
  <2>2. Place(e) \in Tree /\ (Place(e) = a <=> e = t)
    BY <1>3, TreeTyped DEF ReadInv
  <2>3. OnOrAfter(e) <=> e = t \/ Before(a, Place(e))
    BY <1>2, <2>2 DEF OnOrAfter
  <2>4. ~Before(a, a)
    BY Order DEF ReadInv
  <2>5. (\E f \in at' : Place(e) = f \/ Before(f, Place(e))) <=> OnOrAfter(e) /\ e # t
    BY <1>4, <1>10, <1>14, <2>1, <2>2, <2>3, <2>4
  <2>6. at' = {} \/ \E f \in Tree : at' = {f}
    BY <1>4, <1>8
  <2>7. e = t /\ reader # "0000" => Place(e).key[1] = Head(Queue) /\ Head(Queue) \notin Range(Tail(Queue))
    BY <1>1, <1>2, <1>3, Ranges, RestIs
  <2>8. pc' \in {"each_key", "each_data"}
    BY <1>4
  <2>9. /\ (\E f \in at' : Place(e) = f \/ Before(f, Place(e))) /\ OnOrAfter(e) =>
             (Coming(e)' <=> Coming(e))
        /\ ~(\E f \in at' : Place(e) = f \/ Before(f, Place(e))) =>
             (Coming(e)' <=> reader # "0000" /\ Place(e).key[1] \in Range(Tail(Queue)))
        /\ Coming(e) <=> \/ reader = "0000" /\ OnOrAfter(e)
                         \/ reader # "0000" /\ Place(e).key[1] \in Range(Tail(Queue))
                         \/ reader # "0000" /\ Place(e).key[1] = Head(Queue) /\ OnOrAfter(e)
    BY <1>1, <2>6, <2>8, RangeMoves
  <2>10. QED
    BY <2>5, <2>7, <2>9
<1>15. Coming(t)
  <2>1. OnOrAfter(t) /\ (reader # "0000" => Place(t).key[1] = Head(Queue))
    BY <1>1, <1>2, <1>3, Ranges DEF OnOrAfter
  <2>2. QED
    BY <1>1, <2>1 DEF Coming, ComingInRange
<1>16. Seen'
  <2>1. pc # "closed" /\ pc' # "closed"
    BY <1>1, <1>4
  <2>2. CASE Selected(t)
    BY <1>1, <1>6, <1>14, <1>15, <2>1, <2>2, Taking DEF ReadInv
  <2>3. CASE ~Selected(t)
    BY <1>1, <1>6, <1>14, <2>1, <2>3, Passing DEF ReadInv
  <2>4. QED
    BY <2>2, <2>3
<1>17. QED
  BY <1>11, <1>12, <1>13, <1>16 DEF ReadInv
-----------------------------------------------------------------------------
(* 1100: every left under each key of a right.                             *)
LEMMA ByLeft ==
  ASSUME ReadInv, SoundCalls, reader = "1100", Running
  PROVE  /\ Rest(left, call.left) /\ Rest(right, call.right)
         /\ Rest(call.left, call.left) /\ Ids(call.left) = Range(call.left)
         /\ Head(right) \in Nat /\ \A x : InCurrentRange(x) <=> x.key[1] = Head(right)
         /\ Tree = trees.rl /\ \A e : Place(e) = RlOf(e)
<1>1. Rest(left, call.left) /\ Rest(right, call.right)
  BY DEF ReadInv, Arrays, OverRl
<1>2. Rest(call.left, call.left) /\ Ids(call.left) = Range(call.left)
  BY ReaderIs, RestStarts DEF ReadInv
<1>3. Head(right) \in Nat /\ \A x : InCurrentRange(x) <=> x.key[1] = Head(right)
  BY Ranges DEF Queue, OverRl
<1>4. Tree = trees.rl /\ \A e : Place(e) = RlOf(e)
  BY DEF Tree, Place, OverRl
<1>5. QED
  BY <1>1, <1>2, <1>3, <1>4

LEMMA ByLeftArraysKept ==
  ASSUME reader = "1100", UNCHANGED <<trees, call>>,
         pc' # "end" => /\ Rest(left', call.left) /\ Rest(right', call.right)
                        /\ left' = call.left \/ (InRange' /\ pc' # "each_key")
  PROVE  Arrays'
<1>1. reader' = reader /\ call' = call
  BY Same
<1>2. QED
  BY <1>1 DEF Arrays, Running, KeyReaders, OverRl, Rest

LEMMA ByLeftComing ==
  ASSUME reader = "1100", NEW e
  PROVE  Coming(e) <=> pc # "end" /\ ComingByLeft(e)
BY DEF Coming, RangeReaders, KeyReaders

LEMMA ResumeByLeftInv ==
  ASSUME ReadInv, SoundCalls, reader = "1100", ResumeRange
  PROVE  ReadInv'
<1>1. /\ pc = "resume" /\ Running /\ UNCHANGED <<trees, call, left, right, label, at, at2, seen>>
      /\ pc' = IF ~ \E e \in at : InCurrentRange(e) THEN "set_range" ELSE "each_left"
  BY DEF ResumeRange, At, Running, Goto, selection, arrays
<1>2. PICK a \in Tree : at = {a}
  BY <1>1 DEF ReadInv, Places, BetweenCalls
<1>3. reader' = reader /\ Tree' = Tree /\ (\A x : InCurrentRange(x)' <=> InCurrentRange(x))
  BY <1>1, Same DEF InCurrentRange
<1>4. InRange' <=> InRange
  BY <1>1, <1>3 DEF InRange, BetweenCalls
<1>5. Control'
  BY <1>1, LabelsAre, ControlKept DEF ReadInv
<1>6. Arrays'
  <2>1. left = call.left \/ InRange
    BY <1>1 DEF ReadInv, Arrays
  <2>2. QED
    BY <1>1, <1>4, <2>1, ByLeft, ByLeftArraysKept
<1>7. Places'
  BY <1>1, <1>2, <1>3 DEF Places, RangeReaders, KeyReaders, BetweenCalls
<1>8. ASSUME NEW e \in trees.lr
      PROVE  Coming(e)' <=> Coming(e)
  <2>1. Place(e)' = Place(e)
    BY <1>1, Same
  <2>2. ComingByLeft(e)' <=> ComingByLeft(e)
    BY <1>1, <1>4, <2>1 DEF ComingByLeft
  <2>3. QED
    BY <1>1, <1>3, <2>2 DEF Coming, RangeReaders, KeyReaders
<1>9. Seen'
  BY <1>1, <1>8, Passing DEF ReadInv
<1>10. QED
  BY <1>5, <1>6, <1>7, <1>9 DEF ReadInv

LEMMA SetRangeByLeftInv ==
  ASSUME ReadInv, SoundCalls, reader = "1100", SetRange
  PROVE  ReadInv'
<1>1. /\ pc = "set_range" /\ pc' = "each_key" /\ Running
      /\ UNCHANGED <<trees, call, left, right, label, at2, seen>>
  BY DEF SetRange, Running, Goto, selection, arrays
<1>2. at' = RangeOf(Head(right))
  BY DEF SetRange, RangeOf, OverRl
<1>3. Head(right) \in Nat
  BY <1>1, ByLeft
<1>4. reader' = reader /\ Tree' = Tree /\ Queue' = right /\ ~InRange /\ InRange'
  BY <1>1, Same DEF Queue, OverRl, InRange, BetweenCalls
<1>5. left = call.left
  BY <1>1, <1>4 DEF ReadInv, Arrays
<1>6. Control'
  BY <1>1, LabelsAre, ControlKept DEF ReadInv
<1>7. Arrays'
  BY <1>1, <1>5, ByLeft, ByLeftArraysKept
<1>8. at' = {} \/ \E f \in Tree : at' = {f} /\ FirstOfKey(f) /\ Head(right) <= f.key[1]
  BY <1>2, <1>3, RangeLands DEF ReadInv
<1>9. Places'
  <2>1. \A x : FirstOfKey(x)' <=> FirstOfKey(x)
    BY <1>1, Same
  <2>2. QED
    BY <1>1, <1>4, <1>8, <2>1 DEF Places, RangeReaders, KeyReaders, BetweenCalls
<1>10. ASSUME NEW e \in trees.lr, Selected(e)
       PROVE  Coming(e)' <=> Coming(e)
  <2>1. Place(e)' = Place(e) /\ Place(e) \in Tree /\ Place(e).key[1] = e.data[2]
    BY <1>1, Same, TreeTyped DEF ReadInv, OverRl
  <2>2. e.key[1] \in Range(left)
    BY <1>1, <1>5, <1>10, SelectedIs, ByLeft DEF ReadInv
  <2>3. ASSUME e.data[2] = Head(right)
        PROVE  \E a \in at' : RelationKeyBefore(a.key, Place(e).key) \/ a.key = Place(e).key
    <3>1. Head(right) <= Place(e).key[1]
      BY <1>3, <2>1, <2>3
    <3>2. PICK f \in Tree : at' = {f} /\ (Place(e) = f \/ Before(f, Place(e)))
      BY <1>2, <1>3, <2>1, <3>1, RangeLands DEF ReadInv
    <3>3. QED
      BY <3>2 DEF Before
  <2>4. ComingByLeft(e)' <=> ComingByLeft(e)
    BY <1>1, <1>4, <2>1, <2>2, <2>3 DEF ComingByLeft
  <2>5. QED
    BY <1>1, <1>4, <2>4 DEF Coming, RangeReaders, KeyReaders
<1>11. Seen'
  BY <1>1, <1>10, Passing DEF ReadInv
<1>12. QED
  BY <1>6, <1>7, <1>9, <1>11 DEF ReadInv

LEMMA EachKeyByLeftInv ==
  ASSUME ReadInv, SoundCalls, reader = "1100", EachKey
  PROVE  ReadInv'
<1>1. /\ pc = "each_key" /\ Running /\ InRange
      /\ UNCHANGED <<trees, call, left, label, at, at2, seen>>
      /\ IF \E e \in at : InCurrentRange(e) THEN pc' = "each_left" /\ right' = right
         ELSE right' = Tail(right) /\ pc' = IF Tail(right) = <<>> THEN "end" ELSE "set_range"
  BY DEF EachKey, At, Running, InRange, selection, arrays, Goto, ForwardRange, OnOrEnd, End
<1>2. left = call.left
  BY <1>1 DEF ReadInv, Arrays
<1>3. reader' = reader /\ Tree' = Tree /\ Queue = right
  BY <1>1, Same DEF Queue, OverRl
<1>4. Control'
  BY <1>1, LabelsAre, ControlKept DEF ReadInv
<1>5. Rest(right, call.right) /\ (Tail(right) # <<>> => Rest(Tail(right), call.right))
  BY <1>1, ByLeft, RestIs
<1>6. Arrays'
  BY <1>1, <1>2, <1>5, ByLeft, ByLeftArraysKept
<1>7. Places'
  <2>1. CASE \E e \in at : InCurrentRange(e)
    <3>1. PICK a \in Tree : at = {a} /\ InCurrentRange(a)
      BY <1>1, <2>1 DEF ReadInv, Places
    <3>2. InCurrentRange(a)'
      BY <1>1, <1>3, <2>1, <3>1 DEF InCurrentRange
    <3>3. QED
      BY <1>1, <1>3, <2>1, <3>1, <3>2 DEF Places, RangeReaders, KeyReaders, BetweenCalls
  <2>2. CASE ~ \E e \in at : InCurrentRange(e)
    BY <1>1, <1>3, <2>2 DEF Places, RangeReaders, KeyReaders, BetweenCalls
  <2>3. QED
    BY <2>1, <2>2
<1>8. ASSUME NEW e \in trees.lr
      PROVE  Coming(e)' <=> Coming(e)
  <2>1. Place(e)' = Place(e) /\ Place(e) \in Tree /\ Place(e).key[1] = e.data[2]
    BY <1>1, Same, TreeTyped DEF ReadInv, OverRl
  <2>2. Coming(e) <=> ComingByLeft(e)
    BY <1>1, ByLeftComing
  <2>3. CASE \E x \in at : InCurrentRange(x)
    <3>1. InRange' /\ pc' # "end"
      BY <1>1, <2>3 DEF InRange
    <3>2. Coming(e)' <=> ComingByLeft(e)'
      BY <1>3, <3>1 DEF Coming, RangeReaders, KeyReaders
    <3>3. ComingByLeft(e)' <=> ComingByLeft(e)
      BY <1>1, <2>1, <2>3, <3>1 DEF ComingByLeft
    <3>4. QED
      BY <2>2, <3>2, <3>3
  <2>4. CASE ~ \E x \in at : InCurrentRange(x)
    <3>1. ASSUME e.data[2] = Head(right), NEW a \in at,
                 RelationKeyBefore(a.key, Place(e).key) \/ a.key = Place(e).key
          PROVE  FALSE
      <4>1. a \in Tree /\ Head(right) <= a.key[1] /\ a.key[1] # Head(right)
        BY <1>1, <1>3, <2>4, <3>1, ByLeft DEF ReadInv, Places
      <4>2. a.key[1] <= Place(e).key[1]
        BY <2>1, <3>1, <4>1, KeyOrder, TreeTyped DEF ReadInv
      <4>3. a.key[1] \in Nat /\ Head(right) \in Nat
        BY <1>1, <4>1, TreeTyped, ByLeft DEF ReadInv
      <4>4. QED
        BY <2>1, <3>1, <4>1, <4>2, <4>3
    <3>2. Coming(e) <=> e.data[2] \in Range(Tail(right))
      BY <1>1, <2>2, <3>1 DEF ComingByLeft
    <3>3. CASE Tail(right) = <<>>
      <4>1. Range(Tail(right)) = {} /\ pc' = "end"
        BY <1>1, <1>5, <2>4, <3>3, RestIs
      <4>2. QED
        BY <3>2, <4>1 DEF Coming
    <3>4. CASE Tail(right) # <<>>
      <4>1. pc' = "set_range" /\ right' = Tail(right) /\ ~InRange'
        BY <1>1, <2>4, <3>4 DEF InRange, BetweenCalls
      <4>2. Range(Tail(right)) = {Head(Tail(right))} \cup Range(Tail(Tail(right)))
        BY <1>5, <3>4, RestIs
      <4>3. Coming(e)' <=> ComingByLeft(e)'
        BY <1>3, <4>1 DEF Coming, RangeReaders, KeyReaders
      <4>4. ComingByLeft(e)' <=> e.data[2] \in Range(Tail(right))
        BY <4>1, <4>2 DEF ComingByLeft
      <4>5. QED
        BY <3>2, <4>3, <4>4
    <3>5. QED
      BY <3>3, <3>4
  <2>5. QED
    BY <2>3, <2>4
<1>9. pc # "closed" /\ pc' # "closed"
  BY <1>1
<1>10. Seen'
  BY <1>1, <1>8, <1>9, Passing DEF ReadInv
<1>11. QED
  BY <1>4, <1>6, <1>7, <1>10 DEF ReadInv

LEMMA EachLeftInv ==
  ASSUME ReadInv, SoundCalls, EachLeft
  PROVE  ReadInv'
<1>1. /\ pc = "each_left" /\ Running /\ reader = "1100" /\ InRange
      /\ UNCHANGED <<trees, call, right, label, at2>>
  BY DEF EachLeft, At, Running, InRange, selection
<1>2. PICK a \in Tree : at = {a} /\ InCurrentRange(a)
  BY <1>1 DEF ReadInv, Places
<1> DEFINE found == RL!GetBoth(trees.rl, a.key, Head(left))
           onward == Tail(left) # <<>>
<1>3. /\ IF found = {} THEN Pass ELSE seen' = Append(seen, <<Head(left), a.key[2], a.key[1]>>)
      /\ IF onward THEN left' = Tail(left) /\ pc' = "each_left" /\ at' = IF found = {} THEN at ELSE found
         ELSE left' = call.left /\ pc' = "each_key" /\ at' = NextNodup(a)
  BY <1>2 DEF EachLeft, Goto
<1>4. /\ Rest(left, call.left) /\ Rest(right, call.right) /\ Rest(call.left, call.left)
      /\ Ids(call.left) = Range(call.left)
      /\ a.key[1] = Head(right) /\ Head(right) \in Nat /\ Tree = trees.rl /\ \A e : Place(e) = RlOf(e)
  BY <1>1, <1>2, ByLeft
<1>5. /\ Head(left) \in Ids(call.left) /\ Head(left) \notin Range(Tail(left))
      /\ Range(left) = {Head(left)} \cup Range(Tail(left))
      /\ onward => Rest(Tail(left), call.left)
      /\ ~onward => Range(Tail(left)) = {}
      /\ Head(right) \in Ids(call.right) /\ Head(right) \notin Range(Tail(right))
  BY <1>4, RestIs
<1>6. found = {x \in Tree : x.key = a.key /\ x.data = Head(left)}
  BY <1>4 DEF RL!GetBoth
<1>7. \A x, y \in found : x = y
  BY <1>6, TreeTyped DEF ReadInv
<1>8. found # {} => \E f \in Tree : found = {f} /\ f.key = a.key /\ f.data = Head(left)
  BY <1>6, <1>7
<1>9. /\ NextNodup(a) = {} => \A x \in Tree : ~RelationKeyBefore(a.key, x.key)
      /\ NextNodup(a) # {} => \E f \in Tree :
           /\ NextNodup(a) = {f} /\ FirstOfKey(f) /\ RelationKeyBefore(a.key, f.key)
           /\ \A x \in Tree : x = f \/ Before(f, x) <=> RelationKeyBefore(a.key, x.key)
  BY NodupMoves DEF ReadInv
<1>10. reader' = reader /\ Tree' = Tree /\ Queue' = right /\ Queue = right
       /\ \A x : InCurrentRange(x)' <=> InCurrentRange(x)
  <2>1. reader' = reader /\ Tree' = Tree
    BY <1>1, Same
  <2>2. QED
    BY <1>1, <2>1 DEF Queue, OverRl, InCurrentRange
<1> HIDE DEF found, onward
<1>11. Control'
  BY <1>1, <1>3, LabelsAre, ControlKept DEF ReadInv
<1>12. InRange'
  BY <1>3 DEF InRange
<1>13. Arrays'
  BY <1>1, <1>3, <1>4, <1>5, <1>12, ByLeftArraysKept
<1>14. Places'
  <2>1. CASE onward
    <3>1. PICK f \in Tree : at' = {f} /\ f.key = a.key
      BY <1>2, <1>3, <1>8, <2>1
    <3>2. InCurrentRange(f)
      BY <1>1, <1>4, <3>1, ByLeft
    <3>3. QED
      BY <1>1, <1>3, <1>10, <2>1, <3>1, <3>2 DEF Places, RangeReaders, KeyReaders, BetweenCalls
  <2>2. CASE ~onward
    <3>1. at' = {} \/ \E f \in Tree : at' = {f} /\ FirstOfKey(f) /\ Head(right) <= f.key[1]
      BY <1>3, <1>4, <1>9, <2>2, KeyOrder DEF ReadInv
    <3>2. \A x : FirstOfKey(x)' <=> FirstOfKey(x)
      BY <1>1, Same
    <3>3. QED
      BY <1>1, <1>3, <1>10, <2>2, <3>1, <3>2 DEF Places, RangeReaders, KeyReaders, BetweenCalls
  <2>3. QED
    BY <2>1, <2>2
<1>15. ASSUME NEW e \in trees.lr, Selected(e)
       PROVE  Coming(e)' <=> Coming(e) /\ ~(Place(e).key = a.key /\ e.key[1] = Head(left))
  <2>1. Place(e)' = Place(e) /\ Place(e) \in Tree /\ Place(e).key[1] = e.data[2]
    BY <1>1, Same, TreeTyped DEF ReadInv, OverRl
  <2>2. e.key[1] \in Range(call.left)
    BY <1>1, <1>4, <1>15, SelectedIs DEF ReadInv
  <2>3. Coming(e) <=> \/ e.data[2] \in Range(Tail(right))
                      \/ /\ e.data[2] = Head(right)
                         /\ \/ RelationKeyBefore(a.key, Place(e).key)
                            \/ a.key = Place(e).key /\ e.key[1] \in Range(left)
    BY <1>1, <1>2, ByLeftComing DEF ComingByLeft
  <2>4. Coming(e)' <=> \/ e.data[2] \in Range(Tail(right))
                       \/ /\ e.data[2] = Head(right)
                          /\ \E f \in at' : \/ RelationKeyBefore(f.key, Place(e).key)
                                            \/ f.key = Place(e).key /\ e.key[1] \in Range(left')
    <3>1. pc' # "end"
      BY <1>3
    <3>2. Coming(e)' <=> ComingByLeft(e)'
      BY <1>1, <1>10, <3>1 DEF Coming, RangeReaders, KeyReaders
    <3>3. QED
      BY <1>1, <1>12, <2>1, <3>2 DEF ComingByLeft
  <2>5. (\E f \in at' : \/ RelationKeyBefore(f.key, Place(e).key)
                        \/ f.key = Place(e).key /\ e.key[1] \in Range(left'))
        <=> \/ RelationKeyBefore(a.key, Place(e).key)
            \/ a.key = Place(e).key /\ e.key[1] \in Range(left) /\ e.key[1] # Head(left)
    <3>1. CASE onward
      <4>1. PICK f \in Tree : at' = {f} /\ f.key = a.key
        BY <1>2, <1>3, <1>8, <3>1
      <4>2. e.key[1] \in Range(left') <=> e.key[1] \in Range(left) /\ e.key[1] # Head(left)
        BY <1>3, <1>5, <3>1
      <4>3. QED
        BY <4>1, <4>2
    <3>2. CASE ~onward
      <4>1. at' = NextNodup(a) /\ left' = call.left
        BY <1>3, <3>2
      <4>2. ~(e.key[1] \in Range(left) /\ e.key[1] # Head(left))
        BY <1>5, <3>2
      <4>3. RelationKeyBefore(a.key, Place(e).key) <=>
              \E f \in at' : RelationKeyBefore(f.key, Place(e).key) \/ f.key = Place(e).key
        <5>1. CASE at' = {}
          BY <1>9, <2>1, <4>1, <5>1
        <5>2. CASE at' # {}
          <6>1. PICK f \in Tree : at' = {f} /\ RelationKeyBefore(a.key, f.key)
                            /\ (Place(e) = f \/ Before(f, Place(e)) <=> RelationKeyBefore(a.key, Place(e).key))
            BY <1>9, <2>1, <4>1, <5>2
          <6>2. RelationKeyBefore(f.key, Place(e).key) => RelationKeyBefore(a.key, Place(e).key)
            BY <6>1 DEF Before
          <6>3. QED
            BY <6>1, <6>2 DEF Before
        <5>3. QED
          BY <5>1, <5>2
      <4>4. QED
        BY <2>2, <4>1, <4>2, <4>3
    <3>3. QED
      BY <3>1, <3>2
  <2>6. a.key = Place(e).key => e.data[2] = Head(right) /\ ~RelationKeyBefore(a.key, Place(e).key)
    BY <1>4, <2>1, KeyOrder DEF ReadInv
  <2>7. QED
    BY <1>5, <2>3, <2>4, <2>5, <2>6
<1>16. \A t \in trees.lr : /\ Place(t).data = t.key[1] /\ Place(t).key = <<t.data[2], t.key[2]>>
                           /\ Relation(t) = <<Place(t).data, Place(t).key[2], Place(t).key[1]>>
  BY <1>4 DEF Relation, RlOf, Rl
<1>17. pc # "closed" /\ pc' # "closed"
  BY <1>1, <1>3
<1>18. CASE found # {}
  <2>1. PICK f \in Tree : found = {f} /\ f.key = a.key /\ f.data = Head(left)
    BY <1>8, <1>18
  <2>2. PICK t \in trees.lr : f = Place(t)
    BY TreeTyped DEF ReadInv
  <2>3. seen' = Append(seen, Relation(t))
    BY <1>3, <1>16, <1>18, <2>1, <2>2
  <2>4. t.key[1] = Head(left) /\ t.data[2] = Head(right)
    <3>1. t.key[1] = Head(left)
      BY <1>16, <2>1, <2>2
    <3>2. t.data[2] = f.key[1]
      BY <1>16, <2>2
    <3>3. QED
      BY <1>4, <2>1, <3>1, <3>2
  <2>5. Selected(t)
    BY <1>1, <1>5, <2>4, SelectedIs DEF ReadInv
  <2>6. Coming(t)
    <3>1. a.key = Place(t).key /\ t.key[1] \in Range(left)
      BY <1>5, <2>1, <2>2, <2>4
    <3>2. ComingByLeft(t)
      BY <1>2, <2>4, <3>1 DEF ComingByLeft
    <3>3. QED
      BY <1>1, <3>2, ByLeftComing
  <2>7. ASSUME NEW e \in trees.lr, Selected(e) PROVE Coming(e)' <=> Coming(e) /\ e # t
    <3>1. Place(e).key = a.key /\ e.key[1] = Head(left) => Place(e) = f
      BY <1>16, <2>1, <2>7, TreeTyped DEF ReadInv
    <3>2. Place(e) = f => e = t
      BY <2>2, <2>7, TreeTyped DEF ReadInv
    <3>3. e = t => Place(e).key = a.key /\ e.key[1] = Head(left)
      BY <2>1, <2>2, <2>4
    <3>4. QED
      BY <1>15, <2>7, <3>1, <3>2, <3>3
  <2>8. Seen'
    BY <1>1, <1>17, <2>3, <2>5, <2>6, <2>7, Taking DEF ReadInv
  <2>9. QED
    BY <1>11, <1>13, <1>14, <2>8 DEF ReadInv
<1>19. CASE found = {}
  <2>1. seen' = seen
    BY <1>3, <1>19 DEF Pass
  <2>2. ASSUME NEW e \in trees.lr, Selected(e) PROVE Coming(e)' <=> Coming(e)
    <3>1. ~(Place(e).key = a.key /\ Place(e).data = Head(left))
      BY <1>6, <1>19, <2>2, TreeTyped DEF ReadInv
    <3>2. QED
      BY <1>15, <1>16, <2>2, <3>1
  <2>3. Seen'
    BY <1>1, <1>17, <2>1, <2>2, Passing DEF ReadInv
  <2>4. QED
    BY <1>11, <1>13, <1>14, <2>3 DEF ReadInv
<1>20. QED
  BY <1>18, <1>19
-----------------------------------------------------------------------------
(* 1010, 1011_1111 and 0110: keys made of two arrays.                      *)
InnerGiven == IF reader = "0110" THEN call.right ELSE call.left

LEMMA Keys ==
  ASSUME ReadInv, SoundCalls, reader \in KeyReaders, Running
  PROVE  /\ Rest(Inner, InnerGiven) /\ Rest(InnerGiven, InnerGiven) /\ Range(InnerGiven) = Ids(InnerGiven)
         /\ Rest(label, call.label) /\ CurrentKey = <<Head(Inner), Head(label)>>
<1>1. Rest(Inner, InnerGiven) /\ InnerGiven # Null /\ Rest(label, call.label)
  BY ReaderIs DEF ReadInv, Arrays, Inner, InnerGiven, OverRl, KeyReaders
<1>2. Rest(InnerGiven, InnerGiven) /\ Range(InnerGiven) = Ids(InnerGiven)
  BY <1>1, RestStarts DEF ReadInv, InnerGiven
<1>3. CurrentKey = <<Head(Inner), Head(label)>>
  BY DEF CurrentKey, Inner
<1>4. QED
  BY <1>1, <1>2, <1>3

LEMMA KeyArraysKept ==
  ASSUME reader \in KeyReaders, UNCHANGED <<trees, call>>,
         pc' # "end" => Rest(Inner', InnerGiven) /\ Rest(label', call.label)
  PROVE  Arrays'
<1>1. reader' = reader /\ call' = call
  BY Same
<1>2. QED
  BY <1>1 DEF Arrays, Running, KeyReaders, OverRl, Rest, Inner, InnerGiven

LEMMA KeyComing ==
  ASSUME ReadInv, SoundCalls, reader \in KeyReaders, Running, NEW e \in trees.lr
  PROVE  Coming(e) <=> /\ Ahead(Inner, label, Place(e).key[1], e.key[2])
                       /\ Place(e).key = CurrentKey /\ OnKey => OnOrAfter(e)
<1>1. /\ Rest(Inner, InnerGiven) /\ Rest(label, call.label) /\ CurrentKey = <<Head(Inner), Head(label)>>
  BY Keys
<1>2. /\ Head(Inner) \notin Range(Tail(Inner)) /\ Range(Inner) = {Head(Inner)} \cup Range(Tail(Inner))
      /\ Head(label) \notin Range(Tail(label))
  BY <1>1, RestIs
<1>3. Place(e).key = <<Place(e).key[1], e.key[2]>>
  BY TreeTyped DEF ReadInv
<1>4. Place(e).key = CurrentKey <=> Place(e).key[1] = Head(Inner) /\ e.key[2] = Head(label)
  BY <1>1, <1>3
<1>5. Coming(e) <=> ComingAtKey(e)
  BY DEF Coming, RangeReaders, KeyReaders, Running
<1>6. QED
  BY <1>2, <1>4, <1>5 DEF ComingAtKey, Ahead

(* The next key: what has the current one is passed.                       *)
LEMMA NextKeyMoves ==
  ASSUME ReadInv, SoundCalls, reader \in KeyReaders, Running, NextKey, UNCHANGED <<trees, call>>
  PROVE  /\ Control' /\ Arrays' /\ Places' /\ pc' # "closed"
         /\ \A e \in trees.lr : Selected(e) =>
              (Coming(e)' <=> /\ Ahead(Inner, label, Place(e).key[1], e.key[2])
                              /\ Place(e).key # CurrentKey)
<1> DEFINE next == AfterForward(Inner, InnerGiven, label)
<1>1. reader' = reader /\ Tree' = Tree
  BY Same
<1>2. /\ Inner' = next[1] /\ label' = next[2]
      /\ pc' = IF next[2] = <<>> THEN "end" ELSE "set_key"
  BY <1>1 DEF NextKey, Inner, InnerGiven, OnOrEnd, End, Goto
<1>3. /\ Rest(Inner, InnerGiven) /\ Rest(InnerGiven, InnerGiven) /\ Range(InnerGiven) = Ids(InnerGiven)
      /\ Rest(label, call.label) /\ CurrentKey = <<Head(Inner), Head(label)>>
  BY Keys
<1>4. /\ Rest(next[1], InnerGiven)
      /\ next[2] # <<>> => Rest(next[2], call.label)
      /\ \A o : \A i \in Ids(InnerGiven) :
           next[2] # <<>> /\ Ahead(next[1], next[2], i, o)
             <=> Ahead(Inner, label, i, o) /\ ~(o = Head(label) /\ i = Head(Inner))
  BY <1>3, Advanced
<1> HIDE DEF next
<1>5. Control'
  BY <1>2, LabelsAre, ControlKept DEF ReadInv
<1>6. Arrays'
  BY <1>2, <1>4, KeyArraysKept
<1>7. Places'
  BY <1>1, <1>2 DEF Places, RangeReaders, KeyReaders, BetweenCalls
<1>8. ASSUME NEW e \in trees.lr, Selected(e)
      PROVE  Coming(e)' <=> /\ Ahead(Inner, label, Place(e).key[1], e.key[2])
                            /\ Place(e).key # CurrentKey
  <2>1. Place(e)' = Place(e)
    BY Same
  <2>2. Place(e).key = <<Place(e).key[1], e.key[2]>>
        /\ Place(e).key[1] = IF reader \in OverRl THEN e.data[2] ELSE e.key[1]
    BY TreeTyped DEF ReadInv
  <2>3. Place(e).key = CurrentKey <=> Place(e).key[1] = Head(Inner) /\ e.key[2] = Head(label)
    BY <1>3, <2>2
  <2>4. Place(e).key[1] \in Ids(InnerGiven)
    BY <1>8, <2>2, SelectedIs DEF ReadInv, InnerGiven, KeyReaders, OverRl
  <2>5. next[2] # <<>> /\ Ahead(next[1], next[2], Place(e).key[1], e.key[2])
          <=> Ahead(Inner, label, Place(e).key[1], e.key[2])
              /\ ~(e.key[2] = Head(label) /\ Place(e).key[1] = Head(Inner))
    BY <1>4, <2>4
  <2>6. Coming(e)' <=> next[2] # <<>> /\ Ahead(next[1], next[2], Place(e).key[1], e.key[2])
    <3>1. CASE next[2] = <<>>
      BY <1>2, <3>1 DEF Coming
    <3>2. CASE next[2] # <<>>
      <4>1. pc' = "set_key" /\ ~OnKey'
        BY <1>2, <3>2 DEF OnKey, BetweenCalls
      <4>2. Range(next[1]) = {Head(next[1])} \cup Range(Tail(next[1]))
        BY <1>4, RestIs
      <4>3. Coming(e)' <=> ComingAtKey(e)'
        BY <1>1, <4>1 DEF Coming, RangeReaders, KeyReaders
      <4>4. ComingAtKey(e)' <=> Ahead(next[1], next[2], Place(e).key[1], e.key[2])
        BY <1>2, <2>1, <4>1, <4>2 DEF ComingAtKey, Ahead
      <4>5. QED
        BY <3>2, <4>3, <4>4
    <3>3. QED
      BY <3>1, <3>2
  <2>7. QED
    BY <2>3, <2>5, <2>6
<1>9. QED
  BY <1>2, <1>5, <1>6, <1>7, <1>8

(* The cursor lands in the data of the current key, or moves in it.        *)
LEMMA KeyData ==
  ASSUME ReadInv, SoundCalls, reader \in KeyReaders, Running,
         UNCHANGED <<trees, call, left, right, label>>,
         pc' = "each_data", NEW f \in Tree, at' = {f}, f.key = CurrentKey
  PROVE  /\ Control' /\ Arrays' /\ Places'
         /\ \A e \in trees.lr : Selected(e) =>
              (Coming(e)' <=> /\ Ahead(Inner, label, Place(e).key[1], e.key[2])
                              /\ Place(e).key = CurrentKey => Place(e) = f \/ Before(f, Place(e)))
<1>1. reader' = reader /\ Tree' = Tree /\ Inner' = Inner /\ CurrentKey' = CurrentKey
  BY Same DEF Inner, CurrentKey
<1>2. /\ Rest(Inner, InnerGiven) /\ Rest(label, call.label) /\ CurrentKey = <<Head(Inner), Head(label)>>
  BY Keys
<1>3. /\ Head(Inner) \notin Range(Tail(Inner)) /\ Range(Inner) = {Head(Inner)} \cup Range(Tail(Inner))
      /\ Head(label) \notin Range(Tail(label))
  BY <1>2, RestIs
<1>4. Control'
  BY LabelsAre, ControlKept DEF ReadInv
<1>5. Arrays'
  BY <1>1, <1>2, KeyArraysKept
<1>6. Places'
  BY <1>1 DEF Places, RangeReaders, KeyReaders, BetweenCalls
<1>7. ASSUME NEW e \in trees.lr, Selected(e)
      PROVE  Coming(e)' <=> /\ Ahead(Inner, label, Place(e).key[1], e.key[2])
                            /\ Place(e).key = CurrentKey => Place(e) = f \/ Before(f, Place(e))
  <2>1. Place(e)' = Place(e)
    BY Same
  <2>2. Place(e).key = <<Place(e).key[1], e.key[2]>>
    BY TreeTyped DEF ReadInv
  <2>3. Place(e).key = CurrentKey <=> Place(e).key[1] = Head(Inner) /\ e.key[2] = Head(label)
    BY <1>2, <2>2
  <2>4. OnKey'
    BY DEF OnKey
  <2>5. OnOrAfter(e)' <=> Place(e) = f \/ Before(f, Place(e))
    BY <2>1, Same DEF OnOrAfter
  <2>6. Coming(e)' <=> ComingAtKey(e)'
    BY <1>1 DEF Coming, RangeReaders, KeyReaders
  <2>7. ComingAtKey(e)' <=> /\ Ahead(Inner, label, Place(e).key[1], e.key[2])
                            /\ Place(e).key = CurrentKey => OnOrAfter(e)'
    BY <1>1, <1>3, <2>1, <2>3, <2>4 DEF ComingAtKey, Ahead
  <2>8. QED
    BY <2>5, <2>6, <2>7
<1>8. QED
  BY <1>4, <1>5, <1>6, <1>7

LEMMA ResumeKeyInv ==
  ASSUME ReadInv, SoundCalls, ResumeKey
  PROVE  ReadInv'
<1>1. /\ pc = "resume" /\ Running /\ reader \in KeyReaders
      /\ UNCHANGED <<trees, call, left, right, label, at, at2, seen>>
      /\ pc' = IF \E e \in at : e.key = CurrentKey THEN "each_data" ELSE "set_key"
  BY DEF ResumeKey, At, Running, Goto, selection, arrays
<1>2. PICK a \in Tree : at = {a}
  BY <1>1 DEF ReadInv, Places, BetweenCalls
<1>3. reader' = reader /\ Tree' = Tree /\ Inner' = Inner /\ CurrentKey' = CurrentKey
  BY <1>1, Same DEF Inner, CurrentKey
<1>4. OnKey' <=> OnKey
  BY <1>1, <1>3 DEF OnKey, BetweenCalls
<1>5. Control'
  BY <1>1, LabelsAre, ControlKept DEF ReadInv
<1>6. Arrays'
  BY <1>1, <1>3, Keys, KeyArraysKept
<1>7. Places'
  BY <1>1, <1>2, <1>3 DEF Places, RangeReaders, KeyReaders, BetweenCalls
<1>8. ASSUME NEW e \in trees.lr
      PROVE  Coming(e)' <=> Coming(e)
  <2>1. Place(e)' = Place(e)
    BY <1>1, Same
  <2>2. OnOrAfter(e)' <=> OnOrAfter(e)
    BY <1>1, Same DEF OnOrAfter
  <2>3. ComingAtKey(e)' <=> ComingAtKey(e)
    BY <1>1, <1>3, <1>4, <2>1, <2>2 DEF ComingAtKey
  <2>4. QED
    BY <1>1, <1>3, <2>3 DEF Coming, RangeReaders, KeyReaders
<1>9. Seen'
  BY <1>1, <1>8, Passing DEF ReadInv
<1>10. QED
  BY <1>5, <1>6, <1>7, <1>9 DEF ReadInv

LEMMA SetKeyInv ==
  ASSUME ReadInv, SoundCalls, SetKey
  PROVE  ReadInv'
<1>1. /\ pc = "set_key" /\ Running /\ reader \in KeyReaders /\ ~OnKey
      /\ UNCHANGED <<trees, call, at2, seen>>
      /\ IF at' # {} THEN pc' = "each_data" /\ UNCHANGED <<left, right, label>> ELSE NextKey
  BY DEF SetKey, At, Running, Goto, selection, arrays, OnKey, BetweenCalls
<1>2. reader # "1011_1111" => at' = KeyIn(CurrentKey)
  BY <1>1 DEF SetKey, KeyIn, KeyReaders, OverRl
<1>3. reader = "1011_1111" => at' = LR!GetBothRange(trees.lr, CurrentKey, <<call.ordinal.min, 0>>)
  BY DEF SetKey
<1>4. /\ at' # {} => \E f \in Tree : /\ at' = {f} /\ f.key = CurrentKey
                                     /\ \A e \in trees.lr : Selected(e) /\ Place(e).key = CurrentKey =>
                                          Place(e) = f \/ Before(f, Place(e))
      /\ at' = {} => \A e \in trees.lr : Selected(e) => Place(e).key # CurrentKey
  <2>1. CASE reader # "1011_1111"
    <3>1. /\ at' = {} => \A x \in Tree : x.key # CurrentKey
          /\ at' # {} => \E f \in Tree : at' = {f} /\ f.key = CurrentKey /\ FirstOfKey(f)
      BY <1>2, <2>1, KeyLands DEF ReadInv
    <3>2. \A f \in Tree : FirstOfKey(f) =>
            \A x \in Tree : x.key = f.key => x = f \/ Before(f, x)
      BY DEF FirstOfKey, Before
    <3>3. \A e \in trees.lr : Place(e) \in Tree
      BY TreeTyped DEF ReadInv
    <3>4. QED
      BY <3>1, <3>2, <3>3
  <2>2. CASE reader = "1011_1111"
    <3>1. Tree = trees.lr /\ \A e : Place(e) = e
      BY <2>2 DEF Tree, Place, OverRl
    <3>2. HasOrdinal /\ call.ordinal.min \in Nat
      BY <2>2, ReaderIs DEF ReadInv
    <3>3. \A e \in trees.lr : Selected(e) => call.ordinal.min <= e.data[1]
      BY <2>2, <3>2, SelectedIs, CountedIs DEF ReadInv
    <3>4. /\ at' = {} => \A e \in trees.lr : e.key = CurrentKey => ~(call.ordinal.min <= e.data[1])
          /\ at' # {} => \E f \in trees.lr :
               /\ at' = {f} /\ f.key = CurrentKey
               /\ \A e \in trees.lr : e.key = CurrentKey /\ call.ordinal.min <= e.data[1] =>
                    e = f \/ RelationDataBefore(f.data, e.data)
      BY <1>3, <2>2, <3>2, MinimumLands DEF ReadInv
    <3>5. \A f, e : f.key = e.key /\ RelationDataBefore(f.data, e.data) => Before(f, e)
      BY <2>2 DEF Before, DataBefore, OverRl
    <3>6. QED
      BY <3>1, <3>3, <3>4, <3>5
  <2>3. QED
    BY <2>1, <2>2
<1>5. \A e \in trees.lr : Coming(e) <=> Ahead(Inner, label, Place(e).key[1], e.key[2])
  BY <1>1, KeyComing
<1>6. CASE at' # {}
  <2>1. PICK f \in Tree : /\ at' = {f} /\ f.key = CurrentKey
                          /\ \A e \in trees.lr : Selected(e) /\ Place(e).key = CurrentKey =>
                               Place(e) = f \/ Before(f, Place(e))
    BY <1>4, <1>6
  <2>2. /\ Control' /\ Arrays' /\ Places'
        /\ \A e \in trees.lr : Selected(e) =>
             (Coming(e)' <=> /\ Ahead(Inner, label, Place(e).key[1], e.key[2])
                             /\ Place(e).key = CurrentKey => Place(e) = f \/ Before(f, Place(e)))
    BY <1>1, <1>6, <2>1, KeyData
  <2>3. \A e \in trees.lr : Selected(e) => (Coming(e)' <=> Coming(e))
    BY <1>5, <2>1, <2>2
  <2>4. Seen'
    BY <1>1, <1>6, <2>3, Passing DEF ReadInv
  <2>5. QED
    BY <2>2, <2>4 DEF ReadInv
<1>7. CASE at' = {}
  <2>1. /\ Control' /\ Arrays' /\ Places' /\ pc' # "closed"
        /\ \A e \in trees.lr : Selected(e) =>
             (Coming(e)' <=> /\ Ahead(Inner, label, Place(e).key[1], e.key[2])
                             /\ Place(e).key # CurrentKey)
    BY <1>1, <1>7, NextKeyMoves
  <2>2. \A e \in trees.lr : Selected(e) => (Coming(e)' <=> Coming(e))
    BY <1>4, <1>5, <1>7, <2>1
  <2>3. Seen'
    BY <1>1, <2>1, <2>2, Passing DEF ReadInv
  <2>4. QED
    BY <2>1, <2>3 DEF ReadInv
<1>8. QED
  BY <1>6, <1>7

LEMMA KeySelects ==
  ASSUME ReadInv, SoundCalls, reader \in KeyReaders, Running, NEW t \in trees.lr,
         Place(t).key = CurrentKey
  PROVE  Selected(t) <=> ~Above(Place(t)) /\ Counted(Place(t))
<1>1. /\ Rest(Inner, InnerGiven) /\ Rest(label, call.label) /\ CurrentKey = <<Head(Inner), Head(label)>>
  BY Keys
<1>2. Place(t).key[1] \in Ids(InnerGiven) /\ Place(t).key[2] \in Ids(call.label)
  BY <1>1, RestIs
<1>3. Place(t).key[2] = t.key[2] /\ Place(t).key[1] = IF reader \in OverRl THEN t.data[2] ELSE t.key[1]
  BY TreeTyped DEF ReadInv
<1>4. reader # "1011_1111" => ~HasOrdinal
  BY ReaderIs DEF ReadInv, KeyReaders
<1>5. reader # "1011_1111" => ~Above(Place(t)) /\ Counted(Place(t))
  BY <1>4, NoOrdinal
<1>6. reader = "1011_1111" => Place(t) = t
  BY DEF Place, OverRl
<1>7. QED
  BY <1>2, <1>3, <1>5, <1>6, SelectedIs DEF ReadInv, KeyReaders, InnerGiven, OverRl

LEMMA EachDataOfKeyInv ==
  ASSUME ReadInv, SoundCalls, EachDataOfKey
  PROVE  ReadInv'
<1>1. /\ pc = "each_data" /\ Running /\ reader \in KeyReaders /\ OnKey
      /\ UNCHANGED <<trees, call, at2>>
  BY DEF EachDataOfKey, At, Running, OnKey, selection
<1>2. PICK a \in Tree : at = {a} /\ a.key = CurrentKey
  BY <1>1 DEF ReadInv, Places
<1>3. PICK t \in trees.lr : a = Place(t)
  BY TreeTyped DEF ReadInv
<1> DEFINE again == ~Above(a) /\ NextDup(a) # {}
           next == IF again THEN NextDup(a) ELSE NextNodup(a)
<1>4. /\ IF ~Above(a) /\ Counted(a) THEN Take(RelationAt(a)) ELSE Pass
      /\ IF again THEN at' = NextDup(a) /\ pc' = "each_data" /\ UNCHANGED <<left, right, label>> ELSE NextKey
  BY <1>2 DEF EachDataOfKey, Goto, arrays
<1>5. Selected(t) <=> ~Above(a) /\ Counted(a)
  BY <1>1, <1>2, <1>3, KeySelects
<1>6. IF Selected(t) THEN seen' = Append(seen, Relation(t)) ELSE seen' = seen
  BY <1>3, <1>4, <1>5, RelationAtIs DEF ReadInv, Take, Pass
<1>7. Above(a) => reader \notin OverRl
  BY <1>1, ReaderIs DEF ReadInv, Above, OverRl, KeyReaders
<1>8. \A e \in trees.lr : Selected(e) /\ ~Above(Place(e)) =>
         ((\E f \in next : Place(e) = f \/ Before(f, Place(e))) <=> Before(a, Place(e)))
  BY <1>7, DataMoves DEF ReadInv
<1>9. \A e \in trees.lr : Selected(e) => ~Above(Place(e))
  <2>1. SUFFICES ASSUME NEW e \in trees.lr, Selected(e) PROVE ~Above(Place(e))
    OBVIOUS
  <2>2. reader = "1011_1111" => ~Above(e) /\ Place(e) = e
    BY <2>1, SelectedIs DEF ReadInv, Place, OverRl
  <2>3. reader # "1011_1111" => ~HasOrdinal
    BY <1>1, ReaderIs DEF ReadInv, KeyReaders
  <2>4. QED
    BY <2>2, <2>3, NoOrdinal
<1>10. \A e \in trees.lr : Coming(e) <=> /\ Ahead(Inner, label, Place(e).key[1], e.key[2])
                                         /\ Place(e).key = CurrentKey => e = t \/ Before(a, Place(e))
  <2>1. SUFFICES ASSUME NEW e \in trees.lr
                 PROVE  Coming(e) <=> /\ Ahead(Inner, label, Place(e).key[1], e.key[2])
                                      /\ Place(e).key = CurrentKey => e = t \/ Before(a, Place(e))
    OBVIOUS
  <2>2. OnOrAfter(e) <=> e = t \/ Before(a, Place(e))
    BY <1>2, <1>3, TreeTyped DEF ReadInv, OnOrAfter
  <2>3. QED
    BY <1>1, <2>2, KeyComing
<1>11. Ahead(Inner, label, Place(t).key[1], t.key[2])
  <2>1. /\ Rest(Inner, InnerGiven) /\ CurrentKey = <<Head(Inner), Head(label)>>
    BY <1>1, Keys
  <2>2. Head(Inner) \in Range(Inner)
    <3>1. Range(Inner) = {Head(Inner)} \cup Range(Tail(Inner))
      BY <2>1, RestIs
    <3>2. QED
      BY <3>1
  <2>3. Place(t).key[1] = Head(Inner) /\ t.key[2] = Head(label)
    BY <1>2, <1>3, <2>1, TreeTyped DEF ReadInv
  <2>4. QED
    BY <2>2, <2>3 DEF Ahead
<1>12. Coming(t)
  BY <1>10, <1>11
<1>13. /\ Control' /\ Arrays' /\ Places' /\ pc' # "closed"
       /\ \A e \in trees.lr : Selected(e) => (Coming(e)' <=> Coming(e) /\ e # t)
  <2>1. ~Before(a, a)
    BY Order DEF ReadInv
  <2>2. CASE again
    <3>1. PICK f \in Tree : at' = {f} /\ f.key = CurrentKey
      BY <1>2, <1>4, <2>2, DupMoves DEF ReadInv
    <3>2. next = {f}
      BY <1>4, <2>2, <3>1
    <3> HIDE DEF next, again
    <3>3. pc' = "each_data" /\ UNCHANGED <<left, right, label>>
      BY <1>4, <2>2
    <3>4. /\ Control' /\ Arrays' /\ Places'
          /\ \A e \in trees.lr : Selected(e) =>
               (Coming(e)' <=> /\ Ahead(Inner, label, Place(e).key[1], e.key[2])
                               /\ Place(e).key = CurrentKey => Place(e) = f \/ Before(f, Place(e)))
      BY <1>1, <3>1, <3>3, KeyData
    <3>5. \A e \in trees.lr : Selected(e) => ((Place(e) = f \/ Before(f, Place(e))) <=> Before(a, Place(e)))
      BY <1>8, <1>9, <3>2
    <3>6. \A e \in trees.lr : Selected(e) => (Coming(e)' <=> Coming(e) /\ e # t)
      BY <1>2, <1>3, <1>10, <2>1, <3>4, <3>5
    <3>7. QED
      BY <3>3, <3>4, <3>6
  <2>3. CASE ~again
    <3>1. \A e \in trees.lr : Selected(e) /\ Place(e).key = CurrentKey => ~Before(a, Place(e))
      <4>1. SUFFICES ASSUME NEW e \in trees.lr, Selected(e), Place(e).key = CurrentKey
                     PROVE  ~Before(a, Place(e))
        OBVIOUS
      <4>2. next = NextNodup(a)
        BY <2>3
      <4>3. (\E f \in NextNodup(a) : Place(e) = f \/ Before(f, Place(e))) <=> Before(a, Place(e))
        BY <1>8, <1>9, <4>1, <4>2
      <4>4. Place(e) \in Tree /\ ~RelationKeyBefore(a.key, Place(e).key)
        BY <1>2, <4>1, TreeTyped, KeyOrder DEF ReadInv
      <4>5. ~ \E f \in NextNodup(a) : Place(e) = f \/ Before(f, Place(e))
        BY <4>4, NodupMoves DEF ReadInv
      <4>6. QED
        BY <4>3, <4>5
    <3>2. NextKey
      BY <1>4, <2>3
    <3>3. /\ Control' /\ Arrays' /\ Places' /\ pc' # "closed"
          /\ \A e \in trees.lr : Selected(e) =>
               (Coming(e)' <=> /\ Ahead(Inner, label, Place(e).key[1], e.key[2])
                               /\ Place(e).key # CurrentKey)
      BY <1>1, <3>2, NextKeyMoves
    <3> HIDE DEF next, again
    <3>4. \A e \in trees.lr : Selected(e) => (Coming(e)' <=> Coming(e) /\ e # t)
      BY <1>2, <1>3, <1>10, <3>1, <3>3
    <3>5. QED
      BY <3>3, <3>4
  <2>4. QED
    BY <2>2, <2>3
<1> HIDE DEF next, again
<1>14. Seen'
  <2>1. CASE Selected(t)
    BY <1>1, <1>6, <1>12, <1>13, <2>1, Taking DEF ReadInv
  <2>2. CASE ~Selected(t)
    BY <1>1, <1>6, <1>13, <2>2, Passing DEF ReadInv
  <2>3. QED
    BY <2>1, <2>2
<1>15. QED
  BY <1>13, <1>14 DEF ReadInv
-----------------------------------------------------------------------------
(* 1110: every right, left and label.                                      *)
LEMMA Queries ==
  ASSUME ReadInv, SoundCalls, reader = "1110", Running
  PROVE  /\ Rest(left, call.left) /\ Rest(right, call.right) /\ Rest(label, call.label)
         /\ Rest(call.left, call.left) /\ Range(call.left) = Ids(call.left)
         /\ Rest(call.right, call.right) /\ Range(call.right) = Ids(call.right)
<1>1. Rest(left, call.left) /\ Rest(right, call.right) /\ Rest(label, call.label)
  BY DEF ReadInv, Arrays, OverRl, KeyReaders
<1>2. call.left # Null /\ call.right # Null
  BY ReaderIs DEF ReadInv
<1>3. QED
  BY <1>1, <1>2, RestStarts DEF ReadInv

LEMMA QueryArraysKept ==
  ASSUME reader = "1110", UNCHANGED <<trees, call>>,
         pc' # "end" => /\ Rest(left', call.left) /\ Rest(right', call.right)
                        /\ Rest(label', call.label)
  PROVE  Arrays'
<1>1. reader' = reader /\ call' = call
  BY Same
<1>2. QED
  BY <1>1 DEF Arrays, Running, KeyReaders, OverRl, Rest

LEMMA QueryPlaces ==
  ASSUME reader = "1110", UNCHANGED <<trees, call>>
  PROVE  Places'
<1>1. reader' = reader
  BY Same
<1>2. QED
  BY <1>1 DEF Places, RangeReaders, KeyReaders

LEMMA QueryComing ==
  ASSUME reader = "1110", NEW e
  PROVE  Coming(e) <=> /\ pc # "end"
                       /\ \/ e.key[2] \in Range(Tail(label))
                          \/ e.key[2] = Head(label) /\ Ahead(right, left, e.data[2], e.key[1])
BY DEF Coming, ComingOfQuery, RangeReaders, KeyReaders, Ahead

(* The next query: the current one is passed.                              *)
LEMMA NextQueryMoves ==
  ASSUME ReadInv, SoundCalls, reader = "1110", Running, NextQuery
  PROVE  /\ Rest(left', call.left) /\ Rest(right', call.right)
         /\ label' # <<>> => Rest(label', call.label)
         /\ \A o : \A i \in Ids(call.right), l \in Ids(call.left) :
              /\ label' # <<>>
              /\ o \in Range(Tail(label')) \/ (o = Head(label') /\ Ahead(right', left', i, l))
              <=> /\ o \in Range(Tail(label)) \/ (o = Head(label) /\ Ahead(right, left, i, l))
                  /\ ~(o = Head(label) /\ l = Head(left) /\ i = Head(right))
<1> DEFINE lefts == AfterForward(right, call.right, left)
<1>1. /\ right' = lefts[1]
      /\ lefts[2] # <<>> => left' = lefts[2] /\ label' = label
      /\ lefts[2] = <<>> => left' = call.left /\ label' = Tail(label)
  BY DEF NextQuery
<1>2. /\ Rest(left, call.left) /\ Rest(right, call.right) /\ Rest(label, call.label)
      /\ Rest(call.left, call.left) /\ Range(call.left) = Ids(call.left)
      /\ Rest(call.right, call.right) /\ Range(call.right) = Ids(call.right)
  BY Queries
<1>3. /\ Rest(lefts[1], call.right)
      /\ lefts[2] # <<>> => Rest(lefts[2], call.left)
      /\ \A l : \A i \in Ids(call.right) :
           lefts[2] # <<>> /\ Ahead(lefts[1], lefts[2], i, l)
             <=> Ahead(right, left, i, l) /\ ~(l = Head(left) /\ i = Head(right))
  BY <1>2, Advanced
<1>4. lefts[2] = <<>> => lefts[1] = call.right
  <2>1. Tail(right) # <<>> => lefts[2] = left
    BY DEF AfterForward
  <2>2. Tail(right) = <<>> => lefts[1] = call.right
    BY DEF AfterForward
  <2>3. QED
    BY <1>2, <2>1, <2>2 DEF Rest
<1> HIDE DEF lefts
<1>5. /\ Head(label) \notin Range(Tail(label))
      /\ Tail(label) # <<>> => Rest(Tail(label), call.label)
      /\ Tail(label) = <<>> => Range(Tail(label)) = {}
      /\ Range(call.left) = {Head(call.left)} \cup Range(Tail(call.left))
      /\ label # <<>>
  BY <1>2, RestIs DEF Rest
<1>6. Tail(label) # <<>> => Range(Tail(label)) = {Head(Tail(label))} \cup Range(Tail(Tail(label)))
  BY <1>5, RestIs
<1>7. ASSUME NEW i \in Ids(call.right), NEW l \in Ids(call.left), NEW o
      PROVE  /\ label' # <<>>
             /\ o \in Range(Tail(label')) \/ (o = Head(label') /\ Ahead(right', left', i, l))
             <=> /\ o \in Range(Tail(label)) \/ (o = Head(label) /\ Ahead(right, left, i, l))
                 /\ ~(o = Head(label) /\ l = Head(left) /\ i = Head(right))
  <2>1. lefts[2] # <<>> /\ Ahead(lefts[1], lefts[2], i, l)
          <=> Ahead(right, left, i, l) /\ ~(l = Head(left) /\ i = Head(right))
    BY <1>3
  <2>2. CASE lefts[2] # <<>>
    <3>1. right' = lefts[1] /\ left' = lefts[2] /\ label' = label
      BY <1>1, <2>2
    <3>2. QED
      BY <1>5, <2>1, <2>2, <3>1
  <2>3. CASE lefts[2] = <<>>
    <3>1. right' = call.right /\ left' = call.left /\ label' = Tail(label)
      BY <1>1, <1>4, <2>3
    <3>2. Ahead(right', left', i, l)
      BY <1>2, <1>5, <3>1 DEF Ahead
    <3>3. label' # <<>> /\ (o \in Range(Tail(label')) \/ (o = Head(label') /\ Ahead(right', left', i, l)))
            <=> o \in Range(Tail(label))
      BY <1>5, <1>6, <3>1, <3>2
    <3>4. QED
      BY <1>5, <2>1, <2>3, <3>3
  <2>4. QED
    BY <2>2, <2>3
<1>8. Rest(left', call.left) /\ Rest(right', call.right) /\ (label' # <<>> => Rest(label', call.label))
  BY <1>1, <1>2, <1>3, <1>5
<1>9. QED
  BY <1>7, <1>8

LEMMA ResumeQueryInv ==
  ASSUME ReadInv, SoundCalls, ResumeQuery
  PROVE  ReadInv'
<1>1. /\ pc = "resume" /\ pc' = "set_cursor" /\ Running /\ reader = "1110"
      /\ UNCHANGED <<trees, call, left, right, label, at, at2, seen>>
  BY DEF ResumeQuery, At, Running, Goto, selection, arrays
<1>2. reader' = reader
  BY <1>1, Same
<1>3. Control'
  BY <1>1, LabelsAre, ControlKept DEF ReadInv
<1>4. Arrays'
  BY <1>1, Queries, QueryArraysKept
<1>5. Places'
  BY <1>1, QueryPlaces
<1>6. ASSUME NEW e \in trees.lr
      PROVE  Coming(e)' <=> Coming(e)
  BY <1>1, <1>2 DEF Coming, ComingOfQuery, RangeReaders, KeyReaders
<1>7. Seen'
  BY <1>1, <1>6, Passing DEF ReadInv
<1>8. QED
  BY <1>3, <1>4, <1>5, <1>7 DEF ReadInv

LEMMA SetCursorInv ==
  ASSUME ReadInv, SoundCalls, SetCursor
  PROVE  ReadInv'
<1> DEFINE found == RL!GetBoth(trees.rl, <<Head(right), Head(label)>>, Head(left))
           current == <<Head(left), Head(label), Head(right)>>
<1>1. /\ pc = "set_cursor" /\ Running /\ reader = "1110"
      /\ UNCHANGED <<trees, call, at2>>
      /\ IF found # {} THEN seen' = Append(seen, current) ELSE seen' = seen
      /\ NextQuery
      /\ pc' \in {"end", "open", "set_cursor"} /\ (pc' = "end" <=> label' = <<>>)
  BY DEF SetCursor, At, Running, Goto, selection, End, Take, Pass
<1>2. reader' = reader /\ Tree = trees.rl /\ \A e : Place(e) = RlOf(e)
  BY <1>1, Same DEF Tree, Place, OverRl
<1>3. found = {x \in trees.rl : x.key = <<Head(right), Head(label)>> /\ x.data = Head(left)}
  BY DEF RL!GetBoth
<1>4. /\ Rest(left', call.left) /\ Rest(right', call.right)
      /\ label' # <<>> => Rest(label', call.label)
      /\ \A o : \A i \in Ids(call.right), l \in Ids(call.left) :
           /\ label' # <<>>
           /\ o \in Range(Tail(label')) \/ (o = Head(label') /\ Ahead(right', left', i, l))
           <=> /\ o \in Range(Tail(label)) \/ (o = Head(label) /\ Ahead(right, left, i, l))
               /\ ~(o = Head(label) /\ l = Head(left) /\ i = Head(right))
  BY <1>1, NextQueryMoves
<1> HIDE DEF found
<1>5. Control'
  BY <1>1, LabelsAre, ControlKept DEF ReadInv
<1>6. Arrays'
  BY <1>1, <1>4, QueryArraysKept
<1>7. Places'
  BY <1>1, QueryPlaces
<1>8. ASSUME NEW e \in trees.lr, Selected(e)
      PROVE  Coming(e)' <=> Coming(e) /\ Relation(e) # current
  <2>1. e.key[1] \in Ids(call.left) /\ e.key[2] \in Ids(call.label) /\ e.data[2] \in Ids(call.right)
    BY <1>1, <1>8, SelectedIs DEF ReadInv
  <2>2. Coming(e) <=> \/ e.key[2] \in Range(Tail(label))
                      \/ e.key[2] = Head(label) /\ Ahead(right, left, e.data[2], e.key[1])
    BY <1>1, QueryComing
  <2>3. Coming(e)' <=>
          /\ label' # <<>>
          /\ \/ e.key[2] \in Range(Tail(label'))
             \/ e.key[2] = Head(label') /\ Ahead(right', left', e.data[2], e.key[1])
    BY <1>1, <1>2 DEF Coming, ComingOfQuery, RangeReaders, KeyReaders, Ahead
  <2>4. Relation(e) = current <=>
          e.key[2] = Head(label) /\ e.key[1] = Head(left) /\ e.data[2] = Head(right)
    BY DEF Relation
  <2>5. QED
    BY <1>4, <2>1, <2>2, <2>3, <2>4
<1>9. pc # "closed" /\ pc' # "closed"
  BY <1>1
<1>10. \A t \in trees.lr : /\ RlOf(t).key = <<t.data[2], t.key[2]>> /\ RlOf(t).data = t.key[1]
  BY DEF RlOf, Rl
<1>11. CASE found # {}
  <2>1. PICK x \in trees.rl : x.key = <<Head(right), Head(label)>> /\ x.data = Head(left)
    BY <1>3, <1>11
  <2>2. PICK t \in trees.lr : x = RlOf(t)
    BY <1>2, <2>1, TreeTyped DEF ReadInv
  <2>3. t.key[1] = Head(left) /\ t.key[2] = Head(label) /\ t.data[2] = Head(right)
    BY <1>10, <2>1, <2>2
  <2>4. Relation(t) = current
    BY <2>3 DEF Relation
  <2>5. /\ Head(left) \in Ids(call.left) /\ Head(right) \in Ids(call.right) /\ Head(label) \in Ids(call.label)
        /\ Head(right) \in Range(right)
    BY <1>1, Queries, RestIs
  <2>6. Selected(t)
    BY <1>1, <2>3, <2>5, SelectedIs DEF ReadInv
  <2>7. Coming(t)
    BY <1>1, <2>3, <2>5, QueryComing DEF Ahead
  <2>8. ASSUME NEW e \in trees.lr, Selected(e) PROVE Coming(e)' <=> Coming(e) /\ e # t
    <3>1. Relation(e) = current <=> e = t
      BY <2>4, RelationsDiffer DEF ReadInv
    <3>2. QED
      BY <1>8, <2>8, <3>1
  <2>9. seen' = Append(seen, Relation(t))
    BY <1>1, <1>11, <2>4
  <2>10. Seen'
    BY <1>1, <1>9, <2>6, <2>7, <2>8, <2>9, Taking DEF ReadInv
  <2>11. QED
    BY <1>5, <1>6, <1>7, <2>10 DEF ReadInv
<1>12. CASE found = {}
  <2>1. ASSUME NEW e \in trees.lr, Selected(e) PROVE Coming(e)' <=> Coming(e)
    <3>1. RlOf(e) \in trees.rl
      BY TreesAgree DEF ReadInv
    <3>2. Relation(e) # current
      BY <1>3, <1>10, <1>12, <3>1 DEF Relation
    <3>3. QED
      BY <1>8, <2>1, <3>2
  <2>2. Seen'
    BY <1>1, <1>9, <1>12, <2>1, Passing DEF ReadInv
  <2>3. QED
    BY <1>5, <1>6, <1>7, <2>2 DEF ReadInv
<1>13. QED
  BY <1>11, <1>12
-----------------------------------------------------------------------------
(* 0010: the lefts of a label in ll, and their data in lr.                 *)
LEMMA LabelArrays ==
  ASSUME ReadInv, SoundCalls, reader = "0010", Running
  PROVE  /\ Rest(label, call.label) /\ Head(label) \in Ids(call.label)
         /\ Head(label) \notin Range(Tail(label)) /\ Head(label) \in Range(label)
         /\ Tail(label) = <<>> => Range(Tail(label)) = {}
         /\ Tail(label) # <<>> =>
              /\ Rest(Tail(label), call.label) /\ OneLabelEach
              /\ Range(Tail(label)) = {Head(Tail(label))} \cup Range(Tail(Tail(label)))
         /\ OneLabelEach \/ \A e \in trees.lr : Head(label) <= e.key[2]
<1>1. Rest(label, call.label) /\ (OneLabelEach \/ label = call.label)
  BY DEF ReadInv, Arrays
<1>2. /\ Head(label) \in Ids(call.label) /\ Head(label) \notin Range(Tail(label))
      /\ Range(label) = {Head(label)} \cup Range(Tail(label))
      /\ Tail(label) = <<>> => Range(Tail(label)) = {}
      /\ Tail(label) # <<>> => Rest(Tail(label), call.label)
  BY <1>1, RestIs
<1>3. Tail(label) # <<>> => Range(Tail(label)) = {Head(Tail(label))} \cup Range(Tail(Tail(label)))
  BY <1>2, RestIs
<1>4. ASSUME ~OneLabelEach
      PROVE  Tail(label) = <<>> /\ \A e \in trees.lr : Head(label) <= e.key[2]
  <2>1. label = call.label /\ Len(call.label) = 1 /\ \A e \in Relations : call.label[1] <= e.key[2]
    BY <1>1, <1>4, ReaderIs DEF ReadInv
  <2>2. label \in Seq(Ids(call.label)) \ {<<>>}
    BY <1>1 DEF Rest
  <2>3. Tail(label) = <<>> /\ Head(label) = call.label[1]
    BY <2>1, <2>2, OneElement
  <2>4. \A e \in trees.lr : e \in Relations
    BY TreesAgree DEF ReadInv
  <2>5. QED
    BY <2>1, <2>3, <2>4
<1>5. QED
  BY <1>1, <1>2, <1>3, <1>4

LEMMA LabelArraysKept ==
  ASSUME reader = "0010", UNCHANGED <<trees, call>>,
         pc' # "end" => Rest(label', call.label) /\ (OneLabelEach \/ label' = call.label)
  PROVE  Arrays'
<1>1. reader' = reader /\ call' = call
  BY Same
<1>2. OneLabelEach' = OneLabelEach
  BY DEF OneLabelEach
<1>3. QED
  BY <1>1, <1>2 DEF Arrays, Running, KeyReaders, OverRl, Rest

LEMMA LabelPlaces ==
  ASSUME reader = "0010",
         Running => \E d \in trees.lr :
           /\ at2 = {d}
           /\ BetweenCalls => \E x \in trees.ll : at = {x}
           /\ OnLabel => \E x \in trees.ll :
                /\ at = {x} /\ x.key = Head(label)
                /\ d.key[1] = x.data => d.key[2] = Head(label)
                /\ pc = "each_left_data" => d.key[1] = x.data
           /\ ~OnLabel => FirstOfLr(d) \/ (OneLabelEach /\ d.key[2] \notin Range(label))
  PROVE  Places
BY DEF Places, RangeReaders, KeyReaders

LEMMA LabelComing ==
  ASSUME reader = "0010", NEW e
  PROVE  Coming(e) <=> pc # "end" /\ ComingOfLabel(e)
BY DEF Coming, RangeReaders, KeyReaders

(* The entries of ll, one for a left and a label.                          *)
LEMMA LabelTree ==
  ASSUME ReadInv
  PROVE  /\ \A e \in trees.lr : /\ LlOf(e) \in trees.ll
                                /\ LlOf(e).key = e.key[2] /\ LlOf(e).data = e.key[1]
                                /\ e.key[1] \in Nat /\ e.key[2] \in Nat
                                /\ e.key = <<e.key[1], e.key[2]>>
         /\ \A x \in trees.ll : /\ x.data \in Nat /\ x.key \in Nat
                                /\ \E e \in trees.lr : e.key = <<x.data, x.key>>
<1>1. /\ trees.lr \in SUBSET LrEntry /\ trees.ll \in SUBSET LlEntry
      /\ trees.ll = {LlOf(e) : e \in trees.lr}
  BY TreesAgree DEF ReadInv
<1>2. \A e : LlOf(e).key = e.key[2] /\ LlOf(e).data = e.key[1]
  BY DEF LlOf, Ll
<1>3. \A e \in trees.lr : e.key[1] \in Nat /\ e.key[2] \in Nat /\ e.key = <<e.key[1], e.key[2]>>
  BY <1>1, LrTyped
<1>4. \A x \in trees.ll : x.data \in Nat /\ x.key \in Nat
  BY <1>1, LlTyped
<1>5. QED
  BY <1>1, <1>2, <1>3, <1>4

LEMMA LabelLands ==
  ASSUME ReadInv, NEW id
  PROVE  LET found == LL!SetKey(trees.ll, id)
         IN /\ found = {} => \A e \in trees.lr : e.key[2] # id
            /\ found # {} => \E f \in trees.ll :
                 /\ found = {f} /\ f.key = id
                 /\ \A e \in trees.lr : e.key[2] = id => f.data <= e.key[1]
<1> DEFINE S == {x \in trees.ll : x.key = id}
           found == LL!SetKey(trees.ll, id)
<1>1. found = LL!Least(S)
  BY DEF LL!SetKey
<1>2. S \in SUBSET LlEntry
  BY TreesAgree DEF ReadInv
<1>3. \A e \in trees.lr : e.key[2] = id => LlOf(e) \in S
  BY LabelTree
<1>4. \A x \in S : x \in trees.ll /\ x.key = id
  OBVIOUS
<1> HIDE DEF S, found
<1>5. CASE S = {}
  <2>1. found = {}
    BY <1>1, <1>2, <1>5, LlLands
  <2>2. QED
    BY <1>3, <1>5, <2>1 DEF found
<1>6. CASE S # {}
  <2>1. PICK f \in S : LL!Least(S) = {f} /\ \A d \in S : d = f \/ LL!Before(f, d)
    BY <1>2, <1>6, LlLands
  <2>2. f \in trees.ll /\ f.key = id /\ f.data \in Nat /\ f.key \in Nat
    BY <1>4, <2>1, LabelTree
  <2>3. ASSUME NEW e \in trees.lr, e.key[2] = id PROVE f.data <= e.key[1]
    <3>1. LlOf(e) = f \/ LL!Before(f, LlOf(e))
      BY <1>3, <2>1, <2>3
    <3>2. LlOf(e).key = id /\ LlOf(e).data = e.key[1] /\ e.key[1] \in Nat
      BY <2>3, LabelTree
    <3>3. QED
      BY <2>2, <3>1, <3>2 DEF LL!Before, IdBefore
  <2>4. QED
    BY <1>1, <2>1, <2>2, <2>3 DEF found
<1>7. QED
  BY <1>5, <1>6

LEMMA LabelMoves ==
  ASSUME ReadInv, NEW x \in trees.ll
  PROVE  LET next == LL!NextDup(trees.ll, x)
         IN /\ next = {} => \A e \in trees.lr : e.key[2] = x.key => ~(x.data < e.key[1])
            /\ next # {} => \E f \in trees.ll :
                 /\ next = {f} /\ f.key = x.key /\ x.data < f.data
                 /\ \A e \in trees.lr : e.key[2] = x.key => (f.data <= e.key[1] <=> x.data < e.key[1])
<1> DEFINE S == {y \in trees.ll : y.key = x.key /\ IdBefore(x.data, y.data)}
           next == LL!NextDup(trees.ll, x)
<1>1. next = LL!Least(S)
  BY DEF LL!NextDup
<1>2. S \in SUBSET LlEntry
  BY TreesAgree DEF ReadInv
<1>3. \A e \in trees.lr : e.key[2] = x.key /\ x.data < e.key[1] => LlOf(e) \in S
  BY LabelTree DEF IdBefore
<1>4. \A y \in S : y \in trees.ll /\ y.key = x.key /\ x.data < y.data
  BY DEF IdBefore
<1> HIDE DEF S, next
<1>5. CASE S = {}
  <2>1. next = {}
    BY <1>1, <1>2, <1>5, LlLands
  <2>2. QED
    BY <1>3, <1>5, <2>1 DEF next
<1>6. CASE S # {}
  <2>1. PICK f \in S : LL!Least(S) = {f} /\ \A d \in S : d = f \/ LL!Before(f, d)
    BY <1>2, <1>6, LlLands
  <2>2. f \in trees.ll /\ f.key = x.key /\ x.data < f.data /\ x.data \in Nat /\ f.data \in Nat /\ f.key \in Nat
    BY <1>4, <2>1, LabelTree
  <2>3. ASSUME NEW e \in trees.lr, e.key[2] = x.key PROVE f.data <= e.key[1] <=> x.data < e.key[1]
    <3>1. x.data < e.key[1] => LlOf(e) = f \/ LL!Before(f, LlOf(e))
      BY <1>3, <2>1, <2>3
    <3>2. LlOf(e).key = x.key /\ LlOf(e).data = e.key[1] /\ e.key[1] \in Nat
      BY <2>3, LabelTree
    <3>3. x.data < e.key[1] => f.data <= e.key[1]
      BY <2>2, <3>1, <3>2 DEF LL!Before, IdBefore
    <3>4. QED
      BY <2>2, <3>2, <3>3
  <2>4. QED
    BY <1>1, <2>1, <2>2, <2>3 DEF next
<1>7. QED
  BY <1>5, <1>6

LEMMA ResumeLabelInv ==
  ASSUME ReadInv, SoundCalls, Resume_0010
  PROVE  ReadInv'
<1>1. /\ pc = "resume" /\ Running /\ reader = "0010"
      /\ UNCHANGED <<trees, call, left, right, label, at, at2, seen>>
      /\ pc' = IF \E x \in at : x.key = Head(label) THEN "each_label_data" ELSE "set_label_key"
  BY DEF Resume_0010, At, Running, Goto, selection, arrays
<1>2. reader' = reader /\ \A x : FirstOfLr(x)' <=> FirstOfLr(x)
  BY <1>1, Same
<1>3. OnLabel' <=> OnLabel
  BY <1>1 DEF OnLabel, BetweenCalls
<1>4. Control'
  BY <1>1, LabelsAre, ControlKept DEF ReadInv
<1>5. Arrays'
  <2>1. Rest(label, call.label) /\ (OneLabelEach \/ label = call.label)
    BY <1>1 DEF ReadInv, Arrays
  <2>2. QED
    BY <1>1, <2>1, LabelArraysKept
<1>6. Places'
  <2>1. PICK d \in trees.lr :
          /\ at2 = {d}
          /\ OnLabel => \E x \in trees.ll :
               /\ at = {x} /\ x.key = Head(label)
               /\ d.key[1] = x.data => d.key[2] = Head(label)
          /\ ~OnLabel => FirstOfLr(d) \/ (OneLabelEach /\ d.key[2] \notin Range(label))
    BY <1>1 DEF ReadInv, Places
  <2>2. QED
    BY <1>1, <1>2, <1>3, <2>1 DEF Places, RangeReaders, KeyReaders, BetweenCalls, OneLabelEach
<1>7. ASSUME NEW e \in trees.lr
      PROVE  Coming(e)' <=> Coming(e)
  <2>1. ComingOfLabel(e)' <=> ComingOfLabel(e)
    BY <1>1, <1>3 DEF ComingOfLabel
  <2>2. QED
    BY <1>1, <1>2, <2>1 DEF Coming, RangeReaders, KeyReaders
<1>8. Seen'
  BY <1>1, <1>7, Passing DEF ReadInv
<1>9. QED
  BY <1>4, <1>5, <1>6, <1>8 DEF ReadInv

(* The next label: the data of the current one is passed, or there is none.*)
LEMMA ForwardLabelMoves ==
  ASSUME ReadInv, SoundCalls, reader = "0010", Running, ForwardLabel, UNCHANGED <<trees, call>>,
         NEW d \in trees.lr, at2' = {d},
         Tail(label) # <<>> => FirstOfLr(d) \/ d.key[2] \notin Range(Tail(label))
  PROVE  /\ Control' /\ Arrays' /\ Places' /\ pc' # "closed"
         /\ \A e \in trees.lr : Coming(e)' <=> e.key[2] \in Range(Tail(label))
<1>1. label' = Tail(label) /\ pc' = IF Tail(label) = <<>> THEN "end" ELSE "set_label_key"
  BY DEF ForwardLabel, OnOrEnd, End, Goto
<1>2. reader' = reader /\ \A x : FirstOfLr(x)' <=> FirstOfLr(x)
  BY Same
<1>3. /\ Tail(label) = <<>> => Range(Tail(label)) = {}
      /\ Tail(label) # <<>> =>
           /\ Rest(Tail(label), call.label) /\ OneLabelEach
           /\ Range(Tail(label)) = {Head(Tail(label))} \cup Range(Tail(Tail(label)))
  BY LabelArrays
<1>4. Control'
  BY <1>1, LabelsAre, ControlKept DEF ReadInv
<1>5. Arrays'
  BY <1>1, <1>3, LabelArraysKept
<1>6. ~OnLabel'
  BY <1>1 DEF OnLabel, BetweenCalls
<1>7. Places'
  BY <1>1, <1>2, <1>3, <1>6 DEF Places, RangeReaders, KeyReaders, BetweenCalls, Running, OneLabelEach
<1>8. ASSUME NEW e \in trees.lr
      PROVE  Coming(e)' <=> e.key[2] \in Range(Tail(label))
  <2>1. Coming(e)' <=> pc' # "end" /\ ComingOfLabel(e)'
    BY <1>2 DEF Coming, RangeReaders, KeyReaders
  <2>2. Tail(label) # <<>> => (ComingOfLabel(e)' <=> e.key[2] \in Range(Tail(label)))
    BY <1>1, <1>3, <1>6 DEF ComingOfLabel
  <2>3. QED
    BY <1>1, <1>3, <2>1, <2>2
<1>9. QED
  BY <1>1, <1>4, <1>5, <1>7, <1>8

(* The cursors move in the data of the current label.                      *)
LEMMA LabelData ==
  ASSUME ReadInv, SoundCalls, reader = "0010", Running, UNCHANGED <<trees, call, label>>,
         pc' \in {"each_label_data", "each_left_data"},
         NEW x \in trees.ll, at' = {x}, x.key = Head(label),
         NEW d \in trees.lr, at2' = {d}, d.key[1] = x.data => d.key[2] = Head(label),
         pc' = "each_left_data" => d.key[1] = x.data
  PROVE  /\ Control' /\ Arrays' /\ Places'
         /\ \A e \in trees.lr : Coming(e)' <=>
              \/ e.key[2] \in Range(Tail(label))
              \/ /\ e.key[2] = Head(label)
                 /\ \/ x.data < e.key[1]
                    \/ x.data = e.key[1] /\ (d.key[1] = x.data => e = d \/ RelationDataBefore(d.data, e.data))
<1>1. reader' = reader
  BY Same
<1>2. Rest(label, call.label) /\ (OneLabelEach \/ label = call.label)
  BY DEF ReadInv, Arrays
<1>3. Control'
  BY LabelsAre, ControlKept DEF ReadInv
<1>4. Arrays'
  BY <1>2, LabelArraysKept
<1>5. OnLabel'
  BY DEF OnLabel
<1>6. Places'
  BY <1>1, <1>5 DEF Places, RangeReaders, KeyReaders, BetweenCalls
<1>7. ASSUME NEW e \in trees.lr
      PROVE  Coming(e)' <=>
               \/ e.key[2] \in Range(Tail(label))
               \/ /\ e.key[2] = Head(label)
                  /\ \/ x.data < e.key[1]
                     \/ x.data = e.key[1] /\ (d.key[1] = x.data => e = d \/ RelationDataBefore(d.data, e.data))
  <2>1. Coming(e)' <=> ComingOfLabel(e)'
    BY <1>1 DEF Coming, RangeReaders, KeyReaders
  <2>2. QED
    BY <1>5, <2>1 DEF ComingOfLabel
<1>8. QED
  BY <1>3, <1>4, <1>6, <1>7

LEMMA SetLabelKeyInv ==
  ASSUME ReadInv, SoundCalls, SetLabelKey
  PROVE  ReadInv'
<1> DEFINE found == LL!SetKey(trees.ll, Head(label))
<1>1. /\ pc = "set_label_key" /\ Running /\ reader = "0010" /\ ~OnLabel
      /\ UNCHANGED <<trees, call, at2, seen>>
      /\ IF found # {} THEN at' = found /\ pc' = "each_label_data" /\ label' = label ELSE ForwardLabel
  BY DEF SetLabelKey, At, Running, Goto, selection, OnLabel, BetweenCalls
<1>2. PICK d \in trees.lr : at2 = {d} /\ (FirstOfLr(d) \/ (OneLabelEach /\ d.key[2] \notin Range(label)))
  BY <1>1 DEF ReadInv, Places
<1>3. \A e \in trees.lr : Coming(e) <=> e.key[2] \in Range(Tail(label)) \/ e.key[2] = Head(label)
  BY <1>1, LabelComing DEF ComingOfLabel
<1>4. /\ Head(label) \in Range(label)
      /\ OneLabelEach \/ \A e \in trees.lr : Head(label) <= e.key[2]
      /\ Tail(label) # <<>> => OneLabelEach
  BY <1>1, LabelArrays
<1>5. /\ found = {} => \A e \in trees.lr : e.key[2] # Head(label)
      /\ found # {} => \E f \in trees.ll :
           /\ found = {f} /\ f.key = Head(label)
           /\ \A e \in trees.lr : e.key[2] = Head(label) => f.data <= e.key[1]
  BY LabelLands
<1> HIDE DEF found
<1>6. pc # "closed"
  BY <1>1
<1>7. CASE found # {}
  <2>1. PICK f \in trees.ll : /\ found = {f} /\ f.key = Head(label)
                              /\ \A e \in trees.lr : e.key[2] = Head(label) => f.data <= e.key[1]
    BY <1>5, <1>7
  <2>2. PICK g \in trees.lr : g.key = <<f.data, Head(label)>>
    BY <2>1, LabelTree
  <2>3. d \in Relations /\ g \in Relations /\ d \in LrEntry
    BY TreesAgree DEF ReadInv
  <2>4. ASSUME NEW e \in trees.lr, FirstOfLr(d), e.key[1] = d.key[1]
        PROVE  /\ d.key[2] <= e.key[2]
               /\ e.key[2] = d.key[2] => e = d \/ RelationDataBefore(d.data, e.data)
    <3>1. e = d \/ LR!Before(d, e)
      BY <2>4 DEF FirstOfLr
    <3>2. e.key[1] \in Nat /\ e.key[2] \in Nat /\ d.key[2] \in Nat
      BY LabelTree
    <3>3. QED
      BY <2>4, <3>1, <3>2 DEF LR!Before, RelationKeyBefore
  <2>5. d.key[1] = f.data => d.key[2] = Head(label)
    <3>1. SUFFICES ASSUME d.key[1] = f.data PROVE d.key[2] = Head(label)
      OBVIOUS
    <3>2. g.key[1] = d.key[1] /\ g.key[2] = Head(label)
      BY <2>2, <3>1
    <3>3. CASE OneLabelEach
      BY <2>3, <3>2, <3>3 DEF OneLabelEach
    <3>4. CASE ~OneLabelEach
      <4>1. Head(label) <= d.key[2] /\ FirstOfLr(d)
        BY <1>2, <1>4, <3>4
      <4>2. d.key[2] <= Head(label)
        BY <2>4, <3>2, <4>1
      <4>3. d.key[2] \in Nat /\ Head(label) \in Nat
        BY <3>2, LabelTree
      <4>4. QED
        BY <4>1, <4>2, <4>3
    <3>5. QED
      BY <3>3, <3>4
  <2>6. /\ Control' /\ Arrays' /\ Places'
        /\ \A e \in trees.lr : Coming(e)' <=>
             \/ e.key[2] \in Range(Tail(label))
             \/ /\ e.key[2] = Head(label)
                /\ \/ f.data < e.key[1]
                   \/ f.data = e.key[1] /\ (d.key[1] = f.data => e = d \/ RelationDataBefore(d.data, e.data))
    BY <1>1, <1>2, <1>7, <2>1, <2>5, LabelData
  <2>7. ASSUME NEW e \in trees.lr PROVE Coming(e)' <=> Coming(e)
    <3>1. SUFFICES ASSUME e.key[2] = Head(label)
                   PROVE  \/ f.data < e.key[1]
                          \/ f.data = e.key[1] /\ (d.key[1] = f.data => e = d \/ RelationDataBefore(d.data, e.data))
      BY <1>3, <2>6
    <3>2. f.data <= e.key[1] /\ f.data \in Nat /\ e.key[1] \in Nat
      BY <2>1, <3>1, LabelTree
    <3>3. ASSUME f.data = e.key[1], d.key[1] = f.data PROVE e = d \/ RelationDataBefore(d.data, e.data)
      <4>1. d.key[2] = Head(label)
        BY <2>5, <3>3
      <4>2. FirstOfLr(d)
        BY <1>2, <1>4, <4>1
      <4>3. QED
        BY <2>4, <3>1, <3>3, <4>1, <4>2
    <3>4. QED
      BY <3>2, <3>3
  <2>8. Seen'
    BY <1>1, <1>6, <2>7, Passing DEF ReadInv
  <2>9. QED
    BY <2>6, <2>8 DEF ReadInv
<1>8. CASE found = {}
  <2>1. at2' = {d} /\ (FirstOfLr(d) \/ d.key[2] \notin Range(Tail(label)))
    <3>1. Range(label) = {Head(label)} \cup Range(Tail(label))
      BY <1>1, LabelArrays, RestIs
    <3>2. QED
      BY <1>1, <1>2, <3>1
  <2>2. /\ Control' /\ Arrays' /\ Places' /\ pc' # "closed"
        /\ \A e \in trees.lr : Coming(e)' <=> e.key[2] \in Range(Tail(label))
    BY <1>1, <1>8, <2>1, ForwardLabelMoves
  <2>3. \A e \in trees.lr : Coming(e)' <=> Coming(e)
    BY <1>3, <1>5, <1>8, <2>2
  <2>4. Seen'
    BY <1>1, <1>6, <2>3, Passing DEF ReadInv
  <2>5. QED
    BY <2>2, <2>4 DEF ReadInv
<1>9. QED
  BY <1>7, <1>8

LEMMA EachLabelDataInv ==
  ASSUME ReadInv, SoundCalls, EachLabelData
  PROVE  ReadInv'
<1>1. /\ pc = "each_label_data" /\ Running /\ reader = "0010" /\ OnLabel
      /\ UNCHANGED <<trees, call, label, at, seen>>
  BY DEF EachLabelData, At, Running, OnLabel, selection, arrays
<1>2. PICK d \in trees.lr, x \in trees.ll :
        /\ at2 = {d} /\ at = {x} /\ x.key = Head(label)
        /\ d.key[1] = x.data => d.key[2] = Head(label)
  BY <1>1 DEF ReadInv, Places
<1> DEFINE found == LR!SetKey(trees.lr, <<x.data, Head(label)>>)
<1>3. IF d.key[1] = x.data THEN pc' = "each_left_data" /\ at2' = at2
      ELSE found # {} => at2' = found /\ pc' = "each_left_data"
  BY <1>2 DEF EachLabelData, Goto
<1>4. found = KeyIn(<<x.data, Head(label)>>) /\ Tree = trees.lr
  BY <1>1 DEF KeyIn, Tree, OverRl
<1>5. found # {}
  <2>1. PICK e \in trees.lr : e.key = <<x.data, Head(label)>>
    BY <1>2, LabelTree
  <2>2. QED
    BY <1>4, <2>1, KeyLands DEF ReadInv
<1>6. PICK f \in trees.lr : found = {f} /\ f.key = <<x.data, Head(label)>> /\ FirstOfKey(f)
  BY <1>4, <1>5, KeyLands DEF ReadInv
<1> HIDE DEF found
<1>7. \A e \in trees.lr : Coming(e) <=>
         \/ e.key[2] \in Range(Tail(label))
         \/ /\ e.key[2] = Head(label)
            /\ \/ x.data < e.key[1]
               \/ x.data = e.key[1] /\ (d.key[1] = x.data => e = d \/ RelationDataBefore(d.data, e.data))
  BY <1>1, <1>2, LabelComing DEF ComingOfLabel
<1>8. PICK g \in trees.lr :
        /\ at2' = {g} /\ pc' = "each_left_data" /\ g.key[1] = x.data /\ g.key[2] = Head(label)
        /\ d.key[1] = x.data => g = d
        /\ d.key[1] # x.data => g = f
  BY <1>2, <1>3, <1>5, <1>6
<1>9. /\ Control' /\ Arrays' /\ Places'
      /\ \A e \in trees.lr : Coming(e)' <=>
           \/ e.key[2] \in Range(Tail(label))
           \/ /\ e.key[2] = Head(label)
              /\ \/ x.data < e.key[1]
                 \/ x.data = e.key[1] /\ (g.key[1] = x.data => e = g \/ RelationDataBefore(g.data, e.data))
  BY <1>1, <1>2, <1>8, LabelData
<1>10. ASSUME NEW e \in trees.lr PROVE Coming(e)' <=> Coming(e)
  <2>1. CASE d.key[1] = x.data
    BY <1>7, <1>8, <1>9, <2>1
  <2>2. CASE d.key[1] # x.data
    <3>1. e.key[2] = Head(label) /\ e.key[1] = x.data => e.key = f.key
      BY <1>6, LabelTree
    <3>2. e.key = f.key => e = f \/ RelationDataBefore(f.data, e.data)
      BY <1>1, <1>4, <1>6 DEF FirstOfKey, DataBefore, OverRl
    <3>3. QED
      BY <1>7, <1>8, <1>9, <2>2, <3>1, <3>2
  <2>3. QED
    BY <2>1, <2>2
<1>11. Seen'
  BY <1>1, <1>10, Passing DEF ReadInv
<1>12. QED
  BY <1>9, <1>11 DEF ReadInv

LEMMA EachLeftDataInv ==
  ASSUME ReadInv, SoundCalls, EachLeftData
  PROVE  ReadInv'
<1>1. /\ pc = "each_left_data" /\ Running /\ reader = "0010" /\ OnLabel
      /\ UNCHANGED <<trees, call>>
  BY DEF EachLeftData, At, Running, OnLabel, selection
<1>2. PICK d \in trees.lr, x \in trees.ll :
        /\ at2 = {d} /\ at = {x} /\ x.key = Head(label)
        /\ d.key[1] = x.data /\ d.key[2] = Head(label)
  BY <1>1 DEF ReadInv, Places
<1> DEFINE left_data == LR!NextDup(trees.lr, d)
           label_data == LL!NextDup(trees.ll, x)
<1>3. /\ seen' = Append(seen, <<x.data, Head(label), d.data[2]>>)
      /\ IF left_data # {} THEN at2' = left_data ELSE at2' = at2
      /\ IF left_data = {} /\ label_data # {} THEN at' = label_data ELSE at' = at
      /\ left_data # {} => pc' = "each_left_data" /\ label' = label
      /\ left_data = {} /\ label_data # {} => pc' = "each_label_data" /\ label' = label
      /\ left_data = {} /\ label_data = {} => ForwardLabel
  BY <1>2 DEF EachLeftData, Goto, Take
<1>4. seen' = Append(seen, Relation(d))
  BY <1>2, <1>3 DEF Relation
<1>5. /\ Head(label) \in Ids(call.label) /\ Head(label) \notin Range(Tail(label))
  BY <1>1, LabelArrays
<1>6. Selected(d)
  BY <1>1, <1>2, <1>5, SelectedIs DEF ReadInv
<1>7. \A e \in trees.lr : Coming(e) <=>
         \/ e.key[2] \in Range(Tail(label))
         \/ /\ e.key[2] = Head(label)
            /\ \/ x.data < e.key[1]
               \/ x.data = e.key[1] /\ (e = d \/ RelationDataBefore(d.data, e.data))
  BY <1>1, <1>2, LabelComing DEF ComingOfLabel
<1>8. Coming(d)
  BY <1>2, <1>7
<1>9. Tree = trees.lr /\ left_data = NextDup(d) /\ \A a, b : DataBefore(a, b) <=> RelationDataBefore(a, b)
  BY <1>1 DEF Tree, NextDup, DataBefore, OverRl
<1>10. /\ label_data = {} => \A e \in trees.lr : e.key[2] = x.key => ~(x.data < e.key[1])
       /\ label_data # {} => \E f \in trees.ll :
            /\ label_data = {f} /\ f.key = x.key /\ x.data < f.data
            /\ \A e \in trees.lr : e.key[2] = x.key => (f.data <= e.key[1] <=> x.data < e.key[1])
  BY LabelMoves
<1> HIDE DEF left_data, label_data
<1>11. \A e \in trees.lr : e.key[2] = Head(label) /\ e.key[1] = x.data => e.key = d.key
  BY <1>2, LabelTree
<1>12. ~RelationDataBefore(d.data, d.data) /\ x.data \in Nat
  BY <1>9, DataOrder, LabelTree DEF ReadInv
<1>13. left_data = {} => \A e \in trees.lr : e.key = d.key => ~RelationDataBefore(d.data, e.data)
  <2>1. SUFFICES ASSUME left_data = {}, NEW e \in trees.lr, e.key = d.key, RelationDataBefore(d.data, e.data)
                 PROVE  FALSE
    OBVIOUS
  <2>2. Before(d, e)
    BY <1>9, <2>1 DEF Before
  <2>3. ~RelationKeyBefore(d.key, e.key)
    BY <1>9, <2>1, KeyOrder DEF ReadInv
  <2>4. QED
    BY <1>9, <2>1, <2>2, <2>3, DupMoves DEF ReadInv
<1>14. /\ Control' /\ Arrays' /\ Places' /\ pc' # "closed"
       /\ \A e \in trees.lr : Coming(e)' <=> Coming(e) /\ e # d
  <2>1. CASE left_data # {}
    <3>1. PICK f \in trees.lr : /\ left_data = {f} /\ f.key = d.key
                                /\ \A e \in trees.lr : e = f \/ Before(f, e) <=> Before(d, e)
      BY <1>9, <2>1, DupMoves DEF ReadInv
    <3>2. f.key[1] = x.data /\ f.key[2] = Head(label)
      BY <1>2, <3>1
    <3>3. /\ Control' /\ Arrays' /\ Places'
          /\ \A e \in trees.lr : Coming(e)' <=>
               \/ e.key[2] \in Range(Tail(label))
               \/ /\ e.key[2] = Head(label)
                  /\ \/ x.data < e.key[1]
                     \/ x.data = e.key[1] /\ (f.key[1] = x.data => e = f \/ RelationDataBefore(f.data, e.data))
      BY <1>1, <1>2, <1>3, <2>1, <3>1, <3>2, LabelData
    <3>4. ASSUME NEW e \in trees.lr, e.key = d.key
          PROVE  (e = f \/ RelationDataBefore(f.data, e.data)) <=> RelationDataBefore(d.data, e.data)
      <4>1. ~RelationKeyBefore(d.key, e.key)
        BY <1>9, <3>4, KeyOrder DEF ReadInv
      <4>2. QED
        BY <1>9, <3>1, <3>4, <4>1 DEF Before
    <3>5. ASSUME NEW e \in trees.lr PROVE Coming(e)' <=> Coming(e) /\ e # d
      <4>1. e = d => e.key[2] \notin Range(Tail(label)) /\ ~(x.data < e.key[1]) /\ ~RelationDataBefore(d.data, e.data)
        BY <1>2, <1>5, <1>12
      <4>2. QED
        BY <1>7, <1>11, <3>2, <3>3, <3>4, <4>1
    <3>6. QED
      BY <1>3, <2>1, <3>3, <3>5
  <2>2. CASE left_data = {} /\ label_data # {}
    <3>1. PICK f \in trees.ll :
            /\ label_data = {f} /\ f.key = Head(label) /\ x.data < f.data
            /\ \A e \in trees.lr : e.key[2] = Head(label) => (f.data <= e.key[1] <=> x.data < e.key[1])
      BY <1>2, <1>10, <2>2
    <3>2. f.data \in Nat /\ d.key[1] # f.data
      BY <1>2, <1>12, <3>1, LabelTree
    <3>3. /\ Control' /\ Arrays' /\ Places'
          /\ \A e \in trees.lr : Coming(e)' <=>
               \/ e.key[2] \in Range(Tail(label))
               \/ /\ e.key[2] = Head(label)
                  /\ \/ f.data < e.key[1]
                     \/ f.data = e.key[1] /\ (d.key[1] = f.data => e = d \/ RelationDataBefore(d.data, e.data))
      <4>1. /\ pc' = "each_label_data" /\ label' = label /\ at' = {f} /\ at2' = {d}
        BY <1>2, <1>3, <2>2, <3>1
      <4>2. QED
        BY <1>1, <3>1, <3>2, <4>1, LabelData
    <3>4. ASSUME NEW e \in trees.lr PROVE Coming(e)' <=> Coming(e) /\ e # d
      <4>1. e = d => e.key[2] \notin Range(Tail(label)) /\ ~(x.data < e.key[1])
        BY <1>2, <1>5, <1>12
      <4>2. e.key[1] \in Nat
        BY LabelTree
      <4>3. f.data <= e.key[1] <=> f.data < e.key[1] \/ f.data = e.key[1]
        BY <3>2, <4>2
      <4>4. Coming(e)' <=> \/ e.key[2] \in Range(Tail(label))
                           \/ e.key[2] = Head(label) /\ x.data < e.key[1]
        BY <3>1, <3>2, <3>3, <4>3
      <4>5. QED
        BY <1>7, <1>11, <1>13, <2>2, <4>1, <4>4
    <3>5. QED
      BY <1>3, <2>2, <3>3, <3>4
  <2>3. CASE left_data = {} /\ label_data = {}
    <3>1. ForwardLabel /\ at2' = {d}
      BY <1>2, <1>3, <2>3
    <3>2. /\ Control' /\ Arrays' /\ Places' /\ pc' # "closed"
          /\ \A e \in trees.lr : Coming(e)' <=> e.key[2] \in Range(Tail(label))
      BY <1>1, <1>2, <1>5, <3>1, ForwardLabelMoves
    <3>3. ASSUME NEW e \in trees.lr PROVE Coming(e)' <=> Coming(e) /\ e # d
      <4>1. e = d => e.key[2] \notin Range(Tail(label))
        BY <1>2, <1>5
      <4>2. e.key[2] = Head(label) => ~(x.data < e.key[1])
        BY <1>2, <1>10, <2>3
      <4>3. QED
        BY <1>7, <1>11, <1>13, <2>3, <3>2, <4>1, <4>2
    <3>4. QED
      BY <3>2, <3>3
  <2>4. QED
    BY <2>1, <2>2, <2>3
<1>15. Seen'
  BY <1>1, <1>4, <1>6, <1>8, <1>14, Taking DEF ReadInv
<1>16. QED
  BY <1>14, <1>15 DEF ReadInv
-----------------------------------------------------------------------------
(* Between calls, and the selections themselves.                           *)
LEMMA ReadersAre == reader \in RangeReaders \cup KeyReaders \cup {"1100", "1110", "0010"}
BY DEF reader, Reader, RangeReaders, KeyReaders

(* Nothing moves when only the label of the reader changes, as long as the *)
(* cursors are taken to be as far as they were.                            *)
LEMMA Unmoved ==
  ASSUME UNCHANGED <<trees, call, left, right, label, at, at2, seen>>,
         pc \notin {"closed", "end"}, pc' \notin {"closed", "end"},
         reader \in RangeReaders \cup {"1100"} => (InRange' <=> InRange),
         reader \in KeyReaders => (OnKey' <=> OnKey),
         reader = "0010" => (OnLabel' <=> OnLabel),
         Control, Seen
  PROVE  Seen'
<1>1. reader' = reader /\ (\A e : Place(e)' = Place(e)) /\ \A x, y : Before(x, y)' <=> Before(x, y)
  BY Same
<1>2. ASSUME NEW e \in trees.lr
      PROVE  Coming(e)' <=> Coming(e)
  <2>1. OnOrAfter(e)' <=> OnOrAfter(e)
    BY <1>1 DEF OnOrAfter
  <2>2. reader \in RangeReaders => (ComingInRange(e)' <=> ComingInRange(e))
    BY <1>1, <2>1 DEF ComingInRange, Queue
  <2>3. reader = "1100" => (ComingByLeft(e)' <=> ComingByLeft(e))
    BY <1>1 DEF ComingByLeft
  <2>4. reader \in KeyReaders => (ComingAtKey(e)' <=> ComingAtKey(e))
    BY <1>1, <2>1 DEF ComingAtKey, Inner
  <2>5. ComingOfQuery(e)' <=> ComingOfQuery(e)
    BY DEF ComingOfQuery
  <2>6. reader = "0010" => (ComingOfLabel(e)' <=> ComingOfLabel(e))
    BY DEF ComingOfLabel
  <2>7. QED
    BY <1>1, <2>2, <2>3, <2>4, <2>5, <2>6 DEF Coming
<1>3. QED
  BY <1>2, Passing

LEMMA StopInv ==
  ASSUME ReadInv, SoundCalls, Stop
  PROVE  ReadInv'
<1>1. /\ pc \in {"each_data", "each_left", "each_left_data"} /\ pc' = "open"
      /\ UNCHANGED <<trees, call, left, right, label, at, at2, seen>>
  BY DEF Stop, Goto, selection, arrays
<1>2. reader' = reader /\ Tree' = Tree /\ \A x : FirstOfLr(x)' <=> FirstOfLr(x)
  BY <1>1, Same
<1>3. /\ pc = "each_data" => reader \in RangeReaders \cup KeyReaders
      /\ pc = "each_left" => reader = "1100"
      /\ pc = "each_left_data" => reader = "0010"
  BY <1>1, LabelsAre, ReadersAre DEF ReadInv, Control
<1>4. reader \in RangeReaders \cup {"1100"} =>
        /\ InRange /\ InRange'
        /\ \E a \in Tree : at = {a}
  <2>1. SUFFICES ASSUME reader \in RangeReaders \cup {"1100"}
                 PROVE  InRange /\ InRange' /\ \E a \in Tree : at = {a}
    OBVIOUS
  <2>2. pc \in {"each_data", "each_left"}
    BY <1>1, <1>3, <2>1 DEF RangeReaders
  <2>3. PICK a \in Tree : at = {a} /\ InCurrentRange(a)
    BY <2>1, <2>2 DEF ReadInv, Places
  <2>4. InCurrentRange(a)'
    BY <1>1, <1>2, <2>3 DEF InCurrentRange
  <2>5. QED
    BY <1>1, <2>2, <2>3, <2>4 DEF InRange, BetweenCalls
<1>5. reader \in KeyReaders => /\ OnKey /\ OnKey'
                              /\ \E a \in Tree : at = {a}
  <2>1. SUFFICES ASSUME reader \in KeyReaders PROVE OnKey /\ OnKey' /\ \E a \in Tree : at = {a}
    OBVIOUS
  <2>2. pc = "each_data"
    BY <1>1, <1>3, <2>1 DEF KeyReaders
  <2>3. PICK a \in Tree : at = {a} /\ a.key = CurrentKey
    BY <2>1, <2>2 DEF ReadInv, Places
  <2>4. CurrentKey' = CurrentKey
    BY <1>1, <1>2 DEF CurrentKey
  <2>5. QED
    BY <1>1, <2>2, <2>3, <2>4 DEF OnKey, BetweenCalls
<1>6. reader = "0010" => /\ OnLabel /\ OnLabel'
                         /\ \E d \in trees.lr : \E x \in trees.ll :
                              /\ at2 = {d} /\ at = {x} /\ x.key = Head(label)
                              /\ d.key[1] = x.data => d.key[2] = Head(label)
  <2>1. SUFFICES ASSUME reader = "0010"
                 PROVE  /\ OnLabel /\ OnLabel'
                        /\ \E d \in trees.lr : \E x \in trees.ll :
                             /\ at2 = {d} /\ at = {x} /\ x.key = Head(label)
                             /\ d.key[1] = x.data => d.key[2] = Head(label)
    OBVIOUS
  <2>2. pc = "each_left_data" /\ OnLabel /\ Running
    BY <1>1, <1>3, <2>1 DEF OnLabel, Running, RangeReaders, KeyReaders
  <2>3. PICK d \in trees.lr, x \in trees.ll :
          /\ at2 = {d} /\ at = {x} /\ x.key = Head(label)
          /\ d.key[1] = x.data => d.key[2] = Head(label)
    BY <2>1, <2>2 DEF ReadInv, Places
  <2>4. OnLabel'
    BY <1>1, <2>3 DEF OnLabel, BetweenCalls
  <2>5. QED
    BY <2>2, <2>3, <2>4
<1>7. Control'
  BY <1>1, ControlKept DEF ReadInv
<1>8. Arrays'
  <2>1. OneLabelEach' = OneLabelEach
    BY DEF OneLabelEach
  <2>2. QED
    BY <1>1, <1>2, <1>4, <2>1 DEF ReadInv, Arrays, Running, Rest
<1>9. Places'
  BY <1>1, <1>2, <1>4, <1>5, <1>6 DEF Places, BetweenCalls, RangeReaders, KeyReaders
<1>10. Seen'
  BY <1>1, <1>4, <1>5, <1>6, Unmoved DEF ReadInv
<1>11. QED
  BY <1>7, <1>8, <1>9, <1>10 DEF ReadInv

LEMMA ReadCallInv ==
  ASSUME ReadInv, SoundCalls, NEW n, NEW skipping, Read(n, skipping)
  PROVE  ReadInv'
<1>1. /\ pc = "open" /\ pc' = "resume"
      /\ UNCHANGED <<trees, call, left, right, label, at, at2, seen>>
  BY DEF Read, Goto, arrays
<1>2. reader' = reader /\ Tree' = Tree /\ \A x : FirstOfLr(x)' <=> FirstOfLr(x)
  BY <1>1, Same
<1>3. (\A x : InCurrentRange(x)' <=> InCurrentRange(x)) /\ CurrentKey' = CurrentKey
      /\ OneLabelEach' = OneLabelEach
  BY <1>1, <1>2 DEF InCurrentRange, CurrentKey, OneLabelEach
<1>4. (InRange' <=> InRange) /\ (OnKey' <=> OnKey) /\ (OnLabel' <=> OnLabel)
  BY <1>1, <1>3 DEF InRange, OnKey, OnLabel, BetweenCalls
<1>5. Control'
  BY <1>1, LabelsAre, ReadersAre, ControlKept DEF ReadInv
<1>6. Arrays'
  BY <1>1, <1>2, <1>3, <1>4 DEF ReadInv, Arrays, Running, Rest
<1>7. Places'
  <2>1. reader \in RangeReaders \cup {"1100"} \cup KeyReaders => \E a \in Tree : at = {a}
    BY <1>1 DEF ReadInv, Places, BetweenCalls
  <2>2. ASSUME reader = "0010"
        PROVE  \E d \in trees.lr :
                 /\ at2 = {d} /\ \E x \in trees.ll : at = {x}
                 /\ OnLabel => \E x \in trees.ll :
                      /\ at = {x} /\ x.key = Head(label)
                      /\ d.key[1] = x.data => d.key[2] = Head(label)
                 /\ ~OnLabel => FirstOfLr(d) \/ (OneLabelEach /\ d.key[2] \notin Range(label))
    BY <1>1, <2>2 DEF ReadInv, Places, Running, BetweenCalls
  <2>3. QED
    BY <1>1, <1>2, <1>3, <1>4, <2>1, <2>2 DEF Places, BetweenCalls, RangeReaders, KeyReaders
<1>8. Seen'
  BY <1>1, <1>4, Unmoved DEF ReadInv
<1>9. QED
  BY <1>5, <1>6, <1>7, <1>8 DEF ReadInv

LEMMA NothingSeen ==
  /\ <<>> \in Seq(Left \X Label \X Right) /\ Range(<<>>) = {}
  /\ \A i, j \in DOMAIN <<>> : <<>>[i] = <<>>[j] => i = j
<1>1. DOMAIN <<>> = {}
  OBVIOUS
<1>2. QED
  BY <1>1 DEF Range

LEMMA FinishInv ==
  ASSUME ReadInv, Finish
  PROVE  ReadInv'
<1>1. pc' = "closed" /\ seen' = <<>> /\ UNCHANGED <<trees, call>>
  BY DEF Finish, Goto
<1>2. Control'
  BY <1>1 DEF ReadInv, Control
<1>3. Arrays' /\ Places'
  BY <1>1 DEF Arrays, Places, Running, BetweenCalls
<1>4. Seen'
  BY <1>1, NothingSeen DEF Seen
<1>5. QED
  BY <1>2, <1>3, <1>4 DEF ReadInv

LEMMA InitInv ==
  ASSUME Init
  PROVE  ReadInv
<1>1. PICK lr \in SUBSET Relations : trees = Stored(lr)
  BY DEF Init
<1>2. trees.lr = lr
  BY <1>1 DEF Stored
<1>3. pc = "closed" /\ seen = <<>> /\ call \in Calls
  BY DEF Init
<1>4. Control
  BY <1>1, <1>2, <1>3 DEF Control
<1>5. Arrays /\ Places
  BY <1>3 DEF Arrays, Places, Running, BetweenCalls
<1>6. Seen
  BY <1>3, NothingSeen DEF Seen
<1>7. QED
  BY <1>4, <1>5, <1>6 DEF ReadInv

(* The cursors start at the first entry of their tree.                     *)
LEMMA LabelFirst ==
  ASSUME ReadInv, trees.lr # {}
  PROVE  \E x \in trees.ll, d \in trees.lr :
           /\ LL!First(trees.ll) = {x} /\ LR!First(trees.lr) = {d} /\ FirstOfLr(d)
           /\ \A e \in trees.lr : e.key[2] = x.key => x.data <= e.key[1]
           /\ d.key[1] = x.data => d.key[2] = x.key
<1>1. trees.ll # {} /\ trees.ll \in SUBSET LlEntry /\ trees.lr \in SUBSET LrEntry
  BY TreesAgree, LabelTree DEF ReadInv
<1>2. PICK x \in trees.ll : LL!Least(trees.ll) = {x} /\ \A y \in trees.ll : y = x \/ LL!Before(x, y)
  BY <1>1, LlLands
<1>3. PICK d \in trees.lr : LR!Least(trees.lr) = {d} /\ \A e \in trees.lr : e = d \/ LR!Before(d, e)
  BY <1>1, LrLands
<1>4. FirstOfLr(d)
  BY <1>3 DEF FirstOfLr
<1>5. x.key \in Nat /\ x.data \in Nat
  BY LabelTree
<1>6. \A e \in trees.lr : /\ LlOf(e) = x \/ LL!Before(x, LlOf(e))
                          /\ LlOf(e).key = e.key[2] /\ LlOf(e).data = e.key[1]
                          /\ e.key[1] \in Nat /\ e.key[2] \in Nat
  BY <1>2, LabelTree
<1>7. \A e \in trees.lr : /\ x.key <= e.key[2]
                          /\ e.key[2] = x.key => x.data <= e.key[1]
  <2>1. SUFFICES ASSUME NEW e \in trees.lr
                 PROVE  x.key <= e.key[2] /\ (e.key[2] = x.key => x.data <= e.key[1])
    OBVIOUS
  <2>2. \/ x.key = e.key[2] /\ x.data = e.key[1]
        \/ x.key < e.key[2] \/ (x.key = e.key[2] /\ x.data < e.key[1])
    BY <1>6, <2>1 DEF LL!Before, IdBefore
  <2>3. e.key[1] \in Nat /\ e.key[2] \in Nat
    BY <1>6, <2>1
  <2>4. QED
    BY <1>5, <2>2, <2>3
<1>8. d.key[1] = x.data => d.key[2] = x.key
  <2>1. PICK g \in trees.lr : g.key = <<x.data, x.key>>
    BY LabelTree
  <2>2. g.key[1] = x.data /\ g.key[2] = x.key /\ d.key[2] \in Nat
    BY <1>6, <2>1
  <2>3. d = g \/ LR!Before(d, g)
    BY <1>3
  <2>4. d.key[1] = g.key[1] => d.key[2] <= g.key[2]
    BY <1>5, <2>2, <2>3 DEF LR!Before, RelationKeyBefore
  <2>5. x.key <= d.key[2]
    BY <1>7
  <2>6. QED
    BY <1>5, <2>2, <2>4, <2>5
<1>9. QED
  BY <1>2, <1>3, <1>4, <1>7, <1>8 DEF LL!First, LR!First

LEMMA SelectInv ==
  ASSUME ReadInv, SoundCalls, Select
  PROVE  ReadInv'
<1>1. /\ pc = "closed" /\ seen = <<>> /\ UNCHANGED <<trees, call, seen>>
      /\ pc' = IF at' = {} THEN "end" ELSE "open"
      /\ call.left # Null => left' = call.left
      /\ call.right # Null => right' = call.right
      /\ call.label # Null => label' = call.label
  BY DEF Select, ReadInv, Control, ArrayIn, End, Goto
<1>2. /\ reader # "0010" => at' = Lookup(Tree)
      /\ reader = "0010" => at' = LL!First(trees.ll) /\ at2' = LR!First(trees.lr)
  BY DEF Select, Lookup, Tree, OverRl, RL!First, LR!First
<1>3. reader' = reader /\ Tree' = Tree /\ (\A x : FirstOfLr(x)' <=> FirstOfLr(x))
      /\ (\A e : Place(e)' = Place(e)) /\ \A x, y : Before(x, y)' <=> Before(x, y)
  BY <1>1, Same
<1>4. Control'
  BY <1>1, ControlKept DEF ReadInv
<1>5. at' = {} => trees.lr = {}
  <2>1. reader # "0010" /\ trees.lr # {} => at' # {}
    <3>1. trees.lr # {} => Tree # {}
      BY TreeTyped DEF ReadInv
    <3>2. QED
      BY <1>2, <3>1, FirstLands DEF ReadInv
  <2>2. reader = "0010" /\ trees.lr # {} => at' # {}
    BY <1>2, LabelFirst
  <2>3. QED
    BY <2>1, <2>2
<1>6. at' # {} => trees.lr # {}
  <2>1. trees.lr = {} => Tree = {} /\ trees.ll = {}
    BY TreeTyped, LabelTree DEF ReadInv
  <2>2. Tree = {} => Lookup(Tree) = {}
    BY Lands DEF ReadInv
  <2>3. trees.ll = {} => LL!First(trees.ll) = {}
    BY DEF LL!First, LL!Least
  <2>4. QED
    BY <1>2, <2>1, <2>2, <2>3
<1>7. CASE at' = {}
  <2>1. pc' = "end" /\ trees.lr = {}
    BY <1>1, <1>5, <1>7
  <2>2. Arrays' /\ Places'
    BY <1>3, <2>1 DEF Arrays, Places, Running, BetweenCalls
  <2>3. Seen'
    BY <1>1, <2>1, NothingSeen DEF Seen
  <2>4. QED
    BY <1>4, <2>2, <2>3 DEF ReadInv
<1>8. CASE at' # {}
  <2>1. pc' = "open" /\ Running' /\ BetweenCalls'
    BY <1>1, <1>8 DEF Running, BetweenCalls
  <2>2. /\ reader \notin {"0000", "0100", "0110", "0010"} => /\ left' = call.left
                                                              /\ Rest(call.left, call.left)
                                                              /\ Range(call.left) = Ids(call.left)
        /\ reader \in OverRl \cup {"1110"} => /\ right' = call.right
                                              /\ Rest(call.right, call.right)
                                              /\ Range(call.right) = Ids(call.right)
        /\ reader \in KeyReaders \cup {"1110", "0010"} => /\ label' = call.label
                                                          /\ Rest(call.label, call.label)
                                                          /\ Range(call.label) = Ids(call.label)
    BY <1>1, ReaderIs, RestStarts DEF ReadInv, OverRl, KeyReaders
  <2>3. Arrays'
    BY <1>1, <1>3, <2>1, <2>2 DEF Arrays, Rest, OverRl, KeyReaders
  <2>4. ASSUME reader # "0010"
        PROVE  \E f \in Tree : at' = {f} /\ \A x \in Tree : x = f \/ Before(f, x)
    <3>1. Tree # {}
      BY <1>2, <1>8, <2>4, Lands DEF ReadInv
    <3>2. QED
      BY <1>2, <2>4, <3>1, FirstLands DEF ReadInv
  <2>5. ASSUME reader = "0010"
        PROVE  \E x \in trees.ll, d \in trees.lr :
                 /\ at' = {x} /\ at2' = {d} /\ FirstOfLr(d)
                 /\ \A e \in trees.lr : e.key[2] = x.key => x.data <= e.key[1]
                 /\ d.key[1] = x.data => d.key[2] = x.key
    BY <1>2, <1>6, <1>8, <2>5, LabelFirst
  <2>6. Places'
    <3>1. CASE reader = "0010"
      <4>1. PICK x \in trees.ll, d \in trees.lr :
              /\ at' = {x} /\ at2' = {d} /\ FirstOfLr(d)
              /\ d.key[1] = x.data => d.key[2] = x.key
        BY <2>5, <3>1
      <4>2. OnLabel' => x.key = Head(label')
        BY <2>1, <4>1 DEF OnLabel
      <4>3. QED
        BY <1>1, <1>3, <2>1, <3>1, <4>1, <4>2 DEF Places, RangeReaders, KeyReaders
    <3>2. CASE reader # "0010"
      BY <1>3, <2>1, <2>4, <3>2 DEF Places
    <3>3. QED
      BY <3>1, <3>2
  <2>7. ASSUME NEW e \in trees.lr, Selected(e) PROVE Coming(e)'
    <3>1. /\ Place(e) \in Tree /\ Place(e)' = Place(e)
          /\ Place(e).key[1] = IF reader \in OverRl THEN e.data[2] ELSE e.key[1]
      BY <1>3, TreeTyped DEF ReadInv
    <3>2. reader # "0010" => OnOrAfter(e)'
      BY <1>3, <2>4, <3>1 DEF OnOrAfter
    <3>3. pc' # "end"
      BY <2>1
    <3>4. CASE reader = "0000"
      BY <1>3, <3>2, <3>3, <3>4 DEF Coming, ComingInRange, RangeReaders
    <3>5. CASE reader \in RangeReaders /\ reader # "0000"
      <4>1. Rest(Queue', QueueGiven) /\ Place(e).key[1] \in Range(Queue')
        BY <1>3, <2>2, <2>7, <3>1, <3>5, SelectedIs
           DEF ReadInv, Queue, QueueGiven, OverRl, RangeReaders
      <4>2. Range(Queue') = {Head(Queue')} \cup Range(Tail(Queue'))
        BY <4>1, RestIs
      <4>3. reader' # "0000" /\ (Place(e)').key[1] \in {Head(Queue')} \cup Range(Tail(Queue'))
        BY <1>3, <3>1, <3>5, <4>1, <4>2
      <4>4. ComingInRange(e)'
        BY <3>2, <3>5, <4>3 DEF ComingInRange, RangeReaders
      <4>5. QED
        BY <1>3, <3>3, <3>5, <4>4 DEF Coming
    <3>6. CASE reader = "1100"
      <4>1. /\ e.data[2] \in Range(right') /\ e.key[1] \in Range(left')
            /\ Range(right') = {Head(right')} \cup Range(Tail(right'))
        <5>1. e.key[1] \in Ids(call.left) /\ e.data[2] \in Ids(call.right)
          BY <2>7, <3>6, SelectedIs DEF ReadInv
        <5>2. e.key[1] \in Range(left') /\ e.data[2] \in Range(right')
          BY <2>2, <3>6, <5>1 DEF OverRl
        <5>3. Range(right') = {Head(right')} \cup Range(Tail(right'))
          BY <2>2, <3>6, RestIs DEF OverRl
        <5>4. QED
          BY <5>2, <5>3
      <4>2. \E f \in at' : RelationKeyBefore(f.key, Place(e).key) \/ f.key = Place(e).key
        BY <2>4, <3>1, <3>6 DEF Before
      <4>3. ComingByLeft(e)'
        BY <3>1, <4>1, <4>2 DEF ComingByLeft
      <4>4. QED
        BY <1>3, <3>3, <3>6, <4>3 DEF Coming
    <3>7. CASE reader \in KeyReaders
      <4>1. Inner' = InnerGiven /\ Rest(InnerGiven, InnerGiven) /\ Range(InnerGiven) = Ids(InnerGiven)
        BY <1>3, <2>2, <3>7 DEF Inner, InnerGiven, KeyReaders, OverRl
      <4>2. Place(e).key[1] \in Ids(InnerGiven) /\ e.key[2] \in Ids(call.label)
        BY <2>7, <3>1, <3>7, SelectedIs DEF ReadInv, InnerGiven, KeyReaders, OverRl
      <4>3. /\ Range(InnerGiven) = {Head(InnerGiven)} \cup Range(Tail(InnerGiven))
            /\ Range(call.label) = {Head(call.label)} \cup Range(Tail(call.label))
        BY <2>2, <3>7, <4>1, RestIs
      <4>4. ComingAtKey(e)'
        BY <2>2, <3>1, <3>2, <3>7, <4>1, <4>2, <4>3 DEF ComingAtKey, KeyReaders
      <4>5. QED
        BY <1>3, <3>3, <3>7, <4>4 DEF Coming
    <3>8. CASE reader = "1110"
      <4>1. e.key[1] \in Range(left') /\ e.key[2] \in Range(label') /\ e.data[2] \in Range(right')
        BY <2>2, <2>7, <3>8, SelectedIs DEF ReadInv
      <4>2. /\ Range(left') = {Head(left')} \cup Range(Tail(left'))
            /\ Range(label') = {Head(label')} \cup Range(Tail(label'))
        BY <2>2, <3>8, RestIs
      <4>3. ComingOfQuery(e)'
        BY <4>1, <4>2 DEF ComingOfQuery
      <4>4. QED
        BY <1>3, <3>3, <3>8, <4>3 DEF Coming
    <3>9. CASE reader = "0010"
      <4>1. e.key[2] \in Range(label') /\ Range(label') = {Head(label')} \cup Range(Tail(label'))
        <5>1. e.key[2] \in Ids(call.label)
          BY <2>7, <3>9, SelectedIs DEF ReadInv
        <5>2. e.key[2] \in Range(label')
          BY <2>2, <3>9, <5>1
        <5>3. QED
          BY <2>2, <3>9, <5>2, RestIs
      <4>2. PICK x \in trees.ll, d \in trees.lr :
              /\ at' = {x} /\ at2' = {d} /\ FirstOfLr(d)
              /\ e.key[2] = x.key => x.data <= e.key[1]
              /\ d.key[1] = x.data => d.key[2] = x.key
        BY <2>5, <3>9
      <4>3. OnLabel' => x.key = Head(label')
        BY <2>1, <4>2 DEF OnLabel
      <4>4. ASSUME e.key[2] = x.key
            PROVE  \/ x.data < e.key[1]
                   \/ x.data = e.key[1] /\ (d.key[1] = x.data => e = d \/ RelationDataBefore(d.data, e.data))
        <5>1. x.data \in Nat /\ e.key[1] \in Nat /\ e.key[2] \in Nat /\ x.data <= e.key[1]
          BY <4>2, <4>4, LabelTree
        <5>2. ASSUME x.data = e.key[1], d.key[1] = x.data
              PROVE  e = d \/ RelationDataBefore(d.data, e.data)
          <6>1. e = d \/ LR!Before(d, e)
            BY <4>2 DEF FirstOfLr
          <6>2. d.key[1] = e.key[1] /\ d.key[2] = e.key[2]
            BY <4>2, <4>4, <5>2
          <6>3. QED
            BY <5>1, <6>1, <6>2 DEF LR!Before, RelationKeyBefore
        <5>3. QED
          BY <5>1, <5>2
      <4>5. ComingOfLabel(e)'
        BY <4>1, <4>2, <4>3, <4>4 DEF ComingOfLabel
      <4>6. QED
        BY <1>3, <3>3, <3>9, <4>5 DEF Coming
    <3>10. QED
      BY <3>4, <3>5, <3>6, <3>7, <3>8, <3>9, ReadersAre
  <2>8. Seen'
    <3>1. \A e \in trees'.lr : Selected(e)' => Coming(e)'
      <4>1. \A e \in trees.lr : Selected(e)' <=> Selected(e)
        BY <1>1 DEF Selected
      <4>2. QED
        BY <1>1, <2>7, <4>1
    <3>2. QED
      BY <1>1, <2>1, <3>1, NothingSeen DEF Seen
  <2>9. QED
    BY <1>4, <2>3, <2>6, <2>8 DEF ReadInv
<1>9. QED
  BY <1>7, <1>8
-----------------------------------------------------------------------------
LEMMA StillInv ==
  ASSUME ReadInv, UNCHANGED vars
  PROVE  ReadInv'
<1>1. UNCHANGED <<trees, pc, call, left, right, label, at, at2, seen>>
  BY DEF vars
<1>2. reader' = reader /\ Tree' = Tree /\ Labels' = Labels
      /\ (\A x : FirstOfKey(x)' <=> FirstOfKey(x)) /\ (\A x : FirstOfLr(x)' <=> FirstOfLr(x))
      /\ (\A e : Place(e)' = Place(e)) /\ \A x, y : Before(x, y)' <=> Before(x, y)
  BY <1>1, Same
<1>3. /\ \A x : InCurrentRange(x)' <=> InCurrentRange(x)
      /\ CurrentKey' = CurrentKey /\ OneLabelEach' = OneLabelEach /\ Queue' = Queue /\ Inner' = Inner
      /\ BetweenCalls' = BetweenCalls /\ Running' = Running
  BY <1>1, <1>2 DEF InCurrentRange, CurrentKey, OneLabelEach, Queue, Inner, BetweenCalls, Running
<1>4. (InRange' <=> InRange) /\ (OnKey' <=> OnKey) /\ (OnLabel' <=> OnLabel)
  BY <1>1, <1>3 DEF InRange, OnKey, OnLabel
<1>5. Control'
  BY <1>1, <1>2 DEF ReadInv, Control
<1>6. Arrays'
  BY <1>1, <1>2, <1>3, <1>4 DEF ReadInv, Arrays, Rest
<1>7. Places'
  BY <1>1, <1>2, <1>3, <1>4 DEF ReadInv, Places
<1>8. Seen'
  <2>1. CASE pc \in {"closed", "end"}
    <3>1. \A e : Coming(e)' <=> Coming(e)
      BY <1>1, <1>2, <1>3, <1>4 DEF Coming, ComingInRange, ComingByLeft, ComingAtKey, ComingOfQuery,
                                    ComingOfLabel, OnOrAfter
    <3>2. Matches' = Matches /\ \A e : (Selected(e)' <=> Selected(e)) /\ Relation(e)' = Relation(e)
      BY <1>1 DEF Matches, Selected, Relation
    <3>3. Range(seen)' = Range(seen)
      BY <1>1
    <3>4. QED
      BY <1>1, <3>1, <3>2, <3>3 DEF ReadInv, Seen
  <2>2. CASE pc \notin {"closed", "end"}
    BY <1>1, <1>4, <2>2, Unmoved DEF ReadInv
  <2>3. QED
    BY <2>1, <2>2
<1>9. QED
  BY <1>5, <1>6, <1>7, <1>8 DEF ReadInv

LEMMA StepInv ==
  ASSUME ReadInv, SoundCalls, [Next]_vars
  PROVE  ReadInv'
<1>1. CASE Stop
  BY <1>1, StopInv
<1>2. CASE ResumeRange
  <2>1. reader \in RangeReaders \cup {"1100"}
    BY <1>2 DEF ResumeRange, At
  <2>2. QED
    BY <1>2, <2>1, ResumeRangeInv, ResumeByLeftInv
<1>3. CASE SetRange
  <2>1. pc = "set_range"
    BY <1>3 DEF SetRange
  <2>2. reader \in RangeReaders \cup {"1100"}
    BY <2>1, LabelsAre, ReadersAre DEF ReadInv, Control
  <2>3. QED
    BY <1>3, <2>2, SetRangeInv, SetRangeByLeftInv
<1>4. CASE EachKey
  <2>1. pc = "each_key" /\ reader \in RangeReaders \cup {"1100"}
    BY <1>4 DEF EachKey, At
  <2>2. CASE reader = "1100"
    BY <1>4, <2>2, EachKeyByLeftInv
  <2>3. CASE reader \in RangeReaders
    <3>1. CASE \E a \in at : InCurrentRange(a)
      <4>1. PICK a \in Tree : at = {a} /\ InCurrentRange(a)
        BY <2>1, <2>3, <3>1 DEF ReadInv, Places
      <4>2. QED
        BY <1>4, <2>3, <4>1, EachKeyEnters, EachKeyEntersAtMinimum
    <3>2. CASE ~ \E a \in at : InCurrentRange(a)
      BY <1>4, <2>3, <3>2, EachKeyForwards
    <3>3. QED
      BY <3>1, <3>2
  <2>4. QED
    BY <2>1, <2>2, <2>3
<1>5. CASE EachDataOfRange
  BY <1>5, EachDataOfRangeInv
<1>6. CASE ResumeKey
  BY <1>6, ResumeKeyInv
<1>7. CASE SetKey
  BY <1>7, SetKeyInv
<1>8. CASE EachDataOfKey
  BY <1>8, EachDataOfKeyInv
<1>9. CASE EachLeft
  BY <1>9, EachLeftInv
<1>10. CASE ResumeQuery
  BY <1>10, ResumeQueryInv
<1>11. CASE SetCursor
  BY <1>11, SetCursorInv
<1>12. CASE Resume_0010
  BY <1>12, ResumeLabelInv
<1>13. CASE SetLabelKey
  BY <1>13, SetLabelKeyInv
<1>14. CASE EachLabelData
  BY <1>14, EachLabelDataInv
<1>15. CASE EachLeftData
  BY <1>15, EachLeftDataInv
<1>16. CASE Select
  BY <1>16, SelectInv
<1>17. CASE \E n \in Counts : Read(n, FALSE)
  BY <1>17, ReadCallInv
<1>18. CASE \E n \in Skips : Read(n, TRUE)
  BY <1>18, ReadCallInv
<1>19. CASE Finish
  BY <1>19, FinishInv
<1>20. CASE UNCHANGED vars
  BY <1>20, StillInv
<1>21. QED
  BY <1>1, <1>2, <1>3, <1>4, <1>5, <1>6, <1>7, <1>8, <1>9, <1>10, <1>11, <1>12, <1>13, <1>14,
     <1>15, <1>16, <1>17, <1>18, <1>19, <1>20 DEF Next, Step

(* What has been seen are the matches that are not to come.                *)
THEOREM ReadingInvariant == SoundCalls => (Spec => []ReadInv)
<1> SUFFICES ASSUME SoundCalls
             PROVE  Spec => []ReadInv
  OBVIOUS
<1>1. Init => ReadInv
  BY InitInv
<1>2. ReadInv /\ [Next]_vars => ReadInv'
  BY StepInv
<1>3. QED
  BY <1>1, <1>2, PTL DEF Spec

(* A selection reads matches, and none of them twice, in however many      *)
(* calls of db_relation_read and db_relation_skip.                         *)
THEOREM SelectionsReadMatchesOnce == SoundCalls => (Spec => []ReadsMatchesOnce)
<1> SUFFICES ASSUME SoundCalls
             PROVE  Spec => []ReadsMatchesOnce
  OBVIOUS
<1>1. ReadInv => ReadsMatchesOnce
  BY DEF ReadInv, Seen, ReadsMatchesOnce
<1>2. Spec => []ReadInv
  BY ReadingInvariant
<1>3. QED
  BY <1>1, <1>2, PTL

(* A selection is not at its end before every match has been read.         *)
THEOREM SelectionsMissNothing == SoundCalls => (Spec => []NothingIsMissed)
<1> SUFFICES ASSUME SoundCalls
             PROVE  Spec => []NothingIsMissed
  OBVIOUS
<1>1. ASSUME ReadInv, pc = "end", NEW m \in Matches
      PROVE  m \in Range(seen)
  <2>1. PICK e \in trees.lr : Selected(e) /\ m = Relation(e)
    BY <1>1, MatchesAre
  <2>2. ~Coming(e)
    BY <1>1 DEF Coming
  <2>3. QED
    BY <1>1, <2>1, <2>2 DEF ReadInv, Seen
<1>2. ReadInv => NothingIsMissed
  BY <1>1 DEF NothingIsMissed
<1>3. Spec => []ReadInv
  BY ReadingInvariant
<1>4. QED
  BY <1>2, <1>3, PTL

(* "readers always leave cursors at a valid entry" (relation-read.c).      *)
THEOREM SelectionsStayOnEntries == SoundCalls => (Spec => []OpenOnAnEntry)
<1> SUFFICES ASSUME SoundCalls
             PROVE  Spec => []OpenOnAnEntry
  OBVIOUS
<1>1. ASSUME ReadInv, pc = "open", reader # "1110"
      PROVE  at # {}
  <2>1. reader \in RangeReaders \cup KeyReaders \cup {"1100", "0010"} /\ BetweenCalls /\ Running
    BY <1>1, ReadersAre DEF BetweenCalls, Running
  <2>2. QED
    BY <1>1, <2>1 DEF ReadInv, Places
<1>2. ReadInv => OpenOnAnEntry
  BY <1>1 DEF OpenOnAnEntry
<1>3. Spec => []ReadInv
  BY ReadingInvariant
<1>4. QED
  BY <1>2, <1>3, PTL
-----------------------------------------------------------------------------
(* How much a call takes, which no hypothesis on the calls is needed for.  *)
Counting ==
  /\ seen \in Seq(Range(seen)) /\ count \in Nat /\ asked \in Nat
  /\ reader # "1100" => Len(seen) + count = asked
  /\ pc \in {"closed", "open"} => count = 0
  /\ pc = "closed" => seen = <<>> /\ asked = 0
  /\ pc \in {"resume", "set_cursor"} => count # 0

LEMMA CountPasses ==
  ASSUME Counting, UNCHANGED <<call, seen, count, asked>>,
         pc' \notin {"closed", "open", "resume", "set_cursor"} \/ (pc' = "open" /\ count = 0)
           \/ (pc' = "set_cursor" /\ count # 0)
  PROVE  Counting'
BY DEF Counting, reader

LEMMA CountTakes ==
  ASSUME Counting, UNCHANGED <<call, asked>>, count # 0, NEW x, seen' = Append(seen, x),
         count' = count - 1 \/ (reader = "1100" /\ count' = count),
         pc' \notin {"closed", "open", "resume", "set_cursor"} \/ (pc' = "open" /\ count' = 0)
           \/ (pc' = "set_cursor" /\ count' # 0)
  PROVE  Counting'
<1> DEFINE S == Range(seen) \cup {x}
<1>1. seen \in Seq(S) /\ x \in S
  <2>1. Range(seen) \subseteq S /\ seen \in Seq(Range(seen))
    BY DEF Counting
  <2> HIDE DEF S
  <2>2. seen \in Seq(S)
    BY <2>1
  <2>3. QED
    BY <2>2 DEF S
<1>2. Range(Append(seen, x)) = S
  BY <1>1, Appended
<1>3. Append(seen, x) \in Seq(S) /\ Len(Append(seen, x)) = Len(seen) + 1 /\ Len(seen) \in Nat
  <2> HIDE DEF S
  <2>1. QED
    BY <1>1, Appended
<1>4. seen' \in Seq(Range(seen'))
  BY <1>2, <1>3
<1>5. reader' = reader
  BY DEF reader
<1>6. count' \in Nat
  BY DEF Counting
<1>7. reader # "1100" => Len(seen') + count' = asked'
  BY <1>3 DEF Counting
<1>8. QED
  BY <1>4, <1>5, <1>6, <1>7 DEF Counting

LEMMA CountingKept ==
  ASSUME Counting, [Next]_vars
  PROVE  Counting'
<1>1. CASE Stop
  BY <1>1, CountPasses DEF Stop, Goto, selection
<1>2. CASE ResumeRange
  BY <1>2, CountPasses DEF ResumeRange, Goto, selection
<1>3. CASE SetRange
  BY <1>3, CountPasses DEF SetRange, Goto, selection
<1>4. CASE EachKey
  BY <1>4, CountPasses DEF EachKey, Goto, selection, ForwardRange, OnOrEnd, End, EndUnconverted
<1>5. CASE EachDataOfRange
  <2>1. /\ UNCHANGED <<call, asked>> /\ count # 0 /\ pc' \in {"each_data", "each_key"}
        /\ Pass \/ \E x : Take(x)
    BY <1>5 DEF EachDataOfRange, Goto, selection
  <2>2. QED
    BY <2>1, CountPasses, CountTakes DEF Pass, Take
<1>6. CASE ResumeKey
  BY <1>6, CountPasses DEF ResumeKey, Goto, selection
<1>7. CASE SetKey
  BY <1>7, CountPasses DEF SetKey, NextKey, Goto, selection, OnOrEnd, End
<1>8. CASE EachDataOfKey
  <2>1. /\ UNCHANGED <<call, asked>> /\ count # 0 /\ pc' \in {"each_data", "set_key", "end"}
        /\ Pass \/ \E x : Take(x)
    BY <1>8 DEF EachDataOfKey, NextKey, Goto, selection, OnOrEnd, End
  <2>2. QED
    BY <2>1, CountPasses, CountTakes DEF Pass, Take
<1>9. CASE EachLeft
  <2>1. /\ UNCHANGED <<call, asked>> /\ count # 0 /\ pc' \in {"each_left", "each_key"}
        /\ \/ Pass
           \/ \E x : seen' = Append(seen, x) /\ count' = IF skip THEN count ELSE count - 1
        /\ reader = "1100"
    BY <1>9 DEF EachLeft, Goto, selection, At
  <2>2. QED
    BY <2>1, CountPasses, CountTakes DEF Pass
<1>10. CASE ResumeQuery
  <2>1. pc = "resume" /\ pc' = "set_cursor" /\ UNCHANGED <<call, seen, count, asked>>
    BY <1>10 DEF ResumeQuery, Goto, selection, At
  <2>2. count # 0
    BY <2>1 DEF Counting
  <2>3. QED
    BY <2>1, <2>2, CountPasses
<1>11. CASE SetCursor
  <2>1. /\ pc = "set_cursor" /\ UNCHANGED <<call, asked>>
        /\ Pass \/ \E x : Take(x)
        /\ \/ pc' = "end"
           \/ pc' = "open" /\ count' = 0
           \/ pc' = "set_cursor" /\ count' # 0
    BY <1>11 DEF SetCursor, Goto, selection, At, End
  <2>2. count # 0
    BY <2>1 DEF Counting
  <2>3. CASE Pass
    BY <2>1, <2>3, CountPasses DEF Pass
  <2>4. CASE \E x : Take(x)
    BY <2>1, <2>2, <2>4, CountTakes DEF Take
  <2>5. QED
    BY <2>1, <2>3, <2>4
<1>12. CASE Resume_0010
  BY <1>12, CountPasses DEF Resume_0010, Goto, selection
<1>13. CASE SetLabelKey
  BY <1>13, CountPasses DEF SetLabelKey, ForwardLabel, Goto, selection, OnOrEnd, End
<1>14. CASE EachLabelData
  BY <1>14, CountPasses DEF EachLabelData, Goto, selection, EndUnconverted
<1>15. CASE EachLeftData
  <2>1. /\ UNCHANGED <<call, asked>> /\ count # 0 /\ \E x : Take(x)
        /\ pc' \in {"each_left_data", "each_label_data", "set_label_key", "end"}
    BY <1>15 DEF EachLeftData, ForwardLabel, Goto, selection, OnOrEnd, End
  <2>2. QED
    BY <2>1, CountTakes DEF Take
<1>16. CASE Select
  <2>1. pc = "closed" /\ pc' \in {"end", "open"} /\ UNCHANGED <<call, seen, count, asked>>
    BY <1>16 DEF Select, Goto, End
  <2>2. count = 0
    BY <2>1 DEF Counting
  <2>3. QED
    BY <2>1, <2>2, CountPasses
<1>17. ASSUME NEW n \in Counts \cup Skips, NEW skipping, Read(n, skipping)
       PROVE  Counting'
  <2>1. /\ pc = "open" /\ pc' = "resume" /\ count' = n /\ asked' = asked + n /\ UNCHANGED <<call, seen>>
    BY <1>17 DEF Read, Goto
  <2>2. n \in Nat \ {0}
    BY CountsAssumption
  <2>3. Len(seen) \in Nat /\ asked \in Nat /\ count = 0 /\ reader' = reader
    BY <2>1 DEF Counting, reader
  <2>4. QED
    BY <2>1, <2>2, <2>3 DEF Counting
<1>18. CASE Finish
  <2>1. pc' = "closed" /\ seen' = <<>> /\ count' = 0 /\ asked' = 0
    BY <1>18 DEF Finish, Goto
  <2>2. <<>> \in Seq(Range(<<>>)) /\ Len(<<>>) = 0
    OBVIOUS
  <2>3. QED
    BY <2>1, <2>2 DEF Counting
<1>19. CASE UNCHANGED vars
  BY <1>19 DEF vars, Counting, reader
<1>20. QED
  BY <1>1, <1>2, <1>3, <1>4, <1>5, <1>6, <1>7, <1>8, <1>9, <1>10, <1>11, <1>12, <1>13, <1>14,
     <1>15, <1>16, <1>17, <1>18, <1>19 DEF Next, Step

(* "skip the next count result matches" (relation-read.c): a call that is  *)
(* not at the end takes as many matches as were asked for.                 *)
THEOREM EveryCallTakesItsCount == Spec => []CallsTakeTheirCount
<1>1. Init => Counting
  <2>1. <<>> \in Seq(Range(<<>>)) /\ Len(<<>>) = 0
    OBVIOUS
  <2>2. QED
    BY <2>1 DEF Init, Counting
<1>2. Counting /\ [Next]_vars => Counting'
  BY CountingKept
<1>3. Counting => CallsTakeTheirCount
  <2>1. Counting => Len(seen) \in Nat
    BY DEF Counting
  <2>2. QED
    BY <2>1 DEF Counting, CallsTakeTheirCount
<1>4. QED
  BY <1>1, <1>2, <1>3, PTL DEF Spec
-----------------------------------------------------------------------------
(* The cursors stand on entries of their trees, for any calls.             *)
Entry == CASE reader \in OverRl -> RlEntry
           [] reader = "0010" -> LlEntry
           [] OTHER -> LrEntry
Typing ==
  /\ trees \in Trees
  /\ at \in SUBSET Entry /\ at2 \in SUBSET LrEntry
  /\ pc = "closed" => at = {}
  /\ pc = "set_range" => reader \in RangeReaders \cup {"1100"}
  /\ status \in {"success", "notfound", "MDB_NOTFOUND"}

LEMMA EntriesAre ==
  /\ reader \in OverRl => Entry = RlEntry
  /\ reader = "0010" => Entry = LlEntry
  /\ reader \in {"0000", "1000", "1010", "1001_1101", "1011_1111"} => Entry = LrEntry
BY DEF Entry, OverRl

LEMMA LrLookups ==
  ASSUME NEW lr \in SUBSET LrEntry, NEW e, NEW key, NEW data
  PROVE  /\ LR!First(lr) \in SUBSET LrEntry
         /\ LR!SetRange(lr, key) \in SUBSET LrEntry /\ LR!SetKey(lr, key) \in SUBSET LrEntry
         /\ LR!GetBothRange(lr, key, data) \in SUBSET LrEntry
         /\ LR!NextDup(lr, e) \in SUBSET LrEntry /\ LR!NextNodup(lr, e) \in SUBSET LrEntry
<1>1. \A S \in SUBSET LrEntry : LR!Least(S) \in SUBSET LrEntry
  BY LrLands
<1>2. QED
  BY <1>1 DEF LR!First, LR!SetRange, LR!SetKey, LR!GetBothRange, LR!NextDup, LR!NextNodup

LEMMA RlLookups ==
  ASSUME NEW rl \in SUBSET RlEntry, NEW e, NEW key, NEW data
  PROVE  /\ RL!First(rl) \in SUBSET RlEntry
         /\ RL!SetRange(rl, key) \in SUBSET RlEntry /\ RL!SetKey(rl, key) \in SUBSET RlEntry
         /\ RL!GetBoth(rl, key, data) \in SUBSET RlEntry
         /\ RL!NextDup(rl, e) \in SUBSET RlEntry /\ RL!NextNodup(rl, e) \in SUBSET RlEntry
<1>1. \A S \in SUBSET RlEntry : RL!Least(S) \in SUBSET RlEntry
  BY RlLands
<1>2. QED
  BY <1>1 DEF RL!First, RL!SetRange, RL!SetKey, RL!GetBoth, RL!NextDup, RL!NextNodup

LEMMA LlLookups ==
  ASSUME NEW ll \in SUBSET LlEntry, NEW x, NEW key
  PROVE  /\ LL!First(ll) \in SUBSET LlEntry /\ LL!SetKey(ll, key) \in SUBSET LlEntry
         /\ LL!NextDup(ll, x) \in SUBSET LlEntry
<1>1. \A S \in SUBSET LlEntry : LL!Least(S) \in SUBSET LlEntry
  BY LlLands
<1>2. QED
  BY <1>1 DEF LL!First, LL!SetKey, LL!NextDup

LEMMA Moves ==
  ASSUME trees \in Trees, reader # "0010", NEW e
  PROVE  NextDup(e) \in SUBSET Entry /\ NextNodup(e) \in SUBSET Entry
<1>1. trees.lr \in SUBSET LrEntry /\ trees.rl \in SUBSET RlEntry
  BY DEF Trees
<1>2. Entry = IF reader \in OverRl THEN RlEntry ELSE LrEntry
  BY DEF Entry
<1>3. QED
  BY <1>1, <1>2, LrLookups, RlLookups DEF NextDup, NextNodup

LEMMA StepTyped ==
  ASSUME Typing, Step
  PROVE  /\ UNCHANGED <<trees, call>> /\ pc' # "closed"
         /\ at' \in SUBSET Entry /\ at2' \in SUBSET LrEntry
         /\ pc' = "set_range" => reader \in RangeReaders \cup {"1100"}
         /\ status' \in {"success", "notfound", "MDB_NOTFOUND"}
<1>1. /\ trees.lr \in SUBSET LrEntry /\ trees.rl \in SUBSET RlEntry /\ trees.ll \in SUBSET LlEntry
      /\ at \in SUBSET Entry /\ at2 \in SUBSET LrEntry
      /\ status \in {"success", "notfound", "MDB_NOTFOUND"}
  BY DEF Typing, Trees
<1>2. CASE Stop
  BY <1>1, <1>2 DEF Stop, Goto, selection
<1>3. CASE ResumeRange
  BY <1>1, <1>3 DEF ResumeRange, At, Goto, selection
<1>4. CASE SetRange
  <2>1. /\ pc = "set_range" /\ pc' = "each_key" /\ UNCHANGED <<trees, call, at2, status>>
        /\ at' = IF reader \in OverRl THEN RL!SetRange(trees.rl, <<Head(right), 0>>)
                 ELSE LR!SetRange(trees.lr, <<Head(left), 0>>)
    BY <1>4 DEF SetRange, Goto, selection
  <2>2. Entry = IF reader \in OverRl THEN RlEntry ELSE LrEntry
    BY <2>1, EntriesAre DEF Typing, RangeReaders, OverRl
  <2>3. QED
    BY <1>1, <2>1, <2>2, LrLookups, RlLookups
<1>5. CASE EachKey
  <2>1. /\ reader \in RangeReaders \cup {"1100"} /\ UNCHANGED <<trees, call, at2>>
        /\ pc' \in {"each_data", "each_left", "each_key", "set_range", "end"}
        /\ status' \in {status, "notfound", "MDB_NOTFOUND"}
        /\ \/ at' = at
           \/ \E e \in at : \/ at' = NextNodup(e)
                            \/ /\ reader = "1001_1101"
                               /\ at' = LR!GetBothRange(trees.lr, e.key, <<call.ordinal.min, 0>>)
    BY <1>5 DEF EachKey, At, ForwardRange, OnOrEnd, End, EndUnconverted, Goto, selection
  <2>2. \A e : NextNodup(e) \in SUBSET Entry
    BY <2>1, Moves DEF Typing, RangeReaders
  <2>3. reader = "1001_1101" => \A e : LR!GetBothRange(trees.lr, e.key, <<call.ordinal.min, 0>>) \in SUBSET Entry
    BY <1>1, EntriesAre, LrLookups
  <2>4. QED
    BY <1>1, <2>1, <2>2, <2>3
<1>6. CASE EachDataOfRange
  <2>1. /\ reader # "0010" /\ UNCHANGED <<trees, call, at2, status>> /\ pc' \in {"each_data", "each_key"}
        /\ \E e \in at : at' = NextDup(e) \/ at' = NextNodup(e)
    BY <1>6 DEF EachDataOfRange, At, Goto, selection, RangeReaders
  <2>2. \A e : NextDup(e) \in SUBSET Entry /\ NextNodup(e) \in SUBSET Entry
    BY <2>1, Moves DEF Typing
  <2>3. QED
    BY <1>1, <2>1, <2>2
<1>7. CASE ResumeKey
  BY <1>1, <1>7 DEF ResumeKey, Goto, selection
<1>8. CASE SetKey
  <2>1. /\ reader \in KeyReaders /\ UNCHANGED <<trees, call, at2>>
        /\ pc' \in {"each_data", "set_key", "end"} /\ status' \in {status, "notfound"}
        /\ at' = CASE reader = "0110" -> RL!SetKey(trees.rl, CurrentKey)
                   [] reader = "1010" -> LR!SetKey(trees.lr, CurrentKey)
                   [] reader = "1011_1111" ->
                        LR!GetBothRange(trees.lr, CurrentKey, <<call.ordinal.min, 0>>)
    BY <1>8 DEF SetKey, At, NextKey, OnOrEnd, End, Goto, selection
  <2>2. at' \in SUBSET Entry
    BY <1>1, <2>1, EntriesAre, LrLookups, RlLookups DEF KeyReaders, OverRl
  <2>3. QED
    BY <1>1, <2>1, <2>2
<1>9. CASE EachDataOfKey
  <2>1. /\ reader # "0010" /\ UNCHANGED <<trees, call, at2>>
        /\ pc' \in {"each_data", "set_key", "end"} /\ status' \in {status, "notfound"}
        /\ at' = at \/ \E e \in at : at' = NextDup(e)
    BY <1>9 DEF EachDataOfKey, At, NextKey, OnOrEnd, End, Goto, selection, KeyReaders
  <2>2. \A e : NextDup(e) \in SUBSET Entry
    BY <2>1, Moves DEF Typing
  <2>3. QED
    BY <1>1, <2>1, <2>2
<1>10. CASE EachLeft
  <2>1. /\ reader = "1100" /\ UNCHANGED <<trees, call, at2, status>> /\ pc' \in {"each_left", "each_key"}
        /\ at' = at \/ \E e \in at : \/ at' = NextNodup(e)
                                     \/ at' = RL!GetBoth(trees.rl, e.key, Head(left))
    BY <1>10 DEF EachLeft, At, Goto, selection
  <2>2. \A e : NextNodup(e) \in SUBSET Entry /\ RL!GetBoth(trees.rl, e.key, Head(left)) \in SUBSET Entry
    BY <1>1, <2>1, Moves, EntriesAre, RlLookups DEF Typing, OverRl
  <2>3. QED
    BY <1>1, <2>1, <2>2
<1>11. CASE ResumeQuery
  BY <1>1, <1>11 DEF ResumeQuery, Goto, selection
<1>12. CASE SetCursor
  <2>1. /\ reader = "1110" /\ UNCHANGED <<trees, call, at2>> /\ pc' \in {"end", "open", "set_cursor"}
        /\ status' \in {status, "notfound", "success"}
        /\ at' = RL!GetBoth(trees.rl, <<Head(right), Head(label)>>, Head(left))
    BY <1>12 DEF SetCursor, At, End, Goto, selection
  <2>2. at' \in SUBSET Entry
    BY <1>1, <2>1, EntriesAre, RlLookups DEF OverRl
  <2>3. QED
    BY <1>1, <2>1, <2>2
<1>13. CASE Resume_0010
  BY <1>1, <1>13 DEF Resume_0010, Goto, selection
<1>14. CASE SetLabelKey
  <2>1. /\ reader = "0010" /\ UNCHANGED <<trees, call, at2>>
        /\ pc' \in {"each_label_data", "set_label_key", "end"} /\ status' \in {status, "notfound"}
        /\ at' = at \/ at' = LL!SetKey(trees.ll, Head(label))
    BY <1>14 DEF SetLabelKey, At, ForwardLabel, OnOrEnd, End, Goto, selection
  <2>2. QED
    BY <1>1, <2>1, EntriesAre, LlLookups
<1>15. CASE EachLabelData
  <2>1. /\ UNCHANGED <<trees, call, at>> /\ pc' \in {"each_left_data", "end"}
        /\ status' \in {status, "notfound", "MDB_NOTFOUND"}
        /\ at2' = at2 \/ \E x \in at : at2' = LR!SetKey(trees.lr, <<x.data, Head(label)>>)
    BY <1>15 DEF EachLabelData, EndUnconverted, Goto, selection
  <2>2. QED
    BY <1>1, <2>1, LrLookups
<1>16. CASE EachLeftData
  <2>1. /\ reader = "0010" /\ UNCHANGED <<trees, call>>
        /\ pc' \in {"each_left_data", "each_label_data", "set_label_key", "end"}
        /\ status' \in {status, "notfound"}
        /\ \E x \in at, e \in at2 : /\ at2' = at2 \/ at2' = LR!NextDup(trees.lr, e)
                                    /\ at' = at \/ at' = LL!NextDup(trees.ll, x)
    BY <1>16 DEF EachLeftData, At, ForwardLabel, OnOrEnd, End, Goto, selection
  <2>2. QED
    BY <1>1, <2>1, EntriesAre, LrLookups, LlLookups
<1>17. QED
  BY <1>2, <1>3, <1>4, <1>5, <1>6, <1>7, <1>8, <1>9, <1>10, <1>11, <1>12, <1>13, <1>14, <1>15,
     <1>16 DEF Step

LEMMA TypingKept ==
  ASSUME Typing, [Next]_vars
  PROVE  Typing'
<1>1. trees \in Trees /\ at \in SUBSET Entry /\ at2 \in SUBSET LrEntry
      /\ status \in {"success", "notfound", "MDB_NOTFOUND"}
  BY DEF Typing
<1>2. call' = call => reader' = reader /\ Entry' = Entry
  BY DEF reader, Entry
<1>3. CASE Step
  BY <1>1, <1>2, <1>3, StepTyped DEF Typing
<1>4. CASE Select
  <2>1. /\ UNCHANGED <<trees, call>> /\ pc' \in {"open", "end"} /\ status' \in {status, "notfound"}
        /\ at' = CASE reader \in OverRl -> RL!First(trees.rl)
                   [] reader = "0010" -> LL!First(trees.ll)
                   [] OTHER -> LR!First(trees.lr)
        /\ at2' = IF reader = "0010" THEN LR!First(trees.lr) ELSE {}
    BY <1>4 DEF Select, End, Goto
  <2>2. trees.lr \in SUBSET LrEntry /\ trees.rl \in SUBSET RlEntry /\ trees.ll \in SUBSET LlEntry
    BY <1>1 DEF Trees
  <2>3. /\ LR!First(trees.lr) \in SUBSET LrEntry /\ RL!First(trees.rl) \in SUBSET RlEntry
        /\ LL!First(trees.ll) \in SUBSET LlEntry
    BY <2>2, LrLookups, RlLookups, LlLookups
  <2>4. at' \in SUBSET Entry /\ at2' \in SUBSET LrEntry
    BY <2>1, <2>3 DEF Entry, OverRl
  <2>5. QED
    BY <1>1, <1>2, <2>1, <2>4 DEF Typing
<1>5. ASSUME NEW n, NEW skipping, Read(n, skipping)
      PROVE  Typing'
  BY <1>1, <1>2, <1>5 DEF Read, Typing, Goto
<1>6. CASE Finish
  BY <1>1, <1>2, <1>6 DEF Finish, Typing, Goto
<1>7. CASE UNCHANGED vars
  BY <1>2, <1>7 DEF Typing, vars
<1>8. QED
  BY <1>3, <1>4, <1>5, <1>6, <1>7 DEF Next

(* The cursors hold entries of their trees, and the count is a number.     *)
THEOREM ReadersTypeCorrect == Spec => []TypeOK
<1>1. Init => Typing
  <2>1. SUFFICES ASSUME Init PROVE Typing
    OBVIOUS
  <2>2. PICK lr \in SUBSET Relations : trees = Stored(lr)
    BY <2>1 DEF Init
  <2>3. \A e \in lr : e \in LrEntry /\ RlOf(e) \in RlEntry /\ LlOf(e) \in LlEntry
    BY RelationsAssumption, LrTyped DEF RlOf, LlOf, Rl, Ll, RlEntry, LlEntry
  <2>4. trees \in Trees
    BY <2>2, <2>3 DEF Stored, Trees
  <2>5. QED
    BY <2>1, <2>4 DEF Init, Typing
<1>2. Typing /\ [Next]_vars => Typing'
  BY TypingKept
<1>3. Init => Counting
  <2>1. <<>> \in Seq(Range(<<>>)) /\ Len(<<>>) = 0
    OBVIOUS
  <2>2. QED
    BY <2>1 DEF Init, Counting
<1>4. Counting /\ [Next]_vars => Counting'
  BY CountingKept
<1>5. Typing /\ Counting => TypeOK
  BY DEF Typing, Counting, TypeOK, Entry
<1>6. QED
  BY <1>1, <1>2, <1>3, <1>4, <1>5, PTL DEF Spec
=============================================================================
