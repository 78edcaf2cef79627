--------------------------- MODULE MCRelationRead ---------------------------
(***************************************************************************)
(* Instances of RelationRead for TLC: which selections are made.           *)
(***************************************************************************)
EXTENDS RelationRead

(* Eight relations with an ordinal each: ordinals in and against the order *)
(* of the rights, and equal ones.                                          *)
OrdinalOf(l, b, r) ==
  CASE b = 2 -> IF (l = 1) = (r = 1) THEN 1 ELSE 0
    [] b = 3 -> l - 1
EightRelations ==
  {Lr(x[1], x[2], OrdinalOf(x[1], x[2], x[3]), x[3]) : x \in Left \X Label \X Right}

(* One id, and two in either order, at each position.                      *)
LeftArray == {Null, <<2>>, <<1, 2>>, <<2, 1>>}
LabelArray == {Null, <<2>>, <<3, 2>>}
RightArray == {Null, <<3>>, <<1, 3>>, <<3, 1>>}

(* Without a condition on ordinals; of the reader 0010 with one label.     *)
PlainCalls == {c \in [left: LeftArray, label: LabelArray, right: RightArray, ordinal: {Null}] :
                 Sound(c)}

(* With conditions on ordinals.                                            *)
OrdinalCalls == [left: {<<2>>, <<1, 2>>}, label: {Null, <<3, 2>>}, right: {Null, <<3>>},
                 ordinal: {o \in OrdinalCondition : o.max <= o.min}]

AllCalls == PlainCalls \cup OrdinalCalls

(* What the theorems of RelationReadProofs suppose.                        *)
ASSUME AllCallsAreSound == \A c \in AllCalls : Sound(c)
=============================================================================
