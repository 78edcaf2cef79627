---- MODULE MCEnvironment ----
EXTENDS Environment

Field(code, name) == [code |-> code, name |-> name]

(* Fixed fields before variable ones; a virtual type; variable fields      *)
(* only, of a code without size among them; no fields; the wrong order.    *)
SomeTypes ==
  { [flags |-> 0, name |-> <<"a">>,
     fields |-> <<Field(2, <<"x">>), Field(11, <<"y", "y">>), Field(-8, <<>>), Field(-1, <<"z">>)>>],
    [flags |-> Virtual, name |-> <<"b">>, fields |-> <<Field(10, <<"x">>)>>],
    [flags |-> 0, name |-> <<"c", "c">>, fields |-> <<Field(-7, <<"x">>), Field(-20, <<"y">>)>>],
    [flags |-> 0, name |-> <<>>, fields |-> <<>>],
    [flags |-> 0, name |-> <<"a">>, fields |-> <<Field(-5, <<"x">>), Field(1, <<"y">>)>>],
    [flags |-> Virtual, name |-> <<"b">>, fields |-> <<Field(11, <<"x">>)>>] }
=============================================================================
