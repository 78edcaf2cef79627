------------------------------- MODULE TypeData -------------------------------
(***************************************************************************)
(* A type as db_type_create writes it into the system tree (type.c), and   *)
(* as db_open_type reads it back (open.c).  A type is declared with flags, *)
(* a name and fields, which are a type code and a name each.               *)
(***************************************************************************)
EXTENDS Integers, Sequences, SequencesExt

Byte     == 256
Virtual  == 1      \* db_type_flag_virtual, the only flag
IdOctets == 6      \* db_size_element_id

(* The type codes by size: 1, 2, 4, 8, 16 and 32 octets.                   *)
CodesBySize == << {-5, -1, 1, 8, 15, 22},          {-6, -2, 2, 9, 16, 23},
                  {-7, -3, 3, 10, 17, 24, 29},     {-8, -4, 4, 11, 18, 25, 30},
                  {5, 12, 19, 26},                 {6, 13, 20, 27} >>

(* db_field_type_size: of a code that is none of these the size is zero.   *)
FieldSize(code) == FoldSeq(+, 0, [k \in DOMAIN CodesBySize |->
                                    IF code \in CodesBySize[k] THEN 2 ^ (k - 1) ELSE 0])
IsFixed(code) == 0 < code

(* What db_type_create rejects.  The length of the name is cut to a byte   *)
(* before it is compared with the limit, so that it never is too long.     *)
Accepted(type) ==
  /\ type.flags = Virtual => Len(type.fields) = 1 /\ FieldSize(type.fields[1].code) <= IdOctets
  /\ \A j \in DOMAIN type.fields : IsFixed(type.fields[j].code) =>
       \A i \in 1 .. j : IsFixed(type.fields[i].code)
-----------------------------------------------------------------------------
(* A name behind its length, which is one octet.                           *)
NameData(name) == <<Len(name) % Byte>> \o SubSeq(name, 1, Len(name) % Byte)

TwoOctets(n) == <<n % Byte, (n \div Byte) % Byte>>
FieldData(field) == <<field.code % Byte>> \o NameData(field.name)

(* The data of the entry in the system tree.                               *)
Encoded(type) == <<type.flags>> \o NameData(type.name) \o TwoOctets(Len(type.fields))
                 \o FlattenSeq([i \in DOMAIN type.fields |-> FieldData(type.fields[i])])

(* db_read_name, for the name behind the octet at the index.               *)
NameAt(data, at) == SubSeq(data, at + 1, at + data[at])
(* A mutant: the octet as it is.                                           *)
Signed_Not(octet) == octet
(* int8_t, which a type code is.                                           *)
Signed(octet) == IF octet < 128 THEN octet ELSE octet - Byte

(* db_open_type, db_open_type_read_fields                                  *)
FieldStarts(data) ==
  LET count == 2 + data[2] + 1
      n     == data[count] + Byte * data[count + 1]
      start[i \in 1 .. n] == IF i = 1 THEN count + 2
                             ELSE LET before == start[i - 1] IN before + 2 + data[before + 1]
  IN start

(* The offsets of fixed fields, and behind them where variable ones start; *)
(* a null pointer if no field is fixed.  Sums are cut to two octets.       *)
FixedOffsets(fields, count) ==
  IF count = 0 THEN <<>>
  ELSE [i \in 1 .. count + 1 |->
          FoldSeq(+, 0, [k \in 1 .. i - 1 |-> fields[k].size]) % (Byte * Byte)]

Decoded(data) ==
  LET start  == FieldStarts(data)
      fields == [i \in DOMAIN start |->
                   [code |-> Signed(data[start[i]]), offset |-> i - 1,
                    size |-> FieldSize(Signed(data[start[i]])),
                    name |-> NameAt(data, start[i] + 1)]]
      fixed  == Len(SelectSeq(fields, LAMBDA field : IsFixed(field.code)))
  IN [flags |-> data[1], name |-> NameAt(data, 2), fields |-> fields,
      fixed |-> fixed, offsets |-> FixedOffsets(fields, fixed)]
=============================================================================
