----------------------------- MODULE RecordData -----------------------------
(***************************************************************************)
(* How the values of a record become bytes and bytes become values again   *)
(* (record.c), and the keys of its index entries (index.c).  The bytes are *)
(* kept one by one: what the properties are about is where they end up.    *)
(* Virtual records (main.c) are ids that hold their data.                  *)
(***************************************************************************)
EXTENDS Integers, Sequences, SequencesExt

CONSTANTS FieldList,    \* the fields of a type: [fixed, size], fixed ones first
          Byte,         \* 0 .. 255: what a byte can be
          MaxLength,    \* bound: of the data given for a field
          IndexFields,  \* the offsets of the indexed fields
          TypeSize,     \* 2: the bytes of db_type_id_t
          ElementSize   \* 6: the bytes of an id that are left for an element

VARIABLES values, other  \* two db_record_values_t: [data, extent]

vars == <<values, other>>

FieldCount == Len(FieldList)
Field == 0 .. FieldCount - 1
FixedCount == Cardinality({f \in Field : FieldList[f + 1].fixed})
Size(field) == FieldList[field + 1].size

Bytes == UNION {[1 .. n -> Byte] : n \in 0 .. MaxLength}
Zeros(n) == [i \in 1 .. n |-> 0]
Padded(bytes, n) == bytes \o Zeros(n - Len(bytes))

ByteCount == Cardinality(Byte)
Total(sizes) == FoldSeq(+, 0, sizes)

(* A size as a prefix of the given number of bytes, low byte first.        *)
Prefix(n, size) == [i \in 1 .. size |-> (n \div (ByteCount ^ (i - 1))) % ByteCount]
PrefixValue(bytes) == FoldRight(LAMBDA byte, high : byte + ByteCount * high, bytes, 0)
-----------------------------------------------------------------------------
(* Sizes that db_record_values_set rejects.                                *)
TooLarge(field, bytes) ==
  IF field < FixedCount THEN Size(field) < Len(bytes) ELSE ByteCount ^ Size(field) <= Len(bytes)

NoValues == [data |-> [f \in Field |-> <<>>], extent |-> 0]

(* A mutant: the extent is that of the field that was set last.            *)
ValuesSet_LastSet(v, field, bytes) ==
  [data |-> [v.data EXCEPT ![field] = bytes], extent |-> 1 + field]
(* db_record_values_set, for a size that is not too large.                 *)
ValuesSet(v, field, bytes) ==
  [data |-> [v.data EXCEPT ![field] = bytes],
   extent |-> IF v.extent <= field THEN 1 + field ELSE v.extent]

FieldData(v, field) ==
  IF field < FixedCount THEN Padded(v.data[field], Size(field))
  ELSE Prefix(Len(v.data[field]), Size(field)) \o v.data[field]

(* db_record_values_to_data: unset fields at the end are left out.         *)
ToData(v) == FlattenSeq([i \in 1 .. v.extent |-> FieldData(v, i - 1)])

(* fields_fixed_offsets, and its last entry, where variable fields start.  *)
Offset(field) == Total([i \in 1 .. field |-> Size(i - 1)])

(* Where the prefix of a variable field is: the prefixes before it are     *)
(* followed until the data ends.                                           *)
PrefixAt(record) ==
  LET at[field \in FixedCount .. FieldCount] ==
        IF field = FixedCount THEN Offset(FixedCount)
        ELSE LET before == at[field - 1]
                 size   == Size(field - 1)
             IN IF before >= Len(record) THEN before
                ELSE before + size + PrefixValue(SubSeq(record, before + 1, before + size))
  IN at

Start(record, field) ==
  IF field < FixedCount THEN Offset(field) ELSE PrefixAt(record)[field]

(* db_record_ref, for a field that is set.                                 *)
IsSet(record, field) == Start(record, field) < Len(record)
Ref(record, field) ==
  LET start == Start(record, field)
      data  == start + Size(field)
  IN IF field < FixedCount THEN SubSeq(record, start + 1, data)
     ELSE SubSeq(record, data + 1, data + PrefixValue(SubSeq(record, start + 1, data)))

(* db_record_data_to_values stops at the first field that is not set.      *)
ToValues(record) ==
  LET set == {n \in 0 .. FieldCount : \A f \in 0 .. n - 1 : IsSet(record, f)}
      extent == Max(set)
  IN [data |-> [f \in Field |-> IF f < extent THEN Ref(record, f) ELSE <<>>],
      extent |-> extent]
-----------------------------------------------------------------------------
(* memcpy: bytes over the target, behind its first at bytes.               *)
Put(target, at, bytes) ==
  [i \in 1 .. Max({Len(target), at + Len(bytes)}) |->
     IF at < i /\ i <= at + Len(bytes) THEN bytes[i - at] ELSE target[i]]

Given(v, field) == IF field < v.extent THEN v.data[field] ELSE <<>>

KeySize(v) ==
  Total([i \in DOMAIN IndexFields |->
           LET f == IndexFields[i]
           IN Size(f) + IF f < FixedCount THEN 0 ELSE Len(Given(v, f))])

(* A mutant: fields without a prefix, whatever they are.                   *)
IndexKey_NoPrefix(v) ==
  Padded(FlattenSeq([i \in DOMAIN IndexFields |-> Given(v, IndexFields[i])]), KeySize(v))
(* db_index_key.  Whether a field has a prefix is decided by its position  *)
(* in the index and not by its position in the type.                       *)
IndexKey(v) ==
  LET Filled(done, i) ==
        LET f     == IndexFields[i]
            bytes == Given(v, f)
        IN IF i - 1 < FixedCount
           THEN [at |-> done.at + Size(f), key |-> Put(done.key, done.at, bytes)]
           ELSE [at |-> done.at + Size(f) + Len(bytes),
                 key |-> Put(done.key, done.at, Prefix(Len(bytes), Size(f)) \o bytes)]
  IN FoldLeft(Filled, [at |-> 0, key |-> Zeros(KeySize(v))],
              [i \in DOMAIN IndexFields |-> i]).key
-----------------------------------------------------------------------------
Ids == INSTANCE RecordIds WITH TypeCount    <- ByteCount ^ TypeSize,
                               ElementCount <- ByteCount ^ ElementSize

(* The bytes are copied over an id of zero, from its lowest byte on, and   *)
(* the type moves them up; the way back takes it off again.                *)
RecordVirtual(type, bytes) == Ids!AddType(PrefixValue(bytes), type)
(* A mutant: the type is left where it is.                                 *)
VirtualData_WholeId(id, size) == Prefix(id, size)
VirtualData(id, size) == Prefix(Ids!ElementOf(id), size)
-----------------------------------------------------------------------------
Init == values = NoValues /\ other = NoValues

Set(field, bytes) == /\ ~TooLarge(field, bytes)
                     /\ values' = ValuesSet(values, field, bytes) /\ UNCHANGED other
SetOther(field, bytes) == /\ ~TooLarge(field, bytes)
                          /\ other' = ValuesSet(other, field, bytes) /\ UNCHANGED values

Next == \E field \in Field, bytes \in Bytes : Set(field, bytes) \/ SetOther(field, bytes)

Spec == Init /\ [][Next]_vars
-----------------------------------------------------------------------------
(* What a reader can tell of a field: fixed fields have no length.         *)
Stored(v, field) ==
  IF field < FixedCount THEN Padded(Given(v, field), Size(field)) ELSE Given(v, field)

(* The data of a record gives back every value that was set, empty ones    *)
(* and unset ones between them included, and how far values were set: for  *)
(* db_record_values_to_data and db_record_data_to_values.                  *)
RoundTrip ==
  LET back == ToValues(ToData(values))
  IN /\ back.extent = values.extent
     /\ \A f \in Field :
          back.data[f] = IF f < values.extent THEN Stored(values, f) ELSE values.data[f]

(* db_index_key fills the memory for a key to its end and not beyond, and  *)
(* gives records the same key only if the indexed values agree, and always *)
(* then.                                                                   *)
KeyFits == Len(IndexKey(values)) = KeySize(values)
KeysDistinguish ==
  IndexKey(values) = IndexKey(other) <=>
    \A i \in DOMAIN IndexFields : Stored(values, IndexFields[i]) = Stored(other, IndexFields[i])
KeysAreExact == KeyFits /\ KeysDistinguish

(* The id of a virtual record (db_record_virtual) gives back its type and  *)
(* its data (db_record_virtual_data), and data of one size and type have   *)
(* the same id only if they agree.                                         *)
VirtualRoundTrip ==
  \A type \in Ids!TypeId, field \in Field :
    LET data  == values.data[field]
        data2 == other.data[field]
        id    == RecordVirtual(type, data)
    IN Len(data) <= ElementSize =>
         /\ Ids!TypeOf(id) = type
         /\ VirtualData(id, Len(data)) = data
         /\ Len(data2) = Len(data) /\ RecordVirtual(type, data2) = id => data2 = data
=============================================================================
