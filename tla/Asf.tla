-------------------------------- MODULE Asf --------------------------------
(***************************************************************************)
(* ASF, the format in which the library serializes values and maps.        *)
(*                                                                         *)
(* A value is a record with its type and content: for a number the bytes   *)
(* of its representation from the lowest to the highest, for a string its  *)
(* characters, for an array its values, for a map the pairs of a key and a *)
(* value in the order in which the unordered_map has them.  A length takes *)
(* four bytes, two for a key.                                              *)
(***************************************************************************)
EXTENDS Integers, Sequences, SequencesExt

CONSTANTS
  Depth,     \* how deep values are nested in each other, at most
  Doubles    \* are there numbers of type Double?

ASSUME DepthAssumption == Depth \in Nat
ASSUME DoublesAssumption == Doubles \in BOOLEAN

TypeNames ==
  <<"I8", "U8", "I16", "U16", "I32", "U32", "I64", "U64", "Double",
    "StringT", "ArrayT", "MapT">>

Width == [I8 |-> 1, U8 |-> 1, I16 |-> 2, U16 |-> 2, I32 |-> 4, U32 |-> 4,
          I64 |-> 8, U64 |-> 8, Double |-> 8]

index(t) == (CHOOSE i \in DOMAIN TypeNames : TypeNames[i] = t) - 1

\* machine_endian: 1 for little.
Endian(little) == IF little THEN 1 ELSE 0

-----------------------------------------------------------------------------
(* Values.                                                                 *)

Byte == 0..255

\* What two bytes can say, and how far the loops count that read an array or
\* a map.
MaxKey == 65535
MaxLength == 2147483647

UpTo(n, S) == {s \in Seq(S) : Len(s) <= n}

Numbers ==
  {v \in [type : DOMAIN Width, of : UpTo(8, Byte)] :
     Len(v.of) = Width[v.type] /\ (v.type = "Double" => Doubles)}

\* The keys of a map are different from each other.
Maps(S) ==
  {m \in UpTo(MaxLength, UpTo(MaxKey, Byte) \X S) :
     \A i, j \in DOMAIN m : m[i][1] = m[j][1] => i = j}

\* The values nested at most d deep.
Value[d \in 0..Depth] ==
  Numbers \cup [type : {"StringT"}, of : UpTo(MaxLength, Byte)]
    \cup IF d = 0 THEN {}
         ELSE [type : {"ArrayT"}, of : UpTo(MaxLength, Value[d - 1])]
                \cup [type : {"MapT"}, of : Maps(Value[d - 1])]

-----------------------------------------------------------------------------
(* Writing.                                                                *)

\* The bytes of n as this machine has them.
InOrder(bytes, little) == IF little THEN bytes ELSE Reverse(bytes)

write_to(n, width, little) ==
  InOrder([i \in 1..width |->
             CASE i = 1 -> n % 256
               [] i = 2 -> (n \div 256) % 256
               [] i = 3 -> (n \div 65536) % 256
               [] i = 4 -> (n \div 16777216) % 256
               [] OTHER -> 0], little)

\* The length of a number is an int, that of a Double a size_t.
\* A mutant: the length of every number is a byte.
NumberLengthByte(t) == 1
NumberLength(t) == IF t = "Double" THEN 8 ELSE 4

\* The serialized values are a function of the values.
serialize_array(items, serialized, little) ==
  write_to(Len(items), 4, little)
    \o FlattenSeq([i \in DOMAIN items |-> serialized[items[i]]])

serialize_map(pairs, serialized, little) ==
  write_to(Len(pairs), 4, little)
    \o FlattenSeq([i \in DOMAIN pairs |->
         write_to(Len(pairs[i][1]), 2, little) \o pairs[i][1]
           \o serialized[pairs[i][2]]])

\* What a value is in bytes, with serialized for the values in it.
WriteValue(v, serialized, little) ==
  <<index(v.type)>> \o
  CASE v.type = "StringT" -> write_to(Len(v.of), 4, little) \o v.of
    [] v.type = "ArrayT"  -> serialize_array(v.of, serialized, little)
    [] v.type = "MapT"    -> serialize_map(v.of, serialized, little)
    [] OTHER              ->
         write_to(Width[v.type], NumberLength(v.type), little) \o InOrder(v.of, little)

_serialize(little) ==
  LET serialized[d \in 0..Depth] ==
        [v \in Value[d] |-> WriteValue(v, serialized[d - 1], little)]
  IN  serialized[Depth]

serialize_value(v, little) == <<2, Endian(little)>> \o _serialize(little)[v]

serialize(pairs, little) ==
  <<1, Endian(little)>> \o serialize_map(pairs, _serialize(little), little)

-----------------------------------------------------------------------------
(* Reading.  An offset counts the bytes before it.  What a reader makes of *)
(* a buffer is a value, the bytes it took and a status: "beyond" if it had *)
(* to read behind the end of the buffer or met a type there is none of,    *)
(* which has no outcome in the code; "dead" if the process died.           *)

Result(status, value, size) == [status |-> status, value |-> value, size |-> size]
Failed(status) == Result(status, <<>>, 0)

\* substr, which ends with the buffer.
Bytes(buff, off, n) ==
  SubSeq(buff, off + 1, IF off + n <= Len(buff) THEN off + n ELSE Len(buff))

\* read_to of a length or, reversed if the writer's order is another, of a number.
Number(bytes) ==
  bytes[1] + (IF Len(bytes) > 1 THEN 256 * bytes[2] ELSE 0)
  + (IF Len(bytes) > 2 THEN 65536 * bytes[3] + 16777216 * bytes[4] ELSE 0)

read_to(buff, off, width, reverse, little) ==
  LET native == InOrder(Bytes(buff, off, width), little)
  IN  IF reverse THEN Reverse(native) ELSE native

\* Of count items no more are looked at than there are bytes: each has some.
Tries(buff, count) == IF count <= Len(buff) THEN count ELSE Len(buff)

\* The items of an array from off on: read is what there is at each offset.
\* An item that cannot be read is the result.
deserialize_array(buff, off, count, read) ==
  LET items[i \in 0..Tries(buff, count)] ==
        IF i = 0 THEN Result("ok", <<>>, off)
        ELSE LET before == items[i - 1]
                 item   == read[before.size]
             IN  IF before.status # "ok" THEN before
                 ELSE IF item.status # "ok" THEN item
                 ELSE Result("ok", Append(before.value, item.value),
                             before.size + 5 + item.size)
  IN  items[Tries(buff, count)]

ReadKey(buff, off, reverse, little) ==
  Bytes(buff, off + 2, Number(read_to(buff, off, 2, reverse, little)))

\* emplace keeps the first value of a key.
Emplace(pairs, k, v) ==
  IF \E i \in DOMAIN pairs : pairs[i][1] = k THEN pairs ELSE Append(pairs, <<k, v>>)

deserialize_map(buff, off, count, read, reverse, little) ==
  LET pairs[i \in 0..Tries(buff, count)] ==
        IF i = 0 THEN Result("ok", <<>>, off)
        ELSE LET before == pairs[i - 1]
                 key    == ReadKey(buff, before.size, reverse, little)
                 start  == before.size + 2 + Len(key)
                 item   == read[start]
             IN  IF before.status # "ok" THEN before
                 ELSE IF before.size + 2 > Len(buff) THEN Failed("beyond")
                 ELSE IF item.status # "ok" THEN item
                 ELSE Result("ok", Emplace(before.value, key, item.value),
                             start + 5 + item.size)
  IN  pairs[Tries(buff, count)]

\* What there is at an offset, with read for the offsets behind it.  The length
\* is not reversed.  A number is read behind five bytes, whatever was written
\* there.
ReadAt(buff, off, read, reverse, little) ==
  LET body == off + 5
      type == TypeNames[buff[off + 1] + 1]
      len  == Number(read_to(buff, off + 1, 4, FALSE, little))
      Value_(r) == IF r.status = "ok"
                   THEN Result("ok", [type |-> type, of |-> r.value], r.size - body)
                   ELSE r
  IN  IF body > Len(buff) \/ buff[off + 1] \notin 0..11 THEN Failed("beyond")
      ELSE CASE type = "StringT" ->
                  Result("ok", [type |-> type, of |-> Bytes(buff, body, len)], len)
             [] type = "ArrayT" ->
                  Value_(deserialize_array(buff, body, len, read))
             [] type = "MapT" ->
                  Value_(deserialize_map(buff, body, len, read, reverse, little))
             [] OTHER ->
                  IF body + Width[type] > Len(buff) THEN Failed("beyond")
                  ELSE Result("ok",
                         [type |-> type,
                          of |-> read_to(buff, body, Width[type], reverse, little)],
                         Width[type])

\* What there is at each offset.  The values in a value are behind it, so that
\* no value is nested deeper than there are bytes.
_deserialize(buff, reverse, little) ==
  LET read[k \in 0..Len(buff)] ==
        [off \in Nat |->
          IF k = 0 THEN Failed("beyond")
          ELSE ReadAt(buff, off, read[k - 1], reverse, little)]
  IN  read[Len(buff)]

\* DESERIALIZE_CHECK
Checked(buff, kind) == Len(buff) > 2 /\ buff[1] # kind

deserialize_value(buff, little) ==
  IF ~Checked(buff, 1) THEN Failed("none")
  ELSE IF Len(buff) < 6 THEN Failed("beyond")
  ELSE _deserialize(buff, buff[2] # Endian(little), little)[6]

\* The number of pairs, as this machine reads it.
Count(buff, little) == Number(read_to(buff, 2, 4, FALSE, little))

deserialize(buff, little) ==
  LET reverse == buff[2] # Endian(little)
  IN  IF ~Checked(buff, 2) THEN Failed("none")
      ELSE deserialize_map(buff, 6, Count(buff, little),
                           _deserialize(buff, reverse, little), reverse, little)

-----------------------------------------------------------------------------
(* Reading with a schema: what is known of a key is its type ("AnyT" for   *)
(* any), whether it may be missing, the values its validator rejects, and  *)
(* whether it was found.  The marks are left in the schema.                *)

\* A mutant: no key is ever missed.
MissingNone(fields) == FALSE

Missing(fields) == \E k \in DOMAIN fields : ~fields[k].optional /\ ~fields[k].found

Marked(schema, k) == [schema EXCEPT !.fields[k].found = TRUE]

\* What a reader made of it, and what it left in the schema.
With(result, schema) ==
  [status |-> result.status, value |-> result.value, size |-> result.size,
   schema |-> schema]

\* A key the schema does not have is refused, or, if it allows them, marked
\* through the end iterator.
deserialize_fields(buff, off, count, read, first, reverse, little) ==
  LET pairs[i \in 0..Tries(buff, count)] ==
        IF i = 0 THEN With(Result("ok", <<>>, off), first)
        ELSE LET before == pairs[i - 1]
                 schema == before.schema
                 key    == ReadKey(buff, before.size, reverse, little)
                 start  == before.size + 2 + Len(key)
                 marked == Marked(schema, key)
                 field  == schema.fields[key]
                 item   == read[start]
             IN  IF before.status # "ok" THEN before
                 ELSE IF before.size + 2 > Len(buff) THEN With(Failed("beyond"), schema)
                 ELSE IF key \notin DOMAIN schema.fields
                 THEN With(Failed(IF schema.allow_undefined THEN "dead" ELSE "none"), schema)
                 ELSE IF start >= Len(buff) THEN With(Failed("beyond"), marked)
                 ELSE IF field.type # "AnyT" /\ index(field.type) # buff[start + 1]
                 THEN With(Failed("none"), marked)
                 ELSE IF item.status # "ok" THEN With(item, marked)
                 ELSE IF item.value \in field.rejects THEN With(Failed("none"), marked)
                 ELSE With(Result("ok", Emplace(before.value, key, item.value),
                                  start + 5 + item.size), marked)
      last == pairs[Tries(buff, count)]
  IN  IF last.status = "ok" /\ Missing(last.schema.fields)
      THEN With(Failed("none"), last.schema)
      ELSE last

deserialize_schema(buff, schema, little) ==
  LET reverse == buff[2] # Endian(little)
  IN  IF ~Checked(buff, 2) THEN With(Failed("none"), schema)
      ELSE deserialize_fields(buff, 6, Count(buff, little),
                              _deserialize(buff, reverse, little), schema, reverse, little)
=============================================================================
