--------------------------- MODULE InvariantKeys ---------------------------
(***************************************************************************)
(* The bytes a primary or partition key is stored as (invariant_key.rs): a *)
(* count, and for every value a tag of its type followed by its data, of a *)
(* fixed size or behind a length.  Keys are compared by their bytes.  A    *)
(* byte is a number; the first byte of a payload carries the value, and    *)
(* longer texts stand for greater values.  A decimal with trailing zeros   *)
(* (tag "padded") has the bytes of another scale.                          *)
(***************************************************************************)
EXTENDS Integers, Sequences, SequencesExt

MAX_COLUMNS == 255
VAR_LEN_SIZE == 4

KeyTypes == <<"boolean", "tinyint", "smallint", "int", "bigint", "float", "double",
              "text", "ascii", "uuid", "timeuuid", "date", "time", "timestamp",
              "inet", "inet6", "counter", "blob", "varint", "decimal">>
TAG_EMPTY == 0
TagOf(type) == CHOOSE i \in DOMAIN KeyTypes : KeyTypes[i] = type

FixedSize(type) ==
    CASE type \in {"boolean", "tinyint"} -> 1
      [] type = "smallint" -> 2
      [] type \in {"int", "float", "date", "inet"} -> 4
      [] type \in {"bigint", "double", "time", "timestamp", "counter"} -> 8
      [] type \in {"uuid", "timeuuid", "inet6"} -> 16
      [] OTHER -> 0                     \* behind a length

Bytes(n, v) == [i \in 1..n |-> IF i = 1 THEN v ELSE 0]

\* The payload of a decimal starts with its scale.
Payload(x) ==
    IF x.type = "decimal" THEN Bytes(4, IF x.tag = "padded" THEN 1 ELSE 0) \o <<x.v>>
    ELSE IF x.type = "varint" THEN <<x.v>> ELSE Bytes(x.v + 1, x.v)

EncodeValue(x) ==
    IF x.tag = "empty" THEN <<TAG_EMPTY>>
    ELSE IF FixedSize(x.type) > 0 THEN <<TagOf(x.type)>> \o Bytes(FixedSize(x.type), x.v)
    ELSE <<TagOf(x.type)>> \o Bytes(VAR_LEN_SIZE, Len(Payload(x))) \o Payload(x)

\* from_iter takes the first MAX_COLUMNS values.
Encode(values) ==
    LET n == IF Len(values) > MAX_COLUMNS THEN MAX_COLUMNS ELSE Len(values)
    IN  <<n>> \o FlattenSeq([i \in 1..n |-> EncodeValue(values[i])])

ReadVarLen(data, o) == data[o + 1]

SkipValue(data, o) ==
    IF data[o] = TAG_EMPTY THEN 1
    ELSE IF FixedSize(KeyTypes[data[o]]) > 0 THEN 1 + FixedSize(KeyTypes[data[o]])
    ELSE 1 + VAR_LEN_SIZE + ReadVarLen(data, o)

DecodeValue(data, o) ==
    IF data[o] = TAG_EMPTY THEN [type |-> "empty", tag |-> "empty", v |-> 0]
    ELSE LET type == KeyTypes[data[o]] IN
         IF FixedSize(type) > 0 THEN [type |-> type, tag |-> "none", v |-> data[o + 1]]
         ELSE LET p == o + 1 + VAR_LEN_SIZE IN
              IF type = "decimal"
              THEN [type |-> type, v |-> data[p + 4],
                    tag |-> IF data[p] = 1 THEN "padded" ELSE "none"]
              ELSE [type |-> type, tag |-> "none", v |-> data[p]]

KeyLen(data) == data[1]

\* The iterator decodes one value after the other.
KeyIter(data) ==
    LET offset[n \in 1..(KeyLen(data) + 1)] ==
            IF n = 1 THEN 2 ELSE offset[n - 1] + SkipValue(data, offset[n - 1])
    IN  [i \in 1..KeyLen(data) |-> DecodeValue(data, offset[i])]

\* The value at a position; the values before it are skipped.
KeyGet(data, i) ==
    LET offset[n \in 1..i] ==
            IF n = 1 THEN 2 ELSE offset[n - 1] + SkipValue(data, offset[n - 1])
    IN  IF i > KeyLen(data) THEN <<>> ELSE <<DecodeValue(data, offset[i])>>

-----------------------------------------------------------------------------
(* Primary keys (primary_key.rs, table/mod.rs).  A table looks rows up by   *)
(* keys in which the decimals of clustering columns have no trailing zeros, *)
(* and keeps the keys as they came for its answers.                         *)

Normalize(x) == IF x.type = "decimal" /\ x.tag = "padded" THEN [x EXCEPT !.tag = "none"] ELSE x

NormalizePrimaryKey(data, partition_primary_key_count) ==
    LET values == KeyIter(data)
    IN  Encode([i \in DOMAIN values |->
            IF i > partition_primary_key_count THEN Normalize(values[i]) ELSE values[i]])

\* A key is bound to a statement that takes as many columns.
SerializeKey(data, columns) == IF KeyLen(data) # columns THEN <<>> ELSE <<KeyIter(data)>>

\* A value of each kind of encoding, and keys of a partition and a clustering
\* column.
KeyValues ==
    [type : {"int", "text", "decimal", "uuid"}, tag : {"none"}, v : 0..1]
        \cup [type : {"decimal"}, tag : {"padded"}, v : 0..1]
        \cup {[type |-> "empty", tag |-> "empty", v |-> 0]}
TwoColumnKeys == {<<a, b>> : a, b \in KeyValues}

(* A key can be read back, by position, by iteration and for a statement,   *)
(* and two keys find the same row exactly when they are the same to the     *)
(* database: partition columns byte by byte, clustering columns by value    *)
(* (normalize_primary_key).                                                 *)
KeysRight ==
    LET same(a, b) == a[1] = b[1] /\ Normalize(a[2]) = Normalize(b[2])
        lookup == [k \in TwoColumnKeys |-> NormalizePrimaryKey(Encode(k), 1)]
    IN  /\ \A k \in TwoColumnKeys :
              /\ KeyIter(Encode(k)) = k
              /\ \A i \in 1..3 : KeyGet(Encode(k), i) = IF i = 3 THEN <<>> ELSE <<k[i]>>
              /\ SerializeKey(Encode(k), 2) = <<k>> /\ SerializeKey(Encode(k), 3) = <<>>
        /\ \A a, b \in TwoColumnKeys : lookup[a] = lookup[b] <=> same(a, b)
=============================================================================
