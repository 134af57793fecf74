------------------------------ MODULE CqlTypes -----------------------------
(***************************************************************************)
(* CQL values in and out of JSON and their order (cql_types.rs).  A CQL    *)
(* value is [type, tag, v], where tag is "empty" for a value of no bytes,  *)
(* "nan" or "infinite" for a float that is not finite, "padded" for a      *)
(* decimal with trailing zeros, and "none" otherwise; v is a number that   *)
(* stands for the value and has its order, that of an infinity beyond      *)
(* those of the numbers of its type.  A JSON value is [json, notation, v]: *)
(* a string is written in the notation of a type.                          *)
(***************************************************************************)
EXTENDS Integers, Sequences

IntegerTypes == {"tinyint", "smallint", "int", "bigint"}
FloatTypes == {"float", "double"}

\* The notation of the types that are strings in JSON.
Notation(type) ==
    CASE type \in {"ascii", "text"} -> "plain"
      [] type \in {"uuid", "timeuuid"} -> "uuid"
      [] type \in {"date", "time", "timestamp", "inet", "blob"} -> type
      [] type = "varint" -> "integer"
      [] type = "decimal" -> "fraction"
      [] OTHER -> "none"

\* tinyint stands for the integers of a fixed width: its bounds are in reach.
InRange(type, v) == type = "tinyint" => v \in -128..127

HasNumber(x) == x.tag \in {"none", "padded"}

ToJson(x) ==
    IF ~HasNumber(x) THEN <<>>
    ELSE IF x.type \in IntegerTypes \cup FloatTypes
    THEN <<[json |-> "number", notation |-> "none", v |-> x.v]>>
    ELSE IF x.type = "boolean" THEN <<[json |-> "bool", notation |-> "none", v |-> x.v]>>
    ELSE IF x.type = "vector" THEN <<[json |-> "array", notation |-> "none", v |-> x.v]>>
    ELSE IF Notation(x.type) # "none"
    THEN <<[json |-> "string", notation |-> Notation(x.type), v |-> x.v]>>
    ELSE <<>>

\* Text takes every string; the other types parse their own notation, and an
\* integer is a decimal as well.
Parses(j, type) ==
    \/ type \in {"ascii", "text"}
    \/ Notation(type) # "none" /\ j.notation = Notation(type)
    \/ type = "decimal" /\ j.notation = "integer"

FromJson(j, type) ==
    IF \/ j.json = "string" /\ Parses(j, type)
       \/ j.json = "bool" /\ type = "boolean"
       \/ /\ j.json = "number"
          /\ type \in IntegerTypes \cup FloatTypes \cup {"varint", "decimal"}
          /\ InRange(type, j.v)
    THEN <<[type |-> type, tag |-> "none", v |-> j.v]>>
    ELSE <<>>

\* A NaN is not even equal to itself.
HasOrder(x) == HasNumber(x) \/ x.tag = "infinite"

\* cmp: <<-1>>, <<0>> or <<1>>; <<>> for values of different types, or of one
\* that has no order.
Cmp(a, b) ==
    IF \/ a.type # b.type \/ ~HasOrder(a) \/ ~HasOrder(b)
       \/ a.type \notin IntegerTypes \cup FloatTypes \cup {"boolean", "counter"}
          /\ Notation(a.type) = "none"
    THEN <<>>
    ELSE IF a.v < b.v THEN <<-1>> ELSE IF a.v > b.v THEN <<1>> ELSE <<0>>
=============================================================================
