----------------------------- MODULE IndexDefs -----------------------------
(***************************************************************************)
(* From a row of system_schema.indexes to the values a node stores: how    *)
(* get_indexes reads the definition of an index (db.rs), which columns the *)
(* scan selects (db_driver/scylla.rs), which types they are stored as and  *)
(* how a row is decoded (db_index.rs, alternator.rs).                      *)
(*                                                                         *)
(* A table is a record [pk, ck, columns]: two sequences of names and a     *)
(* function from names to types.  A definition is [alternator, class,      *)
(* target, declared]; its target is [form, tc, pk, fc, ck], where form is  *)
(* "absent", "plain" (a column name), "new" or "legacy" (JSON).  A cell is *)
(* [type, tag, v]: the CQL type the driver decodes, for a blob of          *)
(* Alternator's attribute map the type tag in front of the payload, and    *)
(* the value, a number.                                                    *)
(***************************************************************************)
EXTENDS Naturals, Sequences, SequencesExt

\* What may fail returns a sequence: <<x>>, or <<>> for an error or a refusal.
Skip == "skip"      \* the index is left out of the list
None == "none"      \* Option::None
Null == [type |-> "null", tag |-> None, v |-> 0]
Bad == [type |-> "bad", tag |-> None, v |-> 0]      \* a value that is refused

-----------------------------------------------------------------------------
(* The definition                                                           *)

DbIndexKindFromOptions(class) ==
    CASE class \in {"vector_index", None} -> "vs"
      [] class = "fulltext_index" -> "fts"
      [] class = "pattern_index" -> "pattern"
      [] OTHER -> Skip

\* Declared types other than S, N and B are ignored.
ParseAlternatorAttributeTypes(declared) ==
    [c \in {n \in DOMAIN declared : declared[n] \in {"S", "N", "B"}} |->
        CASE declared[c] = "S" -> "text"
          [] declared[c] = "N" -> "decimal"
          [] declared[c] = "B" -> "blob"]

\* A legacy option is of a local index when all its pk columns are of the
\* partition key of the table.
ConvertLegacyTargetOption(table, t) ==
    IF ToSet(t.pk) \subseteq ToSet(table.pk)
    THEN IF t.ck = <<>> THEN <<>>
         ELSE <<[tc |-> Head(t.ck), pk |-> t.pk, fc |-> Tail(t.ck)]>>
    ELSE IF Len(t.pk) # 1 THEN <<>>
    ELSE <<[tc |-> t.pk[1], pk |-> <<>>, fc |-> t.ck]>>

ParseTargetOption(table, t) ==
    IF t.form = "new" THEN <<[tc |-> t.tc, pk |-> t.pk, fc |-> t.fc]>>
    ELSE ConvertLegacyTargetOption(table, t)

\* "vector" is vector<float, n>; what other elements are is not looked at.
VectorTypes == {"vector", "int vector"}

ValidateColumnTypeForKind(type, kind) ==
    IF kind = "vs" THEN type \in VectorTypes ELSE type \in {"text", "ascii"}

ValidateTargetColumn(table, column, kind) ==
    column \in DOMAIN table.columns /\ ValidateColumnTypeForKind(table.columns[column], kind)

\* A plain target is taken without a look at the table; the columns of the
\* other forms are looked up, except those of an Alternator table.
FromTargetOption(table, t, kind, alternator) ==
    LET o == ParseTargetOption(table, t)
        columnsValid == \/ alternator
                        \/ /\ ValidateTargetColumn(table, o[1].tc, kind)
                           /\ ToSet(o[1].pk) \subseteq DOMAIN table.columns
    IN  IF t.form = "plain" THEN <<[tc |-> t.tc, pk |-> <<>>, fc |-> <<>>]>>
        ELSE IF o # <<>> /\ columnsValid THEN o ELSE <<>>

\* cql_types::is_supported: collections, tuples and vectors are not.
IsSupported(type) == type \notin {"list"} \cup VectorTypes
ValidatePrimaryKeyColumns(table) ==
    \A c \in ToSet(table.pk \o table.ck) :
        c \in DOMAIN table.columns /\ IsSupported(table.columns[c])

\* One row of the list of indexes.
GetIndex(table, d) ==
    LET kind == DbIndexKindFromOptions(d.class)
        o == FromTargetOption(table, d.target, kind, d.alternator)
    IN  IF d.target.form = "absent" \/ kind = Skip
            \/ ~ValidatePrimaryKeyColumns(table) \/ o = <<>>
        THEN <<>>
        ELSE <<[kind |-> kind, target |-> o[1].tc, partition |-> o[1].pk,
                filtering |-> o[1].fc, primary |-> table.pk \o table.ck,
                alternator |-> d.alternator,
                declared |-> IF d.alternator
                             THEN ParseAlternatorAttributeTypes(d.declared) ELSE << >>]>>

-----------------------------------------------------------------------------
(* The columns that are selected and stored                                 *)

NonPk(m, cs) == SelectSeq(cs, LAMBDA c : c \notin ToSet(m.primary))
StoredColumns(m) == NonPk(m, m.partition) \o NonPk(m, m.filtering)

AlternatorNativeType(m, c) == IF c \in DOMAIN m.declared THEN m.declared[c] ELSE None

\* Columns of collection and vector types are not natively typed.
RealColumns(table) ==
    {c \in DOMAIN table.columns : table.columns[c] \notin {"list"} \cup VectorTypes}

MergeTableColumns(m, table) ==
    LET extra == {c \in ToSet(NonPk(m, m.filtering)) : m.alternator}
    IN  [c \in RealColumns(table) \cup DOMAIN m.declared \cup extra |->
            IF c \in RealColumns(table) THEN table.columns[c]
            ELSE IF c \in DOMAIN m.declared THEN m.declared[c] ELSE "blob"]

\* Table::new stores a slot for every selected column, and refuses one it
\* has no type for.
TableNew(m, table) == ToSet(StoredColumns(m)) \subseteq DOMAIN MergeTableColumns(m, table)

AlternatorDecodeTypes(m, table) ==
    [i \in DOMAIN StoredColumns(m) |->
        IF StoredColumns(m)[i] \in RealColumns(table) THEN None
        ELSE AlternatorNativeType(m, StoredColumns(m)[i])]

\* range_scan_query and request_query: the values after the primary key.
SelectedColumns(m) == <<m.target>> \o NonPk(m, m.partition) \o NonPk(m, m.filtering)

\* column_accessors: a statement reads a column of an Alternator table from
\* the attribute map.  The cells of a row are [columns, attrs].
ReadColumn(m, cells, c) ==
    LET from == IF m.alternator THEN cells.attrs ELSE cells.columns
    IN  IF c \in DOMAIN from THEN from[c] ELSE Null

SelectRow(m, cells) ==
    [i \in DOMAIN SelectedColumns(m) |-> ReadColumn(m, cells, SelectedColumns(m)[i])]

-----------------------------------------------------------------------------
(* Decoding a row                                                           *)

\* What the driver makes of a value: only a vector of floats is a Vector, one
\* of other elements is a CqlValue like every other value.
DbValue(cell) ==
    IF cell = Null THEN None ELSE IF cell.type = "vector" THEN "Vector" ELSE "Value"
DbRow(cells) == [i \in DOMAIN cells |-> DbValue(cells[i])]

AlternatorTag(type) ==
    CASE type \in {"text", "ascii"} -> "S"
      [] type = "blob" -> "B"
      [] type = "decimal" -> "N"
      [] OTHER -> None

ParseAlternatorScalar(cell, type) ==
    IF AlternatorTag(type) = None \/ cell.tag # AlternatorTag(type) THEN Bad
    ELSE [cell EXCEPT !.type = type, !.tag = None]

\* Vector::try_from of a CqlValue: a blob of the attribute map that is tagged
\* as a vector or as JSON; a vector that is no Vector has no floats.
VectorFrom(cell) ==
    IF cell.type = "blob" /\ cell.tag \in {"vector", "json"}
    THEN [cell EXCEPT !.type = "vector", !.tag = None] ELSE Bad

ParseIndexedValue(cell, kind) ==
    IF kind = "vs" THEN IF DbValue(cell) = "Vector" THEN cell ELSE VectorFrom(cell)
    ELSE IF cell.type \in {"text", "ascii"} THEN [cell EXCEPT !.type = "text"]
    ELSE Bad

ParseFilteringValue(cell, decode) ==
    IF DbValue(cell) = "Vector" THEN Bad
    ELSE IF cell.type = "blob" /\ decode # None THEN ParseAlternatorScalar(cell, decode)
    ELSE cell

\* The value at a position after the primary key: the target comes first,
\* decode types are aligned with the columns that follow it.
ParseValue(m, table, i, cell) ==
    IF DbValue(cell) = None THEN Null
    ELSE IF i = 1 THEN ParseIndexedValue(cell, m.kind)
    ELSE ParseFilteringValue(cell, AlternatorDecodeTypes(m, table)[i - 1])

\* A row is dropped when a value or a timestamp cannot be decoded, or a
\* column of the primary key is missing or of a vector type.
ParseRow(m, table, row) ==
    IF Len(row.cells) # Len(SelectedColumns(m)) \/ Len(row.key) # Len(m.primary)
       \/ (\E i \in DOMAIN row.cells : ParseValue(m, table, i, row.cells[i]) = Bad)
       \/ (\E i \in DOMAIN row.times : row.times[i] = "bad")
       \/ (\E i \in DOMAIN row.key : DbRow(row.key)[i] # "Value")
    THEN <<>>
    ELSE <<[i \in DOMAIN row.cells |-> ParseValue(m, table, i, row.cells[i])]>>
=============================================================================
