---------------------------- MODULE IndexOptions ---------------------------
(***************************************************************************)
(* From the definition of an index to its description (IndexMetadata): the *)
(* version, the dimensions and the options of its kind, as db.rs reads     *)
(* them and get_indexes of monitor_indexes.rs puts them together.          *)
(*                                                                         *)
(* The options of a definition are a function from names to values, in a   *)
(* sequence that is empty while the row is not to be seen.  A value is     *)
(* [word, n]: a word (letters compare without case), "uuid" with the ticks *)
(* of its timestamp (0 for one without), or "number".  The table has       *)
(* dimensions: what the type of a column says, for the columns whose row   *)
(* is to be seen; 0 when the type is not vector<float, n> with n > 0.      *)
(***************************************************************************)
EXTENDS IndexDefs

Word(w) == [word |-> w, n |-> 0]
Number(n) == [word |-> "number", n |-> n]
Version(n) == [word |-> "uuid", n |-> n]

\* IndexVersion::default, and the ticks of a version that has none.
NilVersion == 0

-----------------------------------------------------------------------------
(* Options                                                                  *)

\* A value that is absent or not supported is replaced by the default.
ParseIndexOption(options, name, values, default) ==
    IF name \in DOMAIN options /\ options[name].word \in values
    THEN options[name].word ELSE default

ParseSize(options, name, default) ==
    IF name \in DOMAIN options /\ options[name].word = "number"
    THEN options[name].n ELSE default

SpaceType == {"euclidean", "cosine", "dot_product", "hamming"}
Quantization == {"f32", "f16", "bf16", "i8", "b1"}
Analyzer == {"standard", "english", "german", "french", "spanish", "italian",
             "portuguese", "russian", "simple", "whitespace"}
Positions == {"true", "false"}

Connectivity(options) == ParseSize(options, "maximum_node_connections", 16)
ExpansionAdd(options) == ParseSize(options, "construction_beam_width", 128)
ExpansionSearch(options) == ParseSize(options, "search_beam_width", 64)

GetVsIndexParams(options) ==
    [connectivity |-> Connectivity(options),
     expansionAdd |-> ExpansionAdd(options),
     expansionSearch |-> ExpansionSearch(options),
     spaceType |-> ParseIndexOption(options, "similarity_function", SpaceType, "cosine"),
     quantization |-> ParseIndexOption(options, "quantization", Quantization, "f32")]

GetFtsIndexParams(options) ==
    [analyzer |-> ParseIndexOption(options, "analyzer", Analyzer, "standard"),
     positions |-> ParseIndexOption(options, "positions", Positions, "true")]

GetPatternIndexParams(options) == << >>

\* A row that is not to be seen when the parameters are asked for gives the
\* defaults, which an empty row gives too.
GetIndexOptions(d) == IF d.options = <<>> THEN << >> ELSE d.options[1]

-----------------------------------------------------------------------------
(* Version and dimensions; <<>> is an error, <<0>> for dimensions is None   *)

GetIndexVersion(d) ==
    IF d.options = <<>> THEN <<>>
    ELSE IF "index_version" \in DOMAIN d.options[1] /\ d.options[1]["index_version"].word = "uuid"
    THEN <<d.options[1]["index_version"].n>>
    ELSE <<NilVersion>>

DimensionsFromColumnType(table, column) ==
    IF column \in DOMAIN table.dimensions THEN <<table.dimensions[column]>> ELSE <<>>

DimensionsFromIndexOptions(d) ==
    IF d.options = <<>> THEN <<>> ELSE <<ParseSize(d.options[1], "dimensions", 0)>>

GetIndexTargetDimensions(table, d, column) ==
    IF d.alternator THEN DimensionsFromIndexOptions(d)
    ELSE DimensionsFromColumnType(table, column)

-----------------------------------------------------------------------------
(* The description of an index                                              *)

IndexMetadata(m, version, options) ==
    [kind |-> m.kind, target |-> m.target, partition |-> m.partition,
     filtering |-> m.filtering, primary |-> m.primary, alternator |-> m.alternator,
     declared |-> m.declared, version |-> version, options |-> options]

OptionsVs(dimensions, params) ==
    [dimensions |-> dimensions, connectivity |-> params.connectivity,
     expansionAdd |-> params.expansionAdd, expansionSearch |-> params.expansionSearch,
     spaceType |-> params.spaceType, quantization |-> params.quantization]

Failed == [state |-> "failed"]      \* the round fails and is tried again
Skipped == [state |-> "skipped"]    \* the index is left out
Kind(options) == [state |-> "found", options |-> options]

BuildVsIndexKind(table, d, m) ==
    LET dimensions == GetIndexTargetDimensions(table, d, m.target)
    IN  IF dimensions = <<>> THEN Failed
        ELSE IF dimensions = <<0>> THEN Skipped
        ELSE Kind(OptionsVs(dimensions[1], GetVsIndexParams(GetIndexOptions(d))))

BuildFtsIndexKind(d) == Kind(GetFtsIndexParams(GetIndexOptions(d)))
BuildPatternIndexKind(d) == Kind(GetPatternIndexParams(GetIndexOptions(d)))

\* One turn of the loop in get_indexes.
DescribeIndex(table, d) ==
    LET listed == GetIndex(table, d)
        version == GetIndexVersion(d)
        kind == CASE listed[1].kind = "vs" -> BuildVsIndexKind(table, d, listed[1])
                  [] listed[1].kind = "fts" -> BuildFtsIndexKind(d)
                  [] listed[1].kind = "pattern" -> BuildPatternIndexKind(d)
    IN  IF listed = <<>> THEN Skipped
        ELSE IF version = <<>> THEN Failed
        ELSE IF kind.state # "found" THEN kind
        ELSE [state |-> "found", meta |-> IndexMetadata(listed[1], version[1], kind.options)]
=============================================================================
