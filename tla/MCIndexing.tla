----------------------------- MODULE MCIndexing ----------------------------
(***************************************************************************)
(* What an index does with rows and with queries, one part at a time: the  *)
(* initial scan, the storage of its rows, the full-text and OpenSearch     *)
(* actors, and the requests.  They meet at channels that                   *)
(* Pipeline and Lifecycle model and share no other state, so an instance   *)
(* runs one of them while the others rest in a state in which they have    *)
(* nothing to do.                                                          *)
(***************************************************************************)
EXTENDS FullScan, Requests, Storage, FtsIndex, OpenSearchIndex, TLC

VARIABLE part
indexingVars == <<scanVars, requestVars, storageVars, ftsVars, osVars, part>>

-----------------------------------------------------------------------------
(* Requests                                                                 *)

\* What KeysRight says of the encoding of keys holds of those it ranges over;
\* it depends on no state, and TLC evaluates it once.
ASSUME KeysRight

V(type, v) == [type |-> type, tag |-> None, v |-> v]
Attr(tag, v) == [type |-> "blob", tag |-> tag, v |-> v]
Num(v) == [json |-> "number", notation |-> "none", v |-> v]
Str(notation, v) == [json |-> "string", notation |-> notation, v |-> v]

\* All vectors have two components.
Query(v) == [len |-> 2, v |-> v]
R(op, lhs, rhs) == [op |-> op, tuple |-> FALSE, lhs |-> <<lhs>>, rhs |-> rhs]
T(op, lhs, rhs) == [op |-> op, tuple |-> TRUE, lhs |-> lhs, rhs |-> rhs]
Ann(key, restrictions, allow) ==
    [op |-> "ann", key |-> key, routing |-> TRUE, filtered |-> TRUE,
     restrictions |-> restrictions, allow |-> allow, plain |-> FALSE,
     vector |-> Query(1), limit |-> 2, columns |-> {}]
Other(op, key) == [Ann(key, <<>>, FALSE) EXCEPT !.op = op, !.filtered = FALSE]

Options(version) ==
    [o \in {"index_version", "dimensions", "similarity_function"} |->
        CASE o = "index_version" -> Version(version) [] o = "dimensions" -> Number(2)
          [] o = "similarity_function" -> Word("euclidean")]
Def(key, version, alternator, class, pk, fc) ==
    [key |-> key,
     definition |-> [alternator |-> alternator, class |-> class,
        options |-> <<Options(version)>>,
        declared |-> [c \in {"c"} |-> "N"],
        target |-> [form |-> "new", tc |-> IF class = None THEN "v" ELSE "t",
                    pk |-> pk, fc |-> fc, ck |-> <<>>]]]
Opt(d, option, value) == [d EXCEPT !.definition.options[1] =
    [o \in DOMAIN @ \cup {option} |-> IF o = option THEN value ELSE @[o]]]

-----------------------------------------------------------------------------
\* A CQL table with a text in front of a one-byte integer in its key.
CqlTable == [pk |-> <<"p">>, ck |-> <<"k">>, dimensions |-> [c \in {"v"} |-> 2],
             columns |-> [c \in {"p", "k", "c", "v", "t"} |->
                CASE c \in {"p", "t"} -> "text" [] c = "k" -> "tinyint"
                  [] c = "c" -> "decimal" [] c = "v" -> "vector"]]
CqlRow(p, k, c, v) ==
    [columns |-> [x \in {"p", "k"} |-> IF x = "p" THEN V("text", p) ELSE V("tinyint", k)]
                 @@ (IF c = <<>> THEN << >> ELSE [x \in {"c"} |-> c[1]])
                 @@ (IF v = 0 THEN << >> ELSE [x \in {"v"} |-> V("vector", v)]),
     attrs |-> << >>]
Padded(v) == [type |-> "decimal", tag |-> "padded", v |-> v]
CqlRows == [id \in 1..5 |->
    CASE id = 1 -> CqlRow(1, 1, <<V("decimal", 1)>>, 1)
      [] id = 2 -> CqlRow(1, 2, <<V("decimal", 2)>>, 2)
      [] id = 3 -> CqlRow(2, -128, <<Padded(2)>>, 3)
      [] id = 4 -> CqlRow(2, 3, <<>>, 4)
      [] id = 5 -> CqlRow(2, 4, <<V("decimal", 1)>>, 0)]

P(v) == R("eq", "p", <<<<Str("plain", v)>>>>)
Filters == {
    R("eq", "c", <<<<Num(2)>>>>), R("in", "c", <<<<Num(1)>>, <<Num(2)>>>>),
    R("lt", "c", <<<<Num(2)>>>>), R("gte", "c", <<<<Str("fraction", 2)>>>>),
    R("eq", "k", <<<<Num(128)>>>>), R("gt", "k", <<<<Num(1)>>>>),
    R("eq", "x", <<<<Num(1)>>>>),
    T("eq", <<"k", "c">>, <<<<Num(2), Num(2)>>>>),
    T("in", <<"c", "k">>, <<<<Num(2), Num(2)>>, <<Num(2), Num(-128)>>>>),
    T("lt", <<"k", "c">>, <<<<Num(2), Num(2)>>>>),
    T("lte", <<"c", "k">>, <<<<Num(2), Num(2)>>>>),
    T("gt", <<"c", "k">>, <<<<Num(1), Num(2)>>>>),
    T("gte", <<"k", "c">>, <<<<Num(2), Num(2)>>>>),
    T("eq", <<"k", "c">>, <<<<Num(2)>>>>)}
CqlRequests ==
    {Ann("g", <<>>, FALSE), Ann("l", <<P(1)>>, FALSE), Ann("g", <<P(3)>>, FALSE),
     [Ann("g", <<P(1)>>, TRUE) EXCEPT !.vector = [len |-> 3, v |-> 1]],
     [Ann("l", <<P(1)>>, TRUE) EXCEPT !.plain = TRUE],
     [Ann("l", <<>>, TRUE) EXCEPT !.routing = FALSE],
     [Ann("g", <<>>, TRUE) EXCEPT !.filtered = FALSE, !.columns = {"p", "k", "c", "v", "x"}],
     [Ann("l", <<>>, TRUE) EXCEPT !.filtered = FALSE, !.limit = 1]}
    \cup {Ann("g", <<f>>, TRUE) : f \in Filters}
    \cup {Ann("l", <<P(2), f>>, TRUE) : f \in {f \in Filters : f.tuple}}
    \cup {Ann("g", <<R("lt", "c", <<<<Num(2)>>>>)>>, FALSE)}
MCCql == [simulator |-> FALSE, table |-> CqlTable, key |-> <<"p", "k">>, rows |-> CqlRows, requests |-> CqlRequests,
          definitions |-> {Def("g", 2, FALSE, None, <<>>, <<"c">>),
                           Def("l", 1, FALSE, None, <<"p">>, <<"c">>)}]

-----------------------------------------------------------------------------
\* An Alternator table; a value of a type other than the declared one is in
\* the third row.  One index has the attribute in its partition key.
AltTable == [pk |-> <<"p">>, ck |-> <<>>, dimensions |-> << >>, columns |-> [c \in {"p"} |-> "text"]]
AltRow(p, c, v) == [columns |-> [x \in {"p"} |-> V("text", p)],
                    attrs |-> [x \in {"c", "v"} |-> IF x = "c" THEN c ELSE v]]
AltRows == [id \in 1..4 |->
    CASE id = 1 -> AltRow(1, Attr("N", 1), Attr("vector", 1))
      [] id = 2 -> AltRow(2, Attr("N", 2), Attr("json", 2))
      [] id = 3 -> AltRow(3, Attr("S", 2), Attr("vector", 3))
      [] id = 4 -> AltRow(4, Attr("N", 2), Attr("S", 4))]
C(v) == R("eq", "c", <<<<Num(v)>>>>)
AltRequests ==
    {Ann("g", <<C(1)>>, TRUE), Ann("n", <<C(2)>>, FALSE), Ann("n", <<C(2), R("gt", "p", <<<<Str("plain", 0)>>>>)>>, TRUE),
     [Ann("g", <<>>, TRUE) EXCEPT !.columns = {"c", "v"}, !.limit = 4],
     Ann("g", <<R("gte", "c", <<<<Str("integer", 1)>>>>)>>, TRUE),
     Ann("g", <<R("eq", "c", <<<<Str("plain", 1)>>>>)>>, TRUE)}
MCAlt == [simulator |-> FALSE, table |-> AltTable, key |-> <<"p">>, rows |-> AltRows, requests |-> AltRequests,
          definitions |-> {Def("g", 2, TRUE, None, <<>>, <<"c">>),
                           Def("n", 1, TRUE, None, <<"c">>, <<>>)}]

-----------------------------------------------------------------------------
\* Text indexes, and an entry that cannot be written as JSON in a key.
EmptyKey == [type |-> "text", tag |-> "empty", v |-> 0]
TextRows == [id \in 1..1 |-> [CqlRow(1, 1, <<>>, 1) EXCEPT !.columns["p"] = EmptyKey]]
TextRequests ==
    {Other(op, k) : op \in {"ann", "bm25", "highlight", "like", "info"}, k \in {"f", "t", "g"}}
    \cup {Other("list", "g"), Other("status", "g"), Other("index status", "f"), [Other("bm25", "f") EXCEPT !.plain = TRUE]}
TextDefinitions ==
    {Def("f", 1, FALSE, "fulltext_index", <<>>, <<>>), Def("t", 1, FALSE, "pattern_index", <<>>, <<>>),
     Def("g", 1, FALSE, None, <<>>, <<>>)}
\* Two indexes at a time.
MCText(names) ==
    [simulator |-> FALSE, table |-> CqlTable, key |-> <<"p", "k">>, rows |-> TextRows,
     requests |-> {r \in TextRequests : r.key \in names},
     definitions |-> {d \in TextDefinitions : d.key \in names}]
MCTexts == {MCText({"f", "t"}), MCText({"f", "g"}), MCText({"t", "g"})}

-----------------------------------------------------------------------------
\* One index of every metric over vectors on both sides of zero; "h" asks for
\* a metric it cannot have, and an option that is not supported.
\* "ints" is over a vector of integers: it has no rows.
SpaceRows == [id \in 1..4 |->
    [CqlRow(1, id, <<>>, <<-2, 1, 2, -1>>[id]) EXCEPT
        !.columns = @ @@ [c \in {"z"} |-> V("int vector", 1)]]]
SpaceDefinitions ==
    {Opt(Opt(Def(k, 1, FALSE, None, <<>>, <<>>), "similarity_function", Word(k)),
         "quantization", Word("unknown")) : k \in {"cosine", "dot_product", "hamming", "other"}}
    \cup {Opt(Def("binary", 1, FALSE, None, <<>>, <<>>), "quantization", Word("b1")),
          [Def("old", 1, FALSE, None, <<>>, <<>>) EXCEPT !.definition.target.tc = "w"],
          [Def("ints", 1, FALSE, None, <<>>, <<>>) EXCEPT !.definition.target.tc = "z"]}
MCSpace(simulator, d) ==
    [simulator |-> simulator,
     table |-> [CqlTable EXCEPT !.dimensions = [c \in {"v", "w", "z"} |-> IF c = "w" THEN 0 ELSE 2],
                                !.columns = [c \in DOMAIN @ \cup {"w", "z"} |->
                                                CASE c = "w" -> "vector" [] c = "z" -> "int vector"
                                                  [] OTHER -> @[c]]],
     key |-> <<"p", "k">>, rows |-> SpaceRows,
     requests |-> {[Ann(d.key, <<>>, FALSE) EXCEPT !.routing = FALSE, !.limit = 3, !.vector = Query(v),
                                                   !.columns = IF d.key = "cosine" THEN {"v"} ELSE {}] :
                      v \in {-2, 1}},
     definitions |-> {d}]
\* The row of the type of a column is not to be seen yet.
MCUnseen == [MCText({"f", "g"}) EXCEPT !.table.dimensions = << >>]

MCWorlds == {MCCql, MCAlt, MCUnseen} \cup MCTexts
              \cup {MCSpace(b, d) : b \in BOOLEAN, d \in SpaceDefinitions}

-----------------------------------------------------------------------------
(* Rows                                                                     *)

\* The rows of an Alternator table and the rings of tokens they are scanned on.
ScanCell(tag) == [type |-> IF tag = None THEN "int" ELSE "blob", tag |-> tag, v |-> 0]
MCScanTable == [pk |-> <<"p">>, ck |-> <<>>, columns |-> [c \in {"p"} |-> "int"]]
MCMeta == GetIndex(MCScanTable,
    [alternator |-> TRUE, class |-> None, declared |-> [c \in {"f"} |-> "S"],
     target |-> [form |-> "new", tc |-> "v", pk |-> <<>>, fc |-> <<"f">>, ck |-> <<>>]])[1]
ScanRow(t, v) == [token |-> t, key |-> <<ScanCell(None)>>, cells |-> <<ScanCell(v), ScanCell("S")>>,
              times |-> <<"bigint", "null">>]
\* The attribute of the row in the middle is a number.
MCRows == {ScanRow(-3, "vector"), ScanRow(0, "N"), ScanRow(3, "vector")}
MCRings == {<<>>} \cup {<<a>> : a \in -3..3} \cup
           {s \in (-3..3) \X (-3..3) : s[1] <= s[2]}

\* Rows of a full-text table: adds and removals sent one change at a time.
Doc(op, id) == [op |-> op, id |-> id]
MCFtsScripts ==
  {[rows |-> << <<Doc("add", 1)>>, <<Doc("remove", 1)>> >>, events |-> 1],
   [rows |-> << <<Doc("add", 1)>>, <<Doc("add", 2)>> >>, events |-> 2]}
Term(t) == [kind |-> "term", term |-> t, clauses |-> {}]
Bool(clauses) == [kind |-> "bool", term |-> "none", clauses |-> clauses]
MCFtsQueries ==
  LET butB == <<Term("a"), Term("b"), Bool({<<"must", 1>>, <<"must_not", 2>>})>>
  IN {butB, butB \o <<Term("c"), Bool({<<"should", 3>>, <<"should", 4>>})>>,
      <<[Term("a") EXCEPT !.kind = "boost"], Bool({<<"should", 1>>})>>}

MCOsScripts ==
  {<<Doc("add", 1), Doc("remove", 1), Doc("remove partition", 0), Doc("remove partition", 1),
     Doc("add", 2), Doc("ann", 0)>>,
   <<Doc("ann target", 1), Doc("filtered ann", 0), Doc("add", 1), Doc("count", 0)>>}

\* Two columns with values, one of the primary key, whose writes are refused.
MCColumnTypes == [n |-> "int", k |-> "key", t |-> "text"]
MCValueTypes == [one |-> "int", a |-> "text"]
MCFiltering == {<<"n", "t">>, <<"t", "k">>}

-----------------------------------------------------------------------------
ScanRests ==
  /\ ring = <<>> /\ nextRange = 2 /\ ranges = <<[state |-> "done", rows |-> {}, guards |-> {}]>>
  /\ indexed = Rows /\ lost = {} /\ completed = Modulus - 1
  /\ scan = "finished" /\ session = TRUE /\ errors = MaxErrors
RequestsRest == IndexesInit /\ world = MCUnseen /\ http = Idle
StorageRests == bytes = <<>> /\ columns = <<>> /\ keys = <<>> /\ writes = MaxWrites
FtsRests ==
  /\ rows = <<>> /\ events = 0 /\ live = {} /\ known = TRUE
  /\ ftsInbox = <<>> /\ ftsUp = TRUE /\ created = FALSE /\ tasks = {}
  /\ NewIndexState /\ ftsLost = {}
OsRests ==
  /\ osMessages = <<>> /\ osPhase = "serving" /\ osPermits = Permits /\ osTasks = {}
  /\ remote = {} /\ osReplies = {} /\ osLost = {} /\ osFaults = 0

Part(p, init, rests) == IF part = p THEN init ELSE rests
IndexingInit ==
  /\ part \in {"scan", "requests", "storage", "fts", "opensearch"}
  /\ Part("scan", ScanInit, ScanRests) /\ Part("requests", RequestsInit, RequestsRest)
  /\ Part("storage", StorageInit, StorageRests)
  /\ Part("fts", FtsInit, FtsRests)
  /\ Part("opensearch", OsInit, OsRests)

IndexingNext ==
  /\ UNCHANGED part
  /\ \/ part = "scan" /\ ScanNext /\ UNCHANGED <<requestVars, storageVars, ftsVars, osVars>>
     \/ part = "requests" /\ RequestsNext /\ UNCHANGED <<scanVars, storageVars, ftsVars, osVars>>
     \/ part = "storage" /\ StorageNext /\ UNCHANGED <<scanVars, requestVars, ftsVars, osVars>>
     \/ part = "fts" /\ FtsNext /\ UNCHANGED <<scanVars, requestVars, storageVars, osVars>>
     \/ part = "opensearch" /\ OsNext /\ UNCHANGED <<scanVars, requestVars, storageVars, ftsVars>>

IndexingSpec ==
  /\ IndexingInit /\ [][IndexingNext]_indexingVars
  /\ ScanFairness /\ FtsFairness /\ OsFairness
=============================================================================
