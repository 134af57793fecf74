------------------------------ MODULE Requests -----------------------------
(***************************************************************************)
(* A request over HTTP (httproutes.rs): it is routed to an index           *)
(* (indexes.rs), its filter is converted, and the index answers from the   *)
(* rows it holds (table/mod.rs), while the engine adds, serves and drops   *)
(* indexes.  A request looks its index up under the lock and keeps the     *)
(* entry: the answer comes later, perhaps after the index was dropped.     *)
(*                                                                         *)
(* An index holds the rows of its table as the scan decodes them; how it   *)
(* gets there, and how late, is what Replication and Pipeline are about.   *)
(*                                                                         *)
(* A restriction is [op, tuple, lhs, rhs]: op is "eq", "in", "lt", "lte",  *)
(* "gt" or "gte"; tuple tells (a, b) = (x, y) from a = x; lhs is the       *)
(* sequence of columns and rhs the alternatives, each a value per column.  *)
(***************************************************************************)
EXTENDS Indexes, IndexOptions, Similarity, CqlTypes, InvariantKeys, FiniteSetsExt

CONSTANTS
    Worlds,         \* a table, its primary key, the definitions of its indexes,
                    \* its rows and the requests that come:
                    \* [table, key, definitions, rows, requests, simulator], a
                    \* request is [op, key, routing, filtered, restrictions,
                    \* allow, plain, vector, limit, columns]; simulator: the
                    \* index library is replaced by the simulator
    UseTls          \* a certificate is configured

\* The columns of a restriction, and of the key of a partition, are lists, and
\* the time of a version is a number.
IsSequence(s) == s \in Seq(ToSet(s))
ASSUME WorldsAssumption ==
    \A w \in Worlds :
        /\ \A r \in w.requests :
              /\ IsSequence(r.restrictions)
              /\ \A i \in DOMAIN r.restrictions : IsSequence(r.restrictions[i].lhs)
        /\ \A d \in w.definitions :
              /\ d.definition.target.form \notin {"absent", "plain"} => IsSequence(d.definition.target.pk)
              /\ d.definition.options # <<>> =>
                    \A o \in DOMAIN d.definition.options[1] : d.definition.options[1][o].n \in Int

VARIABLES
    world,          \* one of Worlds
    http            \* the request being served, or its answer
requestVars == <<entries, routing, world, http>>

Idle == [phase |-> "idle"]

\* What NodeState may answer; NodeState has its own module.
NodeStatus == {"Initializing", "ConnectingToDb", "DiscoveringIndexes",
               "IndexingEmbeddings", "Serving"}

\* The statuses the description of the API lists for every route.
AnnResponses == {200, 400, 403, 404, 500, 503}
Bm25Responses == {200, 400, 403, 404, 500, 503}
HighlightResponses == {200, 400, 403, 404, 500, 503}
LikeResponses == {200, 400, 403, 404, 500, 503}
IndexesResponses == {200}
IndexInfoResponses == {200, 404, 500}
IndexStatusResponses == {200, 404, 500}
StatusResponses == {200}

-----------------------------------------------------------------------------
(* The entries of the indexes                                               *)

FilteringColumns(m) ==
    ToSet(m.primary) \cup ToSet(NonPk(m, m.partition)) \cup ToSet(m.filtering)

Describe(d) == DescribeIndex(world.table, d.definition)

\* An index over a text has nothing to filter by.
NewTextEntry(d) ==
    LET m == Describe(d).meta
    IN  [meta |-> [key |-> d.key, kind |-> m.kind, group |-> m.target, version |-> m.version],
         index |-> m, filtering |-> {}, columns |-> << >>,
         status |-> "Initializing", progress |-> "in_progress"]

NewVsEntry(d) ==
    LET m == Describe(d).meta
    IN  [NewTextEntry(d) EXCEPT !.filtering = FilteringColumns(m),
                                !.columns = MergeTableColumns(m, world.table)]

NewEntry(d) == IF Describe(d).meta.kind = "vs" THEN NewVsEntry(d) ELSE NewTextEntry(d)

\* create_index of the factory: the library refuses some metrics.
CreateIndex(m) ==
    m.kind = "vs" => world.simulator \/ MetricKind(m.options.quantization, m.options.spaceType) # <<>>

\* A definition that cannot be read yet fails the whole round.
Buildable(d) ==
    /\ \A other \in world.definitions : Describe(other) # Failed
    /\ Describe(d) # Skipped
    /\ TableNew(Describe(d).meta, world.table) /\ CreateIndex(Describe(d).meta)

-----------------------------------------------------------------------------
(* Routing                                                                  *)

ColumnsOf(restrictions, ops) ==
    FlattenSeq([i \in DOMAIN restrictions |->
        IF restrictions[i].op \in ops THEN restrictions[i].lhs ELSE <<>>])
RestrictionColumns(r) ==
    [equality |-> ColumnsOf(r.restrictions, {"eq", "in"}),
     range |-> ColumnsOf(r.restrictions, {"lt", "lte", "gt", "gte"})]

\* The number of restricted columns that are left to filter by; <<>> when the
\* index cannot serve the query.
ScoreIndex(e, cols) ==
    IF \/ ~(ToSet(cols.equality \o cols.range) \subseteq e.filtering)
       \/ ~(ToSet(e.index.partition) \subseteq ToSet(cols.equality))
    THEN <<>>
    ELSE <<Len(cols.equality) - Len(e.index.partition) + Len(cols.range)>>

\* Bug: the version decides before the filtering that is needed.
BetterNewest(a, s, b, t) ==
    \/ a.meta.version > b.meta.version
    \/ a.meta.version = b.meta.version /\ s <= t

Better(a, s, b, t) == s < t \/ (s = t /\ a.meta.version >= b.meta.version)

\* NotFound, NotServing, NoGlobalIndex or Serving with the key that is used.
BestIndex(key, cols, routed) ==
    IF key \notin DOMAIN entries \/ entries[key].meta.kind # "vs"
    THEN [state |-> "NotFound"]
    ELSE LET candidates == IF routed THEN routing[entries[key].meta.group] ELSE <<key>>
             serving == {k \in ToSet(candidates) : entries[k].status = "Serving"}
             able == {k \in serving : ScoreIndex(entries[k], cols) # <<>>}
             score(k) == ScoreIndex(entries[k], cols)[1]
         IN  IF able # {}
             THEN LET best == CHOOSE k \in able : \A j \in able :
                                 Better(entries[k], score(k), entries[j], score(j))
                  IN  [state |-> "Serving", key |-> best, needsFiltering |-> score(best)]
             ELSE IF serving # {} THEN [state |-> "NoGlobalIndex"]
             ELSE [state |-> "NotServing", progress |-> entries[key].progress]

-----------------------------------------------------------------------------
(* The filter                                                               *)

ConvertValue(e, c, j) ==
    IF c \in e.filtering /\ c \in DOMAIN e.columns THEN FromJson(j, e.columns[c]) ELSE <<>>

ConvertAlternative(e, lhs, alt) ==
    IF Len(alt) # Len(lhs) \/ \E i \in DOMAIN alt : ConvertValue(e, lhs[i], alt[i]) = <<>>
    THEN <<>>
    ELSE <<[i \in DOMAIN alt |-> ConvertValue(e, lhs[i], alt[i])[1]]>>

\* try_from_post_index_ann_filter: one value that is refused refuses them all.
ConvertFilter(e, restrictions) ==
    IF \E i \in DOMAIN restrictions : \E a \in DOMAIN restrictions[i].rhs :
          ConvertAlternative(e, restrictions[i].lhs, restrictions[i].rhs[a]) = <<>>
    THEN <<>>
    ELSE <<[i \in DOMAIN restrictions |->
              [restrictions[i] EXCEPT !.rhs = [a \in DOMAIN @ |->
                  ConvertAlternative(e, restrictions[i].lhs, @[a])[1]]]]>>

-----------------------------------------------------------------------------
(* The rows of an index                                                     *)

RowOf(id) ==
    LET cells == world.rows[id] IN
    [cells |-> cells, key |-> [i \in DOMAIN world.key |-> cells.columns[world.key[i]]]]

Decoded(m, id) ==
    LET row == RowOf(id) IN
    ParseRow(m, world.table, [key |-> row.key, cells |-> SelectRow(m, row.cells), times |-> <<>>])

\* The value of a column: of the primary key, or one that is stored.
ValueFor(m, id, c) ==
    IF c \in ToSet(m.primary)
    THEN KeyGet(Encode(RowOf(id).key), CHOOSE i \in DOMAIN m.primary : m.primary[i] = c)[1]
    ELSE IF c \in ToSet(StoredColumns(m))
    THEN Decoded(m, id)[1][1 + CHOOSE i \in DOMAIN StoredColumns(m) : StoredColumns(m)[i] = c]
    ELSE Null

PartitionKeyOf(m, id) ==
    Encode([i \in DOMAIN m.partition |-> ValueFor(m, id, m.partition[i])])

\* A row without a vector, or without a value of a partition column, is in
\* no partition.
IndexedRows(m) ==
    {id \in DOMAIN world.rows :
        /\ Decoded(m, id) # <<>> /\ Decoded(m, id)[1][1] # Null
        /\ \A c \in ToSet(m.partition) : ValueFor(m, id, c) # Null}

-----------------------------------------------------------------------------
(* The search                                                               *)

IsEq(r) == r.op = "eq" /\ ~r.tuple

\* Every column of the partition key takes the value of its first equality,
\* and all equalities on these columns are left out of the filter.
PartitionKeyFromRestrictions(columns, restrictions) ==
    LET eqs(c) == SelectSeq(restrictions, LAMBDA r : IsEq(r) /\ r.lhs[1] = c)
    IN  IF \E c \in ToSet(columns) : eqs(c) = <<>> THEN <<>>
        ELSE <<[key |-> Encode([i \in DOMAIN columns |-> eqs(columns[i])[1].rhs[1][1]]),
                rest |-> SelectSeq(restrictions, LAMBDA r :
                            ~(IsEq(r) /\ r.lhs[1] \in ToSet(columns)))]>>

\* The rows of the partition that is searched and the restrictions that are
\* left; <<>> when there is no such partition.
Partition(m, restrictions) ==
    LET p == IF m.partition = <<>> THEN <<[key |-> Encode(<<>>), rest |-> restrictions]>>
             ELSE PartitionKeyFromRestrictions(m.partition, restrictions)
        rows == {id \in IndexedRows(m) : p # <<>> /\ PartitionKeyOf(m, id) = p[1].key}
    IN  IF rows = {} THEN <<>> ELSE <<[rows |-> rows, rest |-> p[1].rest]>>

CqlCmpSingle(m, id, c, x) ==
    LET v == ValueFor(m, id, c) IN IF v = Null THEN <<>> ELSE Cmp(v, x)

\* Bug: the last column decides the order of tuples.
CqlCmpTupleLast(m, id, lhs, alt) == CqlCmpSingle(m, id, lhs[Len(lhs)], alt[Len(lhs)])

\* The first pair that is not equal decides; one without an order decides
\* that the row does not match.
CqlCmpTuple(m, id, lhs, alt) ==
    LET cmp(i) == CqlCmpSingle(m, id, lhs[i], alt[i])
        differ == {i \in DOMAIN lhs : cmp(i) # <<0>>}
    IN  IF differ = {} THEN <<0>> ELSE cmp(Min(differ))

IsValidFor(m, id, r) ==
    LET orders == CASE r.op \in {"eq", "in"} -> {<<0>>}
                    [] r.op = "lt" -> {<<-1>>}
                    [] r.op = "lte" -> {<<-1>>, <<0>>}
                    [] r.op = "gt" -> {<<1>>}
                    [] r.op = "gte" -> {<<0>>, <<1>>}
    IN  \E a \in DOMAIN r.rhs : CqlCmpTuple(m, id, r.lhs, r.rhs[a]) \in orders

FilteredRows(m, p) == {id \in p.rows : \A i \in DOMAIN p.rest : IsValidFor(m, id, p.rest[i])}

\* try_collect_primary_keys
CollectPrimaryKeys(ids) ==
    LET json(id, i) == LET v == KeyGet(Encode(RowOf(id).key), i) IN
                       IF v = <<>> THEN <<>> ELSE ToJson(v[1])
        cols == DOMAIN world.key
    IN  IF \E id \in ids, i \in cols : json(id, i) = <<>> THEN <<>>
        ELSE <<[id \in ids |-> [i \in cols |-> json(id, i)[1]]]>>

\* The vector of a row, as the index was given it.
VectorOf(m, id) == [len |-> m.options.dimensions, v |-> Decoded(m, id)[1][1].v]

\* The vector is taken from the index, the other columns from the table.  A
\* value that is missing, or that JSON cannot hold, is answered as null.
ColumnValues(m, ids, columns) ==
    LET value(id, c) == IF c # m.target THEN ValueFor(m, id, c)
                        ELSE IF world.simulator THEN Null
                        ELSE [Decoded(m, id)[1][1] EXCEPT !.v = GetVector(m.options, VectorOf(m, id)).v]
    IN  [id \in ids |-> [c \in columns |->
            IF value(id, c) = Null THEN <<>> ELSE ToJson(value(id, c))]]

-----------------------------------------------------------------------------
(* The engine, between the steps of a request                               *)

AddIndex(d) ==
    /\ ~ContainsKey(d.key) /\ Buildable(d)
    /\ Insert(NewEntry(d))
    /\ UNCHANGED <<world, http>>

\* update_indexes brings the status NodeState has.
Scanning(k) ==
    /\ ContainsKey(k) /\ entries[k].progress = "in_progress" /\ entries[k].status = "Initializing"
    /\ SetStatus(k, "FullScanning")
    /\ UNCHANGED <<world, http>>

\* The scan is done before NodeState hears of it and the index is serving.
ScanDone(k) ==
    /\ ContainsKey(k) /\ entries[k].progress = "in_progress"
    /\ entries' = [entries EXCEPT ![k].progress = "done"]
    /\ UNCHANGED <<routing, world, http>>

Serve(k) ==
    /\ ContainsKey(k) /\ entries[k].progress = "done" /\ entries[k].status # "Serving"
    /\ SetStatus(k, "Serving")
    /\ UNCHANGED <<world, http>>

DropIndex(k) == ContainsKey(k) /\ RemoveKey(k) /\ UNCHANGED <<world, http>>

-----------------------------------------------------------------------------
(* A request                                                                *)

Answer(r, status, why) == [phase |-> "answered", request |-> r, status |-> status, why |-> why]

InsecureTls(r) == UseTls /\ r.plain

\* check_index_serving: while the index is built, the answer waits for
\* NodeState; a finished scan without Serving is an error.
NotReady(r, progress) ==
    IF progress = "in_progress" THEN [phase |-> "waiting", request |-> r]
    ELSE Answer(r, 500, "not serving")

Searching(r, e, restrictions) ==
    [phase |-> "searching", request |-> r, entry |-> e, restrictions |-> restrictions]

Routed(r, best) ==
    LET e == entries[best.key]
        filter == ConvertFilter(e, r.restrictions)
    IN  IF best.needsFiltering > 0 /\ ~r.allow THEN Answer(r, 400, "filtering")
        ELSE IF ~r.filtered THEN Searching(r, e, <<>>)
        ELSE IF filter = <<>> THEN Answer(r, 400, "filter")
        ELSE Searching(r, e, filter[1])

\* post_index_ann, up to the search
PostAnn(r) ==
    LET best == BestIndex(r.key, RestrictionColumns(r), r.routing) IN
    /\ http.phase = "idle" /\ r.op = "ann"
    /\ http' = IF InsecureTls(r) THEN Answer(r, 403, "tls")
               ELSE CASE best.state = "NotFound" -> Answer(r, 404, "missing")
                      [] best.state = "NoGlobalIndex" -> Answer(r, 400, "no global")
                      [] best.state = "NotServing" -> NotReady(r, best.progress)
                      [] best.state = "Serving" -> Routed(r, best)
    /\ UNCHANGED <<entries, routing, world>>

KindOf(op) == IF op = "like" THEN "pattern" ELSE "fts"

\* post_index_bm25, post_index_highlight and post_index_like, up to the search
PostText(r) ==
    /\ http.phase = "idle" /\ r.op \in {"bm25", "highlight", "like"}
    /\ http' = IF InsecureTls(r) THEN Answer(r, 403, "tls")
               ELSE IF ~ContainsKey(r.key) \/ entries[r.key].meta.kind # KindOf(r.op)
               THEN Answer(r, 404, "missing")
               ELSE IF entries[r.key].status # "Serving"
               THEN NotReady(r, entries[r.key].progress)
               ELSE Searching(r, entries[r.key], <<>>)
    /\ UNCHANGED <<entries, routing, world>>

\* index_not_ready_reason: NodeState answers with the status it has by then.
NotReadyReason(node) ==
    /\ http.phase = "waiting"
    /\ http' = Answer(http.request, 503, IF node = "Serving" THEN "building" ELSE "bootstrapping")
    /\ UNCHANGED <<entries, routing, world>>

\* One distance that is refused fails the search.
Found(ids, distances) ==
    LET m == http.entry.index
        keys == CollectPrimaryKeys(ids)
    IN  IF \E id \in ids : distances[id] = <<>> THEN Answer(http.request, 500, "search")
        ELSE IF keys = <<>> THEN Answer(http.request, 500, "primary key")
        ELSE [phase |-> "found", request |-> http.request, index |-> m, ids |-> ids,
              keys |-> keys[1], distances |-> [id \in ids |-> distances[id][1]],
              scores |-> [id \in ids |-> SimilarityScore(distances[id][1])],
              values |-> ColumnValues(m, ids, http.request.columns)]

\* Which of the rows that pass the filter are nearest is left to the library.
LibrarySearch(m, p) ==
    LET rows == FilteredRows(m, p)
    IN  \E ids \in SUBSET rows :
            /\ Cardinality(ids) = Min({http.request.limit, Cardinality(rows)})
            /\ http' = Found(ids, [id \in ids |->
                   SearchDistance(m.options, VectorOf(m, id), http.request.vector)])

\* The simulator takes no notice of the vector or of the filter: it answers
\* with the rows of the lowest ids.
SimulatorSearch(p) ==
    LET first(n) == {id \in p.rows : Cardinality({j \in p.rows : j < id}) < n}
        ids == first(http.request.limit)
    IN  http' = Found(ids, [id \in ids |-> Distance(0, "euclidean", 0)])

\* The index answers, whether or not it was dropped meanwhile: the request
\* keeps it alive.
AnnAnswers ==
    /\ http.phase = "searching" /\ http.request.op = "ann"
    /\ LET m == http.entry.index
           p == IF m.partition # <<>> /\ ~http.request.filtered THEN <<>>
                ELSE Partition(m, http.restrictions)
       IN  \/ p = <<>> /\ http' = Found({}, << >>)
           \/ /\ p # <<>> /\ ~EmbeddingDimensions(http.request.vector, m.options.dimensions)
              /\ http' = Answer(http.request, 400, "dimensions")
           \/ /\ p # <<>> /\ EmbeddingDimensions(http.request.vector, m.options.dimensions)
              /\ IF world.simulator THEN SimulatorSearch(p[1]) ELSE LibrarySearch(m, p[1])
    /\ UNCHANGED <<entries, routing, world>>

\* What a full-text index finds is not modelled here.
TextAnswers(outcome) ==
    http' = CASE outcome = "ok" -> Answer(http.request, 200, "text")
              [] outcome = "query error" -> Answer(http.request, 400, "query")
              [] outcome = "failed" -> Answer(http.request, 500, "search")

Bm25Answers(outcome) ==
    /\ http.phase = "searching" /\ http.request.op = "bm25"
    /\ TextAnswers(outcome)
    /\ UNCHANGED <<entries, routing, world>>

HighlightAnswers(outcome) ==
    /\ http.phase = "searching" /\ http.request.op = "highlight"
    /\ TextAnswers(outcome)
    /\ UNCHANGED <<entries, routing, world>>

\* The pattern index keeps no documents and answers every search with an
\* error that is not a QueryError.
PatternLike == "failed"
LikeAnswers ==
    /\ http.phase = "searching" /\ http.request.op = "like"
    /\ TextAnswers(PatternLike)
    /\ UNCHANGED <<entries, routing, world>>

\* The statuses as the API names them.
HttpIndexStatus(status) == IF status = "FullScanning" THEN "Bootstrapping" ELSE status
HttpNodeStatus(status) ==
    IF status \in {"IndexingEmbeddings", "DiscoveringIndexes"} THEN "Bootstrapping" ELSE status

\* What is said of an index, but for the count.
IndexInfo(e) ==
    [kind |-> e.index.kind, options |-> e.index.options,
     status |-> HttpIndexStatus(e.status), done |-> e.progress = "done"]

\* get_indexes and get_index_info describe the entries they see and count
\* their rows later; the list leaves out the indexes whose count fails.
GetIndexInfo(r) ==
    /\ http.phase = "idle" /\ r.op \in {"info", "index status"}
    /\ http' = IF ContainsKey(r.key)
               THEN [phase |-> "counting", request |-> r,
                     infos |-> [k \in {r.key} |-> IndexInfo(entries[k])]]
               ELSE Answer(r, 404, "missing")
    /\ UNCHANGED <<entries, routing, world>>

GetIndexes(r) ==
    /\ http.phase = "idle" /\ r.op = "list"
    /\ http' = [phase |-> "counting", request |-> r,
                infos |-> [k \in DOMAIN entries |-> IndexInfo(entries[k])]]
    /\ UNCHANGED <<entries, routing, world>>

Counted ==
    /\ http.phase = "counting"
    /\ \E counted \in SUBSET DOMAIN http.infos :
          http' = IF http.request.op # "list" /\ counted = {}
                  THEN Answer(http.request, 500, "count")
                  ELSE [phase |-> "listed", request |-> http.request,
                        infos |-> [k \in counted |-> http.infos[k]]]
    /\ UNCHANGED <<entries, routing, world>>

GetStatus(r, node) ==
    /\ http.phase = "idle" /\ r.op = "status"
    /\ http' = Answer(r, 200, HttpNodeStatus(node))
    /\ UNCHANGED <<entries, routing, world>>

NextRequest ==
    /\ http.phase \in {"answered", "found", "listed"}
    /\ http' = Idle
    /\ UNCHANGED <<entries, routing, world>>

-----------------------------------------------------------------------------
RequestsInit == IndexesInit /\ world \in Worlds /\ http = Idle

EngineNext ==
    \/ \E d \in world.definitions : AddIndex(d)
    \/ \E k \in DOMAIN entries : Scanning(k) \/ ScanDone(k) \/ Serve(k) \/ DropIndex(k)

HttpNext ==
    \/ \E r \in world.requests : PostAnn(r) \/ PostText(r) \/ GetIndexInfo(r) \/ GetIndexes(r)
    \/ \E node \in NodeStatus :
          NotReadyReason(node) \/ \E r \in world.requests : GetStatus(r, node)
    \/ AnnAnswers
    \/ \E outcome \in {"ok", "query error", "failed"} : Bm25Answers(outcome) \/ HighlightAnswers(outcome)
    \/ LikeAnswers
    \/ Counted
    \/ NextRequest

RequestsNext == EngineNext \/ HttpNext
RequestsSpec == RequestsInit /\ [][RequestsNext]_requestVars

-----------------------------------------------------------------------------
(* Properties                                                               *)

\* The number in a cell of the table, whichever way it is stored.
Cell(id, c) ==
    LET cells == world.rows[id] IN
    IF c \in DOMAIN cells.columns THEN cells.columns[c]
    ELSE IF c \in DOMAIN cells.attrs THEN cells.attrs[c] ELSE Null

\* What a restriction means: rows compare like tuples of numbers.
Holds(id, r) ==
    LET equal(alt, n) == \A i \in 1..n : Cell(id, r.lhs[i]) # Null /\ Cell(id, r.lhs[i]).v = alt[i].v
        before(x, y) == IF r.op \in {"lt", "lte"} THEN x < y ELSE x > y
        strictly(alt) == \E i \in DOMAIN alt :
            equal(alt, i - 1) /\ Cell(id, r.lhs[i]) # Null /\ before(Cell(id, r.lhs[i]).v, alt[i].v)
    IN  \E a \in DOMAIN r.rhs :
            \/ r.op \notin {"lt", "gt"} /\ equal(r.rhs[a], Len(r.lhs))
            \/ r.op \notin {"eq", "in"} /\ strictly(r.rhs[a])

Exact(r, m, ids) ==
    LET expected == {id \in IndexedRows(m) : \A i \in DOMAIN r.restrictions : Holds(id, r.restrictions[i])}
    IN  ids \subseteq expected /\ Cardinality(ids) = Min({r.limit, Cardinality(expected)})

\* Every column of the partition key is in one restriction, an equality.
PartitionIsGiven(r, m) ==
    \A c \in ToSet(m.partition) :
        LET on == {i \in DOMAIN r.restrictions : c \in ToSet(r.restrictions[i].lhs)}
        IN  Cardinality(on) = 1 /\ \A i \in on : IsEq(r.restrictions[i])

\* How far a row is from the vector of the request, in the order of the
\* similarity function; binary vectors differ in the signs only.
Gap(m, id, query) ==
    LET x == Cell(id, m.target).v
        function == IF m.options.quantization = "b1" THEN "sign" ELSE m.options.spaceType
        sign(n) == IF n > 0 THEN 1 ELSE 0
    IN  CASE function \in {"sign", "cosine"} -> IF sign(x) = sign(query.v) THEN 0 ELSE 1
          [] function = "euclidean" -> (x - query.v) * (x - query.v)
          [] function = "dot_product" -> -(x * query.v)

\* Scores are fractions with positive denominators.
ScoresRank(m, ids, scores, query) ==
    /\ \A i, j \in ids : (Gap(m, i, query) < Gap(m, j, query)) <=>
                          (scores[i][1] * scores[j][2] > scores[j][1] * scores[i][2])
    /\ m.options.spaceType # "dot_product" \/ m.options.quantization = "b1" =>
          \A i \in ids : scores[i][1] \in 0..scores[i][2]

Responses(op) ==
    CASE op = "ann" -> AnnResponses
      [] op = "bm25" -> Bm25Responses
      [] op = "highlight" -> HighlightResponses
      [] op = "like" -> LikeResponses
      [] op = "list" -> IndexesResponses
      [] op = "info" -> IndexInfoResponses
      [] op = "index status" -> IndexStatusResponses
      [] op = "status" -> StatusResponses

(* A search that is answered returns rows that satisfy every restriction of *)
(* the request, as many as there are up to the limit, with the primary keys *)
(* and the values the table has: through the conversion from JSON, the      *)
(* choice of a partition, the encoded keys and the comparison of tuples     *)
(* (try_from_post_index_ann_filter, partition_key_from_restrictions,        *)
(* is_valid_for, try_collect_primary_keys).  For an index with a partition  *)
(* key this needs its columns given by one equality each.  A row has a      *)
(* higher score than another exactly when it is nearer in the similarity    *)
(* function the index was created with, and scores are between 0 and 1      *)
(* (distance.rs, similarity.rs).  A request that is refused has a status    *)
(* the API documents for its route.                                         *)
AnswersExact ==
    /\ http.phase = "answered" => http.status \in Responses(http.request.op)
    /\ http.phase = "found" =>
        /\ PartitionIsGiven(http.request, http.index) /\ ~world.simulator =>
              Exact(http.request, http.index, http.ids)
        /\ ~world.simulator =>
              ScoresRank(http.index, http.ids, http.scores, http.request.vector)
        /\ \A id \in http.ids : \A i \in DOMAIN world.key :
              http.keys[id][i].v = Cell(id, world.key[i]).v
        /\ \A id \in http.ids : \A c \in http.request.columns :
              http.values[id][c] # <<>> => http.values[id][c][1].v = Cell(id, c).v

\* The index could answer, and could answer without filtering.
Able(k, r) ==
    LET cols == RestrictionColumns(r) IN
    /\ entries[k].meta.kind = "vs" /\ entries[k].status = "Serving"
    /\ ToSet(cols.equality) \cup ToSet(cols.range) \subseteq entries[k].filtering
    /\ ToSet(entries[k].index.partition) \subseteq ToSet(cols.equality)
Covering(k, r) ==
    /\ Able(k, r) /\ RestrictionColumns(r).range = <<>>
    /\ \A c \in ToSet(RestrictionColumns(r).equality) :
          /\ c \in ToSet(entries[k].index.partition)
          /\ Cardinality({i \in DOMAIN RestrictionColumns(r).equality :
                             RestrictionColumns(r).equality[i] = c}) = 1

(* A routed request is refused for the want of a serving or a global index, *)
(* or for filtering, only when no index over the same column could have     *)
(* answered it: best_index looks at the whole group and prefers the index   *)
(* that leaves least to filter.                                             *)
RefusedOnlyIfNoneServes ==
    [][\A r \in world.requests :
        /\ http.phase = "idle" /\ http'.phase # "idle"
        /\ r = http'.request /\ r.op = "ann" /\ r.routing /\ r.key \in DOMAIN entries
        /\ entries[r.key].meta.kind = "vs" /\ ~InsecureTls(r)
        => LET group == {k \in DOMAIN entries :
                            entries[k].meta.group = entries[r.key].meta.group} IN
           /\ (\E k \in group : Able(k, r)) =>
                 \/ http'.phase = "searching"
                 \/ http'.phase = "answered" /\ http'.why \in {"filtering", "filter"}
           /\ (\E k \in group : Covering(k, r)) =>
                 ~(http'.phase = "answered" /\ http'.why = "filtering")]_requestVars
=============================================================================
