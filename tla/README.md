# TLA+ models of the vector store

The vector store keeps in-memory indexes over ScyllaDB tables. It follows each
base table through its CDC log and a full scan, keeps a small table per index
(which primary key has which row id, how new is it, in which partition), feeds
the index with adds and removals, and answers nearest-neighbour and full-text
searches over HTTP. This directory models the path of a row from the database to
an answered search, the life cycle of indexes, readers, sessions and servers
around it, and the index kinds. TLC checks the models on small instances; TLAPS
proves the central safety properties for every value of the constants.

Paths below are relative to `crates/vector-store/src/`.

## Inventory

| Component | State | Operations | Talks to |
|---|---|---|---|
| `table/` | primary key <-> row id, free row ids, columns, epoch + timestamp + tombstone per row; per local index: partition key <-> partition id, rows' partitions, sizes, free partition ids | `upsert`, `delete` (write lock, one caller), lookups by searches (read lock) | called by monitor_items and by the index workers |
| `monitor_items.rs` | none of its own | takes a row, applies it to the table, sends the operations | row channel in, index channel out |
| `vs_index/usearch.rs` | partitions (library objects with size and capacity), mode + counter + notify of the permits, total size | add, remove, remove partition, search, filtered search, count | index channels in, worker channel out, reads the table |
| `worker.rs` | shared bounded channel, workers, one dedicated thread | run a task | index actors |
| `db_cdc/consumer.rs` | last event seen (deduplication), fetch permits | upsert event: spawn a fetch; delete event: send | CDC log in, row channel out |
| `db_index.rs` | full scan progress, sessions | full scan by token ranges, fetch of vectors | database in, row channel and node_state out |
| `db_cdc/actor.rs` | reader, handler task, start time, back-off, two notifications | create, stop, restart on error or session change, end with the index | db_index |
| `node_state.rs`, `monitor_indexes.rs`, `engine.rs`, `indexes.rs` | node status, known indexes, actors per index | schema polling, add / drop / look up an index | each other, db, HTTP |
| `db.rs`, `db_driver/` | database session | connect, reconnect, queries | everything that reads |
| `memory.rs` | may more be allocated? | poll, publish | index actors |
| `fts_index/`, `pattern_index/`, `vs_index/opensearch.rs`, `vs_index/diskann/` | other index kinds | the same modifications and searches | monitor_items, HTTP |
| `httpserver.rs`, `httproutes.rs`, `config_manager.rs`, `tls.rs`, `file_monitor.rs` | listeners, configuration, certificates | serve, reload | engine, node_state |
| `main.rs`, `lib.rs` | what has been started | load, choose the engine, start actors and servers, wait for a signal | everything |
| `metrics.rs`, `db_cdc/checkpoint_saver.rs`, `internals.rs` | series per index, dirty marks, stream positions, test counters | count, mark, scrape, drop | monitor_items, CDC readers, HTTP |

What is hard:

- **The table runs ahead of the index, and searches run between any two steps.**
  A search reads a partition and translates what it found through a table that
  has moved on: the row was updated, deleted, moved, or the partition id belongs
  to another key by now. Only the epoch in the row id tells.
- **Rows arrive in any order.** Two CDC readers read the same log, every upsert
  event fetches the row *as it is by then*, concurrently, and a full scan brings
  rows it read at some other time. Timestamps have to sort this out, tombstones
  included.
- **Ids are reused.** Row ids are numbered from the count of known keys;
  partition ids go back to a queue when the last row leaves.
- **Concurrency inside the index actor.** Adds may run together, searches may
  run together, removals and reservations run alone; the size that decides on
  a reservation lags behind the adds in flight; waiting is by a notification.
- **Losses.** A fetch may fail, the index may refuse an add for lack of memory,
  the library may fail. Nothing is retried.
- **Restarts.** A CDC reader does not continue where its predecessor stopped but
  at the time it was stopped, less ten minutes; permits stored in a `Notify` may
  be those of an earlier life; sessions change under everything.
- **Names are reused.** An index is dropped and created again, in another version
  or of another kind, while tasks and events of the old one are still about.
- **Several threads in one index.** Full-text commits, reloads and the guards of
  the initial scan meet on different threads; DiskANN tasks interleave at their
  reads from the database; OpenSearch requests overtake each other.
- **Files and configuration change while they are read.**
- **A list of indexes is read with a dozen queries**, from nodes that apply schema
  changes at their own pace and from the driver's own view of the tables.

`PROJECT.json` lists every hazard at its line with the property that covers it.

## Modules

| Module | Models | Uses |
|---|---|---|
| `Table` | `table/`: `upsert`, `delete`, `update_index` | |
| `TableProofs` | proofs about `Table` | `Table` |
| `Pipeline` | monitor_items, the index channel, the index seen through its effects, a search in flight | `Table` |
| `PipelineProofs` | proofs about `Pipeline` and `Replication` | `Pipeline`, `MCReplicas`, `TableProofs` |
| `CdcReaderProofs` | proofs about `CdcReader`, the refinement of `LogFeed` included | `CdcReader` |
| `VectorIndexProofs` | proofs about `Usearch`, `DiskannIndex` and `DiskannGraph` | `MCVectorIndexes`, `InductionLemmas` |
| `FollowingProofs` | proofs about `Lifecycle` and `Discovery` | `MCFollowing`, `InductionLemmas` |
| `NodeProofs` | proofs about `DbSession`, `ServerConfig`, `Startup`, `Metrics`, `CheckpointSaver` and `Internals` | `MCNode`, `InductionLemmas` |
| `IndexingProofs` | proofs about `FullScan`, the routing of `Requests`, `FtsIndex` and `Storage`, the refinement of `RowStore` included | `FullScan`, `Requests`, `FtsIndex`, `Storage`, `InductionLemmas` |
| `InductionLemmas` | the least and the greatest element of a set of numbers, and the inductions over numbers and finite sets that follow | |
| `Replication` | the database (external), the CDC consumers, the full scan, the row channel, monitor_items | `Table` |
| `Usearch` | the index actor with permits, reservations, worker channel and workers | |
| `RowStore` | abstract: rows with a key, an epoch, timestamps and column values | |
| `Storage` | the bytes and vectors behind a table: `table/column.rs`, `column_vec.rs`, `column_vec_chunks.rs`, `chunk_timestamps.rs`, `vec_chunks.rs`, `primary_id.rs` | refines `RowStore` |
| `Simulator` | the stand-in for the usearch library and the task that follows its configuration | |
| `LogFeed` | abstract: what an index is promised of the change log | |
| `CdcReader` | `db_cdc/actor.rs`: the life of a reader | refines `LogFeed` |
| `NodeState` | `node_state.rs`: one action per event | |
| `Indexes` | the maps of `indexes.rs` | |
| `Lifecycle` | sessions, `monitor_indexes.rs`, `engine.rs`, the task of `db_index.rs` and the channels between them | `NodeState`, `Indexes` |
| `Discovery` | a round of `get_indexes` over nodes that apply the schema one after the other (`monitor_indexes.rs`, `db.rs`, `db_driver/scylla.rs`) | |
| `FullScan` | token ranges, retries, guards and progress of `db_index.rs` | `IndexDefs` |
| `IndexDefs` | index definitions, selected columns, types, decoding of rows (`db.rs`, `db_driver/scylla.rs`, `db_value.rs`, `db_index.rs`, `alternator.rs`) | |
| `IndexOptions` | from the options of a definition to the description of an index (`db.rs`, `monitor_indexes.rs`) | `IndexDefs` |
| `Similarity` | metrics, distances and scores (`distance.rs`, `similarity.rs`, `vs_index/usearch.rs`) | |
| `CqlTypes` | `cql_types.rs`: JSON to CQL and back, the order of values | |
| `InvariantKeys` | `invariant_key.rs`, `primary_key.rs`: encoded and normalised keys | |
| `Requests` | `httproutes.rs`, routing of `indexes.rs`, filters of `table/mod.rs`, while the engine changes the indexes | `CqlTypes`, `InvariantKeys`, `IndexOptions`, `Similarity` |
| `FtsIndex` | `fts_index/tantivy.rs`: the actor and its threads, the analyzers and the queries they allow | |
| `DiskannIndex` | `vs_index/diskann/`: the actor and the life of a node | |
| `DiskannGraph` | `vs_index/diskann/scylla.rs`: the edges of one partition and the searches over them | |
| `OpenSearchIndex` | `vs_index/opensearch.rs` | |
| `ServerConfig` | `config_manager.rs`, `file_monitor.rs`, `tls.rs`, `httpserver.rs` | |
| `Startup` | `main.rs` and `run` of `lib.rs` | |
| `DbSession` | the actor of `db.rs` | |
| `Memory` | `memory.rs` | |
| `Metrics` | `metrics.rs` and `GET /metrics`, for one index | `CheckpointSaver`, `Internals` |
| `CheckpointSaver` | `db_cdc/checkpoint_saver.rs` | |
| `Internals` | `internals.rs` and its routes | |
| `MC...` | instances for TLC | |

**Table.** `upsert` and `delete` run under the write lock and have one caller, so
each is one action, with everything it calls: reserving ids, taking one,
updating the columns, choosing the work and doing it. The variables carry the
names of the fields; `operations` is what a call returned and the caller has
not sent yet; `indexed` is a history variable, the vector that was last handed
to the index for a row. `Layout` selects a global index, one partitioned by primary key
columns, or one partitioned by a regular column. `ColumnVec`s grow with
defaults in the code; here they are functions on every id that can be reserved
with the given number of keys. A vector, a key, a partition key is an atom (a
primary key stands for its normalised form, a vector also for a full-text
document). One target column is modelled; the code allows several.
The epoch is counted without bound and compared modulo `EpochCount` (2^16 in
the code), so that properties can speak of ids that were lapped.

**Pipeline.** The caller sends the operations one by one over a bounded channel
(`SendOperation` waits for room). The index takes them in order; with `Lossy` it
may refuse an add or fail a removal. A search fixes the partition object when it
is received (the object lives on when the partition is dropped) and translates
the ids at any later time: `Answer` is what it would return *now*, so an
invariant about `Answer` covers every moment at which it may finish. There is
one search at a time; searches do not affect each other or anything else.

**Replication.** The database is external: rows with a marker and dated cells,
write times that grow, one log entry per write (two with postimages). The
readers deduplicate, take a permit for each fetch, and send; a null read by a
fetch is dated with the event, a null read by the full scan with
`Timestamp::MIN`; a row that is gone is sent as a delete. `FetchFails` is the
error that is only logged. The order of entries within a reader is kept; the
code has a consumer per group of streams, which keeps it per key. Two history
variables say what the last write of a key may be lost to: `failures`, the fetches
that failed, by reader, key and time, and `refused`, the deletes that the table
dropped because it had no row id for an unknown key. `Accounted` (and `AllAccounted` for the
instances of the run) excepts a key only if its *last* write was refused, or failed
in *every* reader; `Converged` has no exceptions and is what the runs of findings 1 and 2 violate.

**Usearch.** The permit protocol of `mod operation` step by step: load the
counter, register as waiting, be notified (a notification that comes before the
wait is stored); the permit of a task is dropped by the worker, which
notifies in a step of its own if it brought the counter to zero. A reservation
is checked once before the permit and again under it. `live` and `expected` are
history variables: what the table's promises allow a client to send, and what
a partition contains if every modification received has taken effect. `Pipeline`
takes the index for a queue whose messages take effect in order and a search
for a look at the moment it is received; `EffectsInOrder` and
`SearchReadsSnapshot` are the reasons it may. The library's effect, the size
counters and the drop of the permit are one step: the actor reads the size only
to decide on a reservation, which it decides again when nothing else runs.
`Simulator` is what takes the library's place in tests: operations hold the
partition's lock for as long as the configuration says, and a task per partition
follows the configuration.

**Storage and RowStore.** `Table` takes rows as records; the code keeps an epoch and
timestamps as bytes in chunks of one vector, values in a vector per column and
packs an id into one number. `Storage` has the arithmetic of offsets and digits
(a byte is a digit below `BYTE`), and `ImplementsRowStore` maps what is read back
from it to `RowStore`. The sizes of a byte, an epoch, a timestamp and an id are constants,
small ones in the run and any in the proof.

**CdcReader and LogFeed.** The actor's select loop, the handler's task and the
log reader's polls of the streams are separate processes that meet in two stored
notifications (`shutdown`, `failed`), a session watch and the task's end. Every
stream has an entry at every tick of the clock, so a skipped interval is a lost
entry. `NoGap`, that nothing is skipped, fails (finding 3). What does hold is told
with a history variable: `lost` has the entries that a reader, when it ended, had not
delivered and that were more than `Offset` old then, and `OnlyLateLost` says that no
others are ever skipped. `LogFeed` is the promise: entries of a stream come in order,
repetitions change nothing, and an interruption may leave out what is older than the
offset. `ImplementsFeed` maps `upto` to the highest entry delivered.

**NodeState, Indexes, Lifecycle, Discovery.** Each actor is a program counter and its
channels; every await between two actors is a step. monitor_indexes reads the
schema version, then the list, then acts on a list that may be old; the engine
holds an addition while it asks the db actor and waits for the task of the
index; the task outlives the index until it notices, and may still finish its scan.
`tasks` is indexed by creation, so that properties can tell an index from its
namesake. That an index serves only after its own scan, `ServedIndexScanned`, fails
(finding 4). What does hold is told with a history variable: `early` has the tasks
that had begun to scan when the task of a dropped index of the same name finished, and
`ServedAfterScan` says that an index serves after its own scan or when it is one of
them, so that nothing that ended before its scan began counts for it.
There a list of indexes is read in one step; `Discovery` is that step at length:
every query goes to some node, which has applied a prefix of the schema's versions,
and the round ends with the question whether all nodes agree on the version it
began with.

**FullScan, IndexDefs, IndexOptions, CqlTypes, InvariantKeys, Similarity, Requests.**
The scan cuts the ring into ranges in the arithmetic of the code, with `TOKEN_MAX`
for `i64::MAX`. The others are the conversions a value goes through: from the
schema's rows to the definition and the description of an index, from a cell to a
stored value (with Alternator's type tags), from JSON to a CQL value, from values to
the bytes of a key, from a distance to a score. `Requests` puts them together: a
request is routed, its filter converted, its partition chosen, rows tested,
scored and answered, each at the point where the code does it, with the error it
answers when a step fails. A routed request takes the options of the index it
was routed to. What the encoding of keys promises (`KeysRight`) depends on no state;
TLC evaluates it once, as an assumption of `MCIndexing`.

**FtsIndex, DiskannIndex, DiskannGraph, OpenSearchIndex.** The actors
with the threads and tasks they start. Of the libraries only the interface is kept:
for tantivy the order of operations under the writer's lock, commits and reloads,
and what each filter of an analyzer does to a word; for DiskANN the calls an
insertion, a deletion and a search make to the provider, in their order, with any
choice of edges over the vectors the provider could return; for OpenSearch a set of
documents. The search list of `DiskannGraph` is as long as the instance has vectors,
so that only the edges decide what is found.

**ServerConfig, Startup, DbSession, Memory.** A file read is a step, and a write may
come between any two. An environment is what the variables say, and `LoadConfig` what
the code makes of it. The servers follow a watch channel: what is published while a
server starts is seen afterwards. `Startup` is the main task alone: every step that
reads the configuration reads what is published by then. The db actor does nothing
else while it connects, prepares its statements and stores the session, each of which
may fail; its tasks use whatever session there is when they run.

**Metrics, CheckpointSaver, Internals.** One index, whose rows are sent, counted and
marked in three steps, while requests for `GET /metrics`, several at a time, collect
marks, remove them, look for the index, count (which may fail, and OpenSearch then
answers 0) and set. `refreshed`, `newest` and `overtaken` are history: whether a count
since the last mark went well, the latest count that was set, and whether the request
that wrote last had been overtaken by another or asked an index that is gone. The count of a
pattern index is always 0 in the code and is left out. Then the streams of one reader; the counters of the tests, whose messages
run in tasks of their own.

## Properties

| Property | In words |
|---|---|
| `RowIdsUnique` | two keys never share a row id, however ids are reserved and taken |
| `PartitionsConsistent` | rows' partitions, sizes, both key maps, the free queue and tombstones agree after every call: what the code's `debug_assert`s rely on |
| `RowsOnlyAdvance` | timestamp and epoch of a row never decrease; no visible change without a new epoch; a partition does not change hands under a row |
| `SearchSound` | every row a search answers with is not deleted, has its current vector and is in the partition that was asked for, unless its id was lapped by 2^16 changes |
| `IndexExact` | when the channel has drained, an index that lost nothing holds exactly the live rows under their current ids |
| `Accounted`, `AllAccounted` | when readers, scan and channels have drained, the table agrees with the base table, but for keys whose last write was a refused delete or failed in every reader |
| `Converged` | the same without exceptions; violated by the code (findings 1 and 2) |
| `AllCatchUp` | after the last write the table gets to agree with the base table, with the same exceptions, and stays so |
| `Exclusive` | a removal or a reservation runs alone; what runs together is of one kind |
| `RoomForAdds` | every add on its way fits into the capacity that is reserved |
| `SearchReadsSnapshot` | a dispatched search will find what was received before it and nothing received after it |
| `EffectsInOrder`, `CountExact` | at rest, every partition contains what the received modifications say, in channel order, and `count` is the number of vectors |
| `DispatchEnds` | the actor gets through with every message it takes |
| `OnlyLateLost`, `ImplementsFeed` | a restarted reader skips only what was older than the offset when its predecessor ended; the readers of an index implement `LogFeed` |
| `EverythingDelivered`, `DropEndsReader` | a steady session ends in a reader that has delivered everything and is reported as up; a dropped index ends its reader, whose metrics then never come back |
| `ServedAfterScan` | an index is served only after its own scan has finished or, while that went on, one that a dropped index of the name had left behind |
| `ServingMeansBuilt` | the node says `Serving` only when every index it found at the start was scanned or has gone |
| `ListsConsistent` | a list of indexes that is announced is that of one version of the schema, and routing groups list exactly the vector indexes of the group, once |
| `SchemaFollowed` | once the schema stops changing, its list is found and the node serves exactly its indexes |
| `DoneMeansIndexed`, `ScanEnds` | a finished scan has indexed every row it could read, reports 100 %, and is reached |
| `AnswersExact` | the rows answered are those that satisfy the restrictions, with the keys and values of the table, ranked by the index's similarity; a refusal has a status the API documents |
| `RefusedOnlyIfNoneServes` | a routed request is refused only when no index of the group could answer it |
| `FtsAnswersRight`, `GuardsReleased` | a document whose guard was dropped is found by every later search; counts include what was finished; highlighted terms are the positive ones; an analyzer that does more finds what one that does less finds; all guards are dropped in the end |
| `DiskannKept` | at rest no tombstone, in-flight copy or lost vector; vectors read back belong to the ids that were asked for; lists of edges keep their bounds, and a search answers nothing that was gone when it began and, if nothing changed meanwhile, what can be reached, up to its limit |
| `OsDrains` | every message is taken and all permits come back, panics included |
| `ImplementsRowStore` | bytes and vectors behave like a store of rows |
| `ServedPairMatches`, `ServersServe`, `ServersComeUp` | certificate and key belong together; settled servers serve what the files hold, and a node that starts serves with the engine and at the addresses that were configured; servers take over the last configuration, and a start comes to an end |
| `SessionConsistent`, `SessionFollowsConfig`, `MessagesAnswered` | the session is one the configuration asks for, is made anew after every loss, and no message stays unanswered |
| `ConfigurationFollowed` | the verdict on allocations follows the memory in use and the configured limit; simulated indexes take over the last setting, and an operation takes as long as the setting said when it began |
| `ReportsRight` | a mark set while requests for the metrics collect, count and set is not lost; the position of a reader is never ahead of a stream; every increment after the start of a counter is counted once |
| `TypeOK`, `PipelineTypeOK` | types |

## Runs

| Run | Shows | Bounds |
|---|---|---|
| `pipeline_nonpk` | all of the table's properties and `IndexExact` with partitions by a regular column | 2 keys, 2 partition keys, 3 changes per row, 2 timestamps, 2 epochs, 1 partition id per reservation |
| `pipeline_lossy` | `SearchSound` for a global index that loses adds and removals | 2 keys, 2 vectors, 3 changes per row, 3 timestamps |
| `replication` | `AllAccounted`, `AllCatchUp`; four instances chosen by the initial state | by primary key: 1 key with 2 readers, postimages, deletes and 2 failed fetches (as many as readers), 2 writes; 2 keys with 1 reader, 1 row id per reservation, deletes and 1 failed fetch, 3 writes, so that deletes are refused; by a regular column: 1 key with 2 readers, 2 writes, and with 1 reader, 3 writes; 1 010 000 states |
| `vector_indexes` | the six properties of the index actor and `DiskannKept`; one index at a time | usearch: 1 partition id for 2 objects in turn, 2 workers, channels of 1, 1 failure, increment 3 with 4 modifications and 4 with 3, searches without bound; DiskANN: scripts of up to 4 messages over 2 ids, lists of 1 edge, 1 failure |
| `cdc_restart` | `OnlyLateLost`, `ImplementsFeed`, `EverythingDelivered`, `DropEndsReader` | 2 streams, offset 1, safety interval 0 or 1, 3 ticks after the creation, 2 failures, 2 changes of the session; readers of any speed; 488 000 states |
| `following` | the life cycle of indexes and the reading of their list; one at a time | 2 names, 3 descriptions (one name comes back as another kind), 2 disturbances of the schema, the session or a step; 2 nodes, 5 versions of a schema, 1 failure; 351 000 states |
| `indexing` | scan, requests, storage, full-text and OpenSearch; one part at a time | rings of up to 2 tokens of 7, 1 failed open; tables of 2 to 3 rows with the requests of `MCIndexing`; 2 writes, bytes of 2 values; scripts of 2 to 6 messages with 1 to 2 failures; 79 000 states |
| `node` | servers, session, memory, series, checkpoints, counters, simulator, start-up; one service at a time | 2 versions of each file, 2 writes, 1 SIGHUP; 2 changes, 2 errors, 2 messages; 3 limits, 3 changes; 2 rows, 2 scrapes at once, 1 drop; 2 streams; 2 increments; 2 settings, 2 operations; 1 SIGHUP during the start; 367 000 states |
| `replication_moved`, `replication_unreserved`, `cdc_gap`, `lifecycle_recreated` | the findings below | |

The parts of `vector_indexes`, `following`, `indexing` and `node` share no variable with
each other: a part runs while the others rest, which covers every behaviour of the parts
side by side. Each of these runs takes about two and a half minutes with two workers.

Why the bounds suffice: two keys are needed to share or reuse an id; reservations
of one or two ids make every queue run empty; two epochs make an id wrap after two
changes, so that `SearchSound`'s condition on lapped ids matters; three changes
are insert, change and change back (or delete and insert again). Four adds fill
the channel and both workers and leave one for the check that must reserve; with
the larger increment a removal frees the room a waiting reservation was for. An
offset of 2 in 5 ticks leaves room to fall behind, restart and fall behind again.
One name with two descriptions is what it takes to confuse an index with its
predecessor. A ring token at, next to and between the extremes covers the cases
of the range arithmetic, whose numbers wrap as in the code. Every run fires every
action of its next-state relation, and every property has a mutant of the code
that breaks it (`mutants` in `PROJECT.json`).

`CHECK_DEADLOCK FALSE` is set where the bounds on changes, scripts or ticks end the
behaviour; `Replication` ends in `Done`, `Usearch` can always be searched and the DiskANN
scripts end in `MCDone`, so there deadlock is checked.

Fairness: weak fairness of the steps of actors, workers, readers and tasks, which
the code runs as tasks of the tokio runtime or as threads; a task that is ready
is run. Timers tick. Nothing is assumed of clients, writes, failures, changes of
the schema, of the session or of the configuration, except where a property
says "once they stop".

## Findings

1. `replication_moved` - `is_changing_partitions` (`table/mod.rs:317`) leaves out
   `AddToExisting`. A row whose partition column became null and then names a
   partition that exists is skipped, since its vector has the timestamp it had
   before; had the partition not existed it would be added (`New`).
2. `replication_unreserved` - `delete` takes a row id but reserves none. For an
   unknown key and an empty queue it fails, the tombstone is lost, and an upsert
   fetched before the delete brings the row back for good.
3. `cdc_gap` - a stopped reader's successor starts at the time of the stop less
   ten minutes (`db_cdc/actor.rs:285`), though the comment speaks of the last
   checkpoint. A reader that was further behind leaves a gap for good.
4. `lifecycle_recreated` - `FullScanFinished` counts for whatever index has the
   name (`node_state.rs:180`): an index that replaces another can be served before
   its own scan has ended.

Disagreements met on the way that have no run of their own:

- in an index partitioned by a regular column, a delete of a row the table does
  not know is skipped without a tombstone (`table/mod.rs:862`, with a TODO), so an
  older upsert brings the row back;
- the receive order prefers searches; the scheduler's fairness, to which the
  comment at `vs_index/mod.rs:36` appeals, does not keep modifications from
  starving;
- after the session is lost and found again, node_state reports `Serving` before it
  has discovered anything new (`node_state.rs:119`);
- an `IN` restriction on a partition column is routed to a local index
  (`indexes.rs:211`) that finds no partition for it and answers nothing; `AnswersExact`
  excepts it;
- a certificate written while a reload is in progress is recorded by
  `TlsFilesMonitor::update` without having been loaded (`config_manager.rs:287`);
  `ServersServe` excepts it;
- a flag toggled at run time takes effect at the next change of the schema only
  (`monitor_indexes.rs:138`);
- the progress never becomes `Done` when the ring contains the lowest token
  (`db_index.rs:658`); `DoneMeansIndexed` excepts it;
- the comment at `is_valid_index` (`db.rs`) asks for an agreement between what is read
  from the database and what the driver knows, but only the existence of the table is
  checked: a table that was dropped and created again with another primary key may be
  listed with its old columns until the next change of the schema. A table that never
  gets a CDC log fails every round, for all indexes;
- `run` borrows the configuration several times, so that a reload in between may
  choose an engine that neither configuration asks for; a SIGHUP before the handlers
  are installed ends the process, and one during the start whose server fails ends it
  with "failed to get server address". `StartupRight` is stated for starts without
  a SIGHUP where this matters;
- with several full-text workers a removal may overtake the add it follows: the
  document stays, is filtered out of searches, and is counted (`CountsFinished`);
- the gauge of a CDC reader's position is set after the lock is released and counts
  the streams that have reported; a counter increment that comes after
  `remove_index_labels` creates the series of a dropped index again, and so does a
  search for an index that does not exist;
- an index may be created on a vector column whose elements are not floats
  (`validate_column_type_for_kind`, `db.rs:1309`); none of its rows can be decoded and
  it serves an empty index (the instance `ints` of `MCIndexing`);
- the metrics of a CDC reader are named after its index, not after its actor: one that
  ends late removes the series of an index created under the same name meanwhile;
- `mark_dirty` comes after the rows are sent but not after they are applied: the size
  that is reported may lag until the next row. Nothing orders two requests for the
  metrics (`httproutes.rs:652`): one that counted first may write last, with no mark
  left; and a count that fails (`httproutes.rs:601`, `612`, `633`) has lost its mark
  already (`metrics.rs:216`). Either way the size is stale until the next row;
  `SeriesRight` excepts both, and names them (`overtaken`, `refreshed = "failed"`).

The run `replication` contains finding 2: `Accounted` names the refused delete, and says
that nothing else gets lost by it. It stays clear of finding 1: the instances by a
regular column have no deletes and one row, and check `Converged`.

## Proofs

All proofs hold for every value of the constants that satisfies the named
assumptions of the modules (`TableAssumption`, `PipelineAssumption`,
`UsearchAssumption`, `DiskannAssumption`, `GraphAssumption`, `CdcReaderAssumption`, `LifecycleAssumption`,
`DbSessionAssumption`, `SaverAssumption`, `FullScanAssumption`, `ReplicationAssumption`, `NoneAssumption`,
`WorldsAssumption`, `FtsAssumption`, `StorageAssumption`): sets of keys, workers and streams are
finite, sizes and increments are positive, token rings are sorted, the value that stands for "none" is none of
the values, the columns of a target and of a request are sequences, a document id that was removed is not
added again (each change of a row takes a new epoch), a clause of a query names a node before its own,
a byte has more than one value, and the columns a write names are columns of the table. They are evaluated by TLC for every
instance. Some theorems have a hypothesis of their own:

- `Convergence` and `ReplicaConvergence` are about the indexes that no regular column
  partitions (`Layout # "nonpk"`); for the others finding 1 stands (`replication_moved`). Nothing is
  assumed of the row ids reserved at a time, of the number of keys or of the failures:
  `Accounted` says what becomes of a refused delete and of a fetch that fails everywhere.
- `ExactIndex` assumes `NoneIsNoPartition`: the value for a partition that does not
  exist is not a set of entries. It is true of a model value, but TLC refuses to
  compare the two, so it is not an `ASSUME` of the module.

`TableProofs` shows `Spec => []TableInv`. The properties are not inductive as
they stand. The invariant `TableInv` adds how ids and queues relate: every row id
in use or queued is below the number of known keys plus the length of the queue,
and the queue has no repetitions, so when it is empty a reservation that starts
at the number of known keys takes fresh ids; the same holds of partition ids,
with the keys in the map; and a row id without a key has never been touched. From it follow `TypeCorrect`,
`UniqueRowIds`, `ConsistentPartitions` and, for steps, `RowsAdvance`. The
counting arguments (sizes against sets of rows, ids against known keys) are
lemmas on cardinalities, cited per action.

`PipelineProofs` shows `PipelineSpec => []PipelineInv`. The idea is freshness:
every add that is queued, in the channel, in the index or in the snapshot of
a search either names the current epoch of its row, and then carries the current
vector and the current partition of the row, or an older epoch. Every step of the
table that changes a row gives it a new epoch, so what was fresh becomes old and
stays old; losing messages can only make the sets smaller. `SoundSearches` follows: an id
that passes the epoch check and is not lapped is of the current epoch.

`ExactIndex` needs more: `IndexExact` only speaks of the moments in which both queues
are empty. `IndexConverges` says what the queues lead to at any moment: an entry that is
in a partition of the index, or is added by an operation on its way, and is not cleared
by a later one, is a live row of the table, and each live row is such an entry. Each step
of the table changes its rows and what it returns in step; sending and receiving only
move an operation from one place to the next.

For `Convergence`, `ReplicationInv` compares by cell. A cell that arrives, or that the table holds, *fits* the
database's if it is older or equal to it, a null counting as written with the last write of the
row; it is *current* if it is what a fetch after the last write reads. The table keeps the later of two
cells and a null over a value of its time, so what fits stays fitting, and what is current stays current until the
next write (`WayInv`, `InTableFits`). `NotMissed` is what must not be lost: after the last write
of a key, the row as it is now is in the channel or in the table, or the table has refused it, or every
reader either has it pending or has failed to fetch it. A reader that
consumes an entry has a task for it, or the entry is the postimage of the one it
acted on; a fetch of the last write that fails is recorded in the step that takes it from the
tasks; a refused row that is current can only be the delete of the last write. When all is quiet no reader has anything
pending, so the row must be in the table, unless it was refused or all readers failed (`QuiescentInSync`).

`CdcReaderProofs` rests on `ReaderInv`: no time is before
the creation of the index or ahead of the clock (`TimesInv`), everything before the point that the next reader will start from has been delivered
or is lost (`ResumeCovered`), what is lost is older than that point and than what the present reader reads (`LostInv`), so that
no lost entry comes after all, and while a reader is created no other one runs (`CreatingAlone`).
With it every step of `CdcReader` is a step of `LogFeed` or leaves its variables alone.

`VectorIndexProofs` shows `UsearchSpec => []UsearchInv`. `PermitInv` counts: the
semaphore's counter is the number of tasks in the channel and with the workers (and of
the one the actor holds), all of the current mode, and an exclusive mode has at most
one. `IdsInv`: an id to add is in one place only (the channel of modifications, the
actor, the channel to the workers, a worker, an object), so that an add that succeeds
adds one to the size. `RoomInv`: capacity exceeds the size by at least the adds on their
way, which is what the threshold is for. `EffectsInv`: the content of an object with what is on
its way applied is what the messages received so far make of it. `Exclusive`,
`RoomForAdds`, `SearchReadsSnapshot` and `EffectsInOrder` follow. For `CountsExact`
the counter is the sum of the sizes of all objects ever made, and those that are
no longer of a partition are empty: the table removes a partition after its rows, so
the messages on their way keep that order (`OrderKept` in `CountInv`).

For `DiskannIndexesKept` the actor and the graph have an invariant each. `DiskannInv`: every
tombstone has the removal that will reap it, every copy in flight the insertion that will
drop it (`NodesInv`); an id that was put in and not taken out is live (`InsertedInv`); the size
is, while nothing has failed, the number of live nodes up to what insertions have yet to add and
removals to subtract, modulo the width of the counter (`SizeInv`), and the number of partitions times ids is below the wrap of the counter. That a load gives each id its own vector is a
matter of the positions: `Wanted` lists the ids that are asked for in their order, and an id's rank in it is where
its answer is. `GraphInv`: what is held or dead has its task (`GraphTasksInv`), and of a search,
what was gone stays gone, since no task and no change on its way bears its id. A search that nothing disturbed
is a breadth-first search (`Expanding`): the points that are scored and not on the list are
expanded, and whatever they lead to is scored, asked for, or no vector of the index any more. When a
round brings nothing new, the scored points are closed under edges. `Reachable` is the least such set
(`ReachFacts`): it is computed in as many rounds as there are ids, and each round that finds
anything finds at least one (`RoundsEnough`).

`FollowingProofs`: for `NodeServesBuilt`, `BuiltInv` bridges the channel that `node_state`
is behind by: an index of the first list is on every list in the channel, and is waited for or
scanned, and an end of a scan in the channel is that of an index that is scanned. For
`IndexesServeAfterScan`, `ServedInv` says that while the scan of an entry's own task
runs and no other one has ended under its name, no message in the channel and no answer to
the engine can make it serve: it had announced its scan before it became an entry, and whatever
is left of an earlier scan comes before the announcement. `ListsWhole` has two
parts. `RoutingInv`: the entries, the groups and the keys they list agree after every
insertion and removal. `DiscoveryInv`: what a round has read so far is exact for the
version it started with, or some node has already applied a later one, which the check
at the end of the round will see.

`NodeProofs`: `SessionInv` (no session while the actor connects, so what it connects
with is still its configuration); `PairInv` (no pair that does not match is published);
`ManagerInv` and `FollowInv` (the manager holds what is in the files unless a write was
overlooked; a server without news has what was published, or is about to);
`StartupInv` (what the start has built so far is of one configuration);
`SeriesInv`, `SaverInv` (the multiset of positions is that of the streams and its least
element is what is reported) and `InternalsInv` (what a counter holds plus the increments in the
channel is what was sent). `NodeServes`, `ListsWhole` and `NodeReports` speak of
parts that run side by side, so their hypotheses are the specifications of the parts;
the runs check the same properties with one part at a time.

`IndexingProofs`: the ranges of a ring are disjoint (apart from the range in front of a
lowest token on the ring, which is all tokens) and cover all tokens. So `ScanInv` can say
what `completed_scan_length` counts without a sum: it is the cardinality of the set of
tokens scanned, hence below 2^64, and it is 2^64 - 1 only when that set is all tokens. With it goes
where each row of an opened range is: still to be sent, with the pipeline, indexed or lost.
`RefusalsJustified` is about a single step, the choice of `best_index`, but that step walks the
list of a routing group, so it needs to know that the list has exactly the vector indexes of
the group (`GroupsInv`), whatever was added, dropped or changed before. The choice itself:
among the serving indexes the least by (columns left to filter, version, name) exists, and
since the count of columns comes first, it leaves nothing to filter when any index would.

`FtsInvariant`, for `FtsAnswersRight`, follows a document from the table to the searcher: while its row lives
and nothing lost it, its add is on its way (channel, closure or writer), or it is committed and
either served or under a guard that no reload known so far will drop, since the commit's opstamp is later than
that of the last reload and than the one the reload under way has read (`DocumentsKept`). A
removal that is on its way is final (`RemovalsFinal`): its document is of no row, now or later, so that no commit
takes away what is live. What a search was promised is served while it waits, and in what
it took once it has run (`SearchesKept`). Highlights and analyzers are about no state: by induction over the
nodes of a query, stripping it refuses a node exactly when a boost is among the positive
clauses below, and keeps their terms otherwise; a text of one or two words passes the filter in as
many steps.

`StorageInvariant`, for `ImplementsRowStore`, says that the vectors have the right length and type: a
chunk of bytes per row and a cell of its type per row in each column. The rest is arithmetic. A
number below `Power(size)` is the number its `size` digits give back (`BytesBack`: after that many
divisions nothing is left), and a timestamp stays below the flag that marks a tombstone, which can
so be added and told apart (`StampBack`). Bytes written at one offset leave bytes before and behind
alone, and neither the epoch and the timestamps of a chunk nor the chunks of two rows overlap (`SetEpochIs`,
`SetTimestampsIs`, `PutChunkIs`). Hence each step is one of `RowStore`'s: a reservation adds rows whose
timestamps are tombstones of time 0 under epoch 0, and any other step changes one row.

What a fold or a recursive function computes cannot be had from the induction theorems
of the library, which take an operator. `InductionLemmas` states the induction over
sets: a set of numbers that is not empty has a least element, and a set
of subsets that has the empty set and is closed under adding an element has all finite ones.
The sum of sizes (`MapThenSumSet`) and the versions a schema retains are reasoned about
that way. `IterationsExist` does the same for recursive functions on numbers: a function that
satisfies the recursion up to any n exists, so the one that CHOOSE picks satisfies it.
`RecursionExists` is for functions whose value at n depends on any values before n.

Only model-checked: everything under fairness, which is out of the prover's reach;
`AnswersExact`, whose answers are computed by folds and recursive functions over the data of each endpoint;
and `AllAccounted` of the two instances that are partitioned by a regular column, where it is true
only within their bounds (finding 1).

## Not modelled

Quantization and its scaling, rescoring, which neighbours the vector libraries choose,
scores of the full-text search, the in-memory back end of DiskANN (the library's own),
clocks of clients that disagree (write times grow in `Replication`), two writes with the
same timestamp from different clients, weak memory ordering of the counters, the
text of statements and answers, buckets of histograms, logging, and the database
driver's I/O. Of the life cycle: a scan that fails for good (`db_index.rs:307`; the index then stays
in bootstrapping) and pattern indexes. Of the requests: those that axum rejects before a handler
sees them (415, 422). Of OpenSearch: what the replies contain; `OsDrains` is about permits
and messages, and takes it that the server answers.

The `validator` crate (17 000 lines) and the unit tests inside the source files
(some 8 000 lines) are tests, not parts of the system: they were read for what they
promise and are not modelled, and neither are the API's types, the client and the
macros. Together they are more than half of the repository's Rust code; the map covers
31 % of all of it.

## Plan

The proof that would come next is that of the routing part of `AnswersExact`: which index an answer is
taken from.
