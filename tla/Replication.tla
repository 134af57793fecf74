---------------------------- MODULE Replication ----------------------------
(***************************************************************************)
(* How the table of an index follows the base table in the database.  Two  *)
(* CDC readers, wide and fine, read the same log (db_index.rs); each event *)
(* of an upsert starts a task that fetches the row as it is by then, each  *)
(* event of a delete is sent on as it is (db_cdc/consumer.rs).  A full     *)
(* scan reads every row once (db_index.rs).  All of them send to the one   *)
(* channel that the monitor-items actor applies to the table.              *)
(*                                                                         *)
(* The base table and its log are external: a row has a row marker and     *)
(* cells with write times, a write gets a later write time than the writes *)
(* before it, and the log has an entry for each write.                     *)
(***************************************************************************)
EXTENDS Table

CONSTANTS
  Updated,       \* the columns that the application updates on their own
  Deletes,       \* does the application delete rows?
  Reader,        \* the CDC readers of the index
  Scan,          \* the full scan
  RowChannel,    \* slots of the channel of rows (perf::channel_size)
  Permits,       \* fetches at a time (concurrency_limit)
  LogCopies,     \* log entries of an upsert: 2 when the log has postimages
  MaxFailures    \* bound: fetches that fail

ASSUME ReplicationAssumption ==
  /\ Updated \subseteq {"vector", "partition", "filtering"}
  /\ Deletes \in BOOLEAN
  /\ IsFiniteSet(Reader)
  /\ Scan \notin Reader
  /\ RowChannel \in Nat \ {0}
  /\ Permits \in Nat \ {0}
  /\ LogCopies \in Nat \ {0}
  /\ MaxFailures \in Nat

VARIABLES
  db,        \* the base table
  log,       \* the CDC log
  read,      \* reader -> how many entries of the log it has consumed
  last,      \* reader -> the entry it acted on last (CdcConsumer's fields)
  tasks,     \* fetches and scanned rows that are not sent yet
  scanned,   \* keys the full scan is done with
  rows,      \* the channel of rows
  failures,  \* history: the fetches that have failed
  refused    \* history: the deletes that the table dropped

\* An entry of the log, and a row on its way to the table; the absent value
\* is neither.
LogEntry == [key : Key, ts : 1 .. MaxTimestamp, op : {"Upsert", "Delete"}]
CellNames == {"vector", "partition", "filtering"}
AnyCell == Cell(Vector) \union PartitionCell \union FilteringCell
RowMessage == [key : Key, op : {"Upsert", "Delete"}, ts : Timestamp,
               values : [CellNames -> AnyCell] \union {None}]

ASSUME NoneAssumption == None \notin LogEntry /\ None \notin RowMessage

readerVars == <<read, last, tasks, scanned, failures>>
replicationVars == <<vars, db, log, readerVars, rows, refused>>

-----------------------------------------------------------------------------
(* The database (external).                                                *)

EmptyRow == [marker |-> FALSE, vector |-> NullCell,
             partition |-> NullCell, filtering |-> NullCell]

\* A row is there while it has its marker or a value.
RowExists(row) ==
  \/ row.marker
  \/ \E c \in CellNames : row[c].value # None

Column ==
  {"vector"} \union (IF Layout = "nonpk" THEN {"partition"} ELSE {})
             \union (IF FilterValue # {} THEN {"filtering"} ELSE {})

ValuesOf(column) ==
  CASE column = "vector" -> Vector
    [] column = "partition" -> PartitionKey
    [] column = "filtering" -> FilterValue

Now == Len(log) \div LogCopies

LogWrite(k, op, row) ==
  /\ Now < MaxTimestamp
  /\ db' = [db EXCEPT ![k] = row]
  /\ log' = log \o [n \in 1 .. LogCopies |-> [key |-> k, ts |-> Now + 1, op |-> op]]
  /\ UNCHANGED <<vars, refused, readerVars, rows>>

\* UPDATE of one column, to null too, and INSERT of a row with its first value.
UpdateColumn(k, column, value) ==
  LogWrite(k, "Upsert",
           [db[k] EXCEPT ![column] = [ts |-> Now + 1, value |-> value]])

InsertRow(k, vector, partition) ==
  LET cell == [ts |-> Now + 1, value |-> partition]
  IN LogWrite(k, "Upsert",
       [marker |-> TRUE, vector |-> [ts |-> Now + 1, value |-> vector],
        partition |-> IF Layout = "nonpk" THEN cell ELSE NullCell,
        filtering |-> db[k].filtering])

DeleteRow(k) == LogWrite(k, "Delete", EmptyRow)

Write ==
  \E k \in Key :
    \/ \E column \in Column \intersect Updated :
         \E value \in ValuesOf(column) \union {None} : UpdateColumn(k, column, value)
    \/ \E vector \in Vector, partition \in PartitionKey : InsertRow(k, vector, partition)
    \/ Deletes /\ DeleteRow(k)

-----------------------------------------------------------------------------
(* The readers.                                                            *)

\* Mutant: a null has no timestamp, whoever reads it.
ParseUndatedValues(row, default) ==
  [c \in CellNames |->
     IF row[c].value = None THEN NullCell ELSE row[c]]

\* parse_values: the write time of a null is null too; the timestamp of the
\* event, or Timestamp::MIN for the full scan, takes its place.
ParseValues(row, default) ==
  [c \in CellNames |->
     IF row[c].value = None /\ c \in Column
     THEN [ts |-> default, value |-> None] ELSE row[c]]

\* process_upsert: a row that is gone is sent as a delete at the event's time.
Fetched(k, ts) ==
  IF RowExists(db[k])
  THEN [key |-> k, op |-> "Upsert", ts |-> ts, values |-> ParseValues(db[k], ts)]
  ELSE [key |-> k, op |-> "Delete", ts |-> ts, values |-> None]

Send(row) ==
  /\ Len(rows) < RowChannel
  /\ rows' = Append(rows, row)

Task(source, key, ts, row) ==
  [source |-> source, key |-> key, ts |-> ts, row |-> row]

Fetches == {t \in tasks : t.source # Scan}

\* Mutant: the timestamp is not compared.
IsDuplicateKey(r, entry) ==
  last[r] # None /\ last[r].key = entry.key /\ last[r].op = entry.op

\* consume_cdc skips an entry like the one before it (a postimage).
IsDuplicate(r, entry) == last[r] = entry

SkipEntry(r) ==
  /\ read[r] < Len(log)
  /\ IsDuplicate(r, log[read[r] + 1])
  /\ read' = [read EXCEPT ![r] = @ + 1]
  /\ UNCHANGED <<vars, refused, db, log, last, tasks, scanned, rows, failures>>

\* consume_cdc and process_row: the reader waits for a permit, or for room in
\* the channel, before it takes the next entry.
ConsumeEntry(r) ==
  LET entry == log[read[r] + 1]
  IN /\ read[r] < Len(log)
     /\ ~IsDuplicate(r, entry)
     /\ read' = [read EXCEPT ![r] = @ + 1]
     /\ last' = [last EXCEPT ![r] = entry]
     /\ \/ /\ entry.op = "Upsert"
           /\ Cardinality(Fetches) < Permits
           /\ tasks' = tasks \union {Task(r, entry.key, entry.ts, None)}
           /\ UNCHANGED rows
        \/ /\ entry.op = "Delete"
           /\ Send([key |-> entry.key, op |-> "Delete",
                    ts |-> entry.ts, values |-> None])
           /\ UNCHANGED tasks
     /\ UNCHANGED <<vars, refused, db, log, scanned, failures>>

\* The task of an upsert reads the row.
FetchRow(t) ==
  /\ t.row = None
  /\ tasks' = (tasks \ {t})
                \union {Task(t.source, t.key, t.ts, Fetched(t.key, t.ts))}
  /\ UNCHANGED <<vars, refused, db, log, read, last, scanned, rows, failures>>

\* The error of a fetch is logged, and that is all.
FetchFails(t) ==
  /\ t.row = None
  /\ Cardinality(failures) < MaxFailures
  /\ failures' = failures \union {[reader |-> t.source, key |-> t.key, ts |-> t.ts]}
  /\ tasks' = tasks \ {t}
  /\ UNCHANGED <<vars, refused, db, log, read, last, scanned, rows>>

SendTask(t) ==
  /\ t.row # None
  /\ Send(t.row)
  /\ tasks' = tasks \ {t}
  /\ UNCHANGED <<vars, refused, db, log, read, last, scanned, failures>>

\* range_scan_stream reads a row; nulls have no timestamp of their own.
ScanRow(k) ==
  /\ k \notin scanned
  /\ scanned' = scanned \union {k}
  /\ tasks' = IF RowExists(db[k])
              THEN tasks \union {Task(Scan, k, 0, Fetched(k, 0))}
              ELSE tasks
  /\ UNCHANGED <<vars, refused, db, log, read, last, rows, failures>>

-----------------------------------------------------------------------------
(* The monitor-items actor.                                                *)

\* delete needs a row id and finds none; its error is logged.
IsRefused(row) ==
  row.op = "Delete" /\ primary_ids[row.key] = None /\ free_primary_ids = <<>>

ApplyRow ==
  LET row == Head(rows)
  IN /\ rows # <<>>
     /\ \/ /\ row.op = "Upsert"
           /\ Upsert(row.key, row.values.vector, row.values.partition,
                     row.values.filtering)
        \/ row.op = "Delete" /\ Delete(row.key, row.ts)
     /\ refused' = IF IsRefused(row)
                   THEN refused \union {[key |-> row.key, ts |-> row.ts]} ELSE refused
     /\ rows' = Tail(rows)
     /\ UNCHANGED <<db, log, readerVars>>

\* process_operations sends what the table returned to the index.
SendOperations ==
  /\ TakeOperations
  /\ UNCHANGED <<db, log, readerVars, rows, refused>>

ReplicationInit ==
  /\ Init
  /\ db = [k \in Key |-> EmptyRow]
  /\ log = <<>>
  /\ read = [r \in Reader |-> 0]
  /\ last = [r \in Reader |-> None]
  /\ tasks = {}
  /\ scanned = {}
  /\ rows = <<>>
  /\ failures = {}
  /\ refused = {}

Replicate ==
  \/ \E r \in Reader : SkipEntry(r) \/ ConsumeEntry(r)
  \/ \E t \in tasks : FetchRow(t) \/ SendTask(t)
  \/ \E k \in Key : ScanRow(k)
  \/ ApplyRow
  \/ SendOperations

\* The readers have caught up, and the table has taken all they sent.
Quiescent ==
  /\ \A r \in Reader : read[r] = Len(log)
  /\ tasks = {} /\ rows = <<>> /\ operations = <<>>
  /\ scanned = Key

\* Nothing left to do, within the bound on the writes.
Done ==
  /\ Now = MaxTimestamp
  /\ Quiescent
  /\ UNCHANGED replicationVars

ReplicationNext ==
  \/ Write
  \/ Replicate
  \/ \E t \in tasks : FetchFails(t)
  \/ Done

ReplicationSpec == ReplicationInit /\ [][ReplicationNext]_replicationVars

\* The runtime keeps running the tasks that can run.
FairReplicationSpec == ReplicationSpec /\ WF_replicationVars(Replicate)

-----------------------------------------------------------------------------
(* Properties.                                                             *)

\* The partition key of a row of the database; None if it is not to be indexed.
DbPartitionKey(k) ==
  IF db[k].vector.value = None THEN None ELSE PartitionKeyOf(k, db[k].partition)

\* The table has for k what the database has.
InSync(k) ==
  LET i == primary_ids[k]
  IN IF DbPartitionKey(k) = None
     THEN i # None => values_timestamps[i].tombstone
     ELSE /\ i # None
          /\ ~values_timestamps[i].tombstone
          /\ indexed[i] = db[k].vector.value
          /\ Layout # "global" => ids[i] # None /\ keys[ids[i]] = DbPartitionKey(k)
          /\ columns[i].filtering.value = db[k].filtering.value

\* The time of the last write of k in the log l, 0 if there is none.
IsLastIn(l, k, ts) ==
  /\ \A n \in DOMAIN l : l[n].key = k => l[n].ts <= ts
  /\ ts # 0 => \E n \in DOMAIN l : l[n].key = k /\ l[n].ts = ts
LastTsIn(l, k) == CHOOSE ts \in 0 .. MaxTimestamp : IsLastIn(l, k, ts)
LastTs(k) == LastTsIn(log, k)

\* What can become of the last write of k: the table dropped it, as a delete
\* of a key it did not know, or the fetch of a reader failed.
Refused(k) == [key |-> k, ts |-> LastTs(k)] \in refused
FetchFailed(r, k) == [reader |-> r, key |-> k, ts |-> LastTs(k)] \in failures
Settled(k) == InSync(k) \/ Refused(k) \/ \A r \in Reader : FetchFailed(r, k)

\* Once the readers have caught up, the table agrees with the base table.
Converged == Quiescent => \A k \in Key : InSync(k)

\* In whatever order two readers and a full scan deliver rows that they read
\* at different times, the table agrees with the base table once the readers
\* have caught up, key by key, with two exceptions only: the last write of the
\* key was a delete that the table refused, or its fetch failed in every
\* reader.  No earlier failure or refusal, and none of another key, matters.
Accounted == Quiescent => \A k \in Key : Settled(k)

=============================================================================
