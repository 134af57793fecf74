------------------------------- MODULE Table -------------------------------
(***************************************************************************)
(* The in-memory table of one index (table/mod.rs).  It maps primary keys  *)
(* to row ids, keeps the timestamp and the epoch of the last change of     *)
(* each row, and, for a local index, the partition each row is indexed in. *)
(* `upsert` and `delete' are called by the monitor-items actor only, under *)
(* the table's write lock, so each is one atomic action; the operations    *)
(* they return for the index are left in the variable `operations'.        *)
(*                                                                         *)
(* A primary key stands for its normalised form, a partition key for the   *)
(* tuple of its column values, a vector for the value of the target        *)
(* column (a vector or a document).  The vectors of the code (ColumnVec)   *)
(* grow with default values, so they are functions on all the row ids that *)
(* can ever be reserved.                                                   *)
(***************************************************************************)
EXTENDS Integers, Sequences, FiniteSets

CONSTANTS
  Key,                \* primary keys of the base table
  PartitionKey,       \* values of the index's partition key
  Vector,             \* values of the target column
  FilterValue,        \* values of the filtering column
  None,               \* the absent value (Option::None, a null column)
  Layout,             \* "global", "pk" (partitioned by primary key columns)
                      \* or "nonpk" (partitioned by a regular column)
  PkPartition,        \* Layout = "pk": the partition key of a primary key
  MaxTimestamp,       \* bound: write timestamps are 1..MaxTimestamp
  PrimaryIncrement,   \* Table::INCREMENT_SIZE
  PartitionIncrement, \* Index::INCREMENT_SIZE
  EpochCount,         \* number of different epochs, 2^16 in the code
  MaxUpdates          \* bound: changes of one row that are followed

ASSUME TableAssumption ==
  /\ IsFiniteSet(Key)
  /\ IsFiniteSet(PartitionKey)
  /\ None \notin Int
  /\ None \notin Key
  /\ None \notin Vector
  /\ None \notin PartitionKey
  /\ None \notin FilterValue
  /\ Layout \in {"global", "pk", "nonpk"}
  /\ PkPartition \in [Key -> PartitionKey]
  /\ MaxTimestamp \in Nat
  /\ PrimaryIncrement \in Nat \ {0}
  /\ PartitionIncrement \in Nat \ {0}
  /\ EpochCount \in Nat \ {0}
  /\ MaxUpdates \in Nat \ {0}

Timestamp == 0 .. MaxTimestamp       \* 0 is Timestamp::MIN
PrimaryIdx == 0 .. (Cardinality(Key) + PrimaryIncrement - 1)
PartitionIdx == 0 .. (Cardinality(PartitionKey) + PartitionIncrement - 1)
GlobalPartition == -1                \* PartitionId::global

\* A column value with the timestamp of its write; a null read by the full
\* scan carries Timestamp::MIN, which no written value has.
Cell(S) == [ts : 1 .. MaxTimestamp, value : S \union {None}]
             \union [ts : {0}, value : {None}]
NullCell == [ts |-> 0, value |-> None]

\* What a row brings for the regular partition column and for the filtering
\* column, when the index has them.
PartitionCell == IF Layout = "nonpk" THEN Cell(PartitionKey) ELSE {NullCell}
FilteringCell == IF FilterValue # {} THEN Cell(FilterValue) ELSE {NullCell}

VARIABLES
  primary_ids,        \* primary key -> row id
  primary_keys,       \* row id -> primary key
  free_primary_ids,   \* queue of reserved row ids
  columns,            \* the regular partition column and the filtering column
  values_timestamps,  \* row id -> epoch, timestamp and tombstone flag
  map,                \* partition key -> partition id
  keys,               \* partition id -> partition key
  ids,                \* row id -> partition id
  sizes,              \* partition id -> number of rows
  free_ids,           \* queue of reserved partition ids
  operations,         \* what the last call returned and is not yet sent
  indexed             \* history: the vector of the last AddVector of a row
                      \* that is not removed since

tableVars == <<primary_ids, primary_keys, free_primary_ids, columns,
               values_timestamps, map, keys, ids, sizes, free_ids, indexed>>
vars == <<tableVars, operations>>

-----------------------------------------------------------------------------
(* Identifiers.                                                            *)

\* The u16 in a PrimaryId.  The model counts the changes of a row, the code
\* keeps the count modulo the number of epochs.
SameEpoch(a, b) == a % EpochCount = b % EpochCount

\* Mutant: is_valid_primary_id accepts ids one change older as well.
IsRecentPrimaryId(id) ==
  \/ SameEpoch(values_timestamps[id.idx].epoch, id.epoch)
  \/ SameEpoch(values_timestamps[id.idx].epoch, id.epoch + 1)

\* is_valid_primary_id: does the id a search returned name the current row?
IsValidPrimaryId(id) == SameEpoch(values_timestamps[id.idx].epoch, id.epoch)

\* The keys a map holds.
Assigned(f) == {x \in DOMAIN f : f[x] # None}

\* The ids start, start + 1, ... that a reservation queues.
\* Mutant: off by one.
ReservationFromOne(start, increment) == [n \in 1 .. increment |-> start + n]
Reservation(start, increment) == [n \in 1 .. increment |-> start + n - 1]

\* reserve_primary_ids and reserve_partition_ids only refill an empty queue.
\* Mutant: the queue is topped up whether it is empty or not.
ToppedUpPrimaryIds ==
  free_primary_ids
    \o Reservation(Cardinality(Assigned(primary_ids)), PrimaryIncrement)
ReservedPrimaryIds ==
  IF free_primary_ids # <<>> THEN free_primary_ids
  ELSE Reservation(Cardinality(Assigned(primary_ids)), PrimaryIncrement)

ReservedPartitionIds ==
  IF Layout = "global" \/ free_ids # <<>> THEN free_ids
  ELSE Reservation(Cardinality(Assigned(map)), PartitionIncrement)

\* add_primary_key: the row id of k, the first of the queue for a new key.
RowId(k, free) == IF primary_ids[k] # None THEN primary_ids[k] ELSE Head(free)

AddPrimaryKey(k, free) ==
  IF primary_ids[k] # None
  THEN /\ free_primary_ids' = free
       /\ UNCHANGED <<primary_ids, primary_keys>>
  ELSE /\ free_primary_ids' = Tail(free)
       /\ primary_ids' = [primary_ids EXCEPT ![k] = Head(free)]
       /\ primary_keys' = [primary_keys EXCEPT ![Head(free)] = k]

\* Mutant: the cell that arrives last stays.
LastCell(cur, new) == IF new.ts > 0 THEN new ELSE cur

\* ColumnVec::update keeps the newest cell, the first of equally old ones.
Newest(cur, new) == IF new.ts > cur.ts THEN new ELSE cur

-----------------------------------------------------------------------------
(* How a change of a row relates to its partition (ProcessingPartition).   *)

CurPartition(i) == IF Layout = "global" THEN GlobalPartition ELSE ids[i]

TargetPartition(key) ==
  IF Layout = "global" THEN GlobalPartition
  ELSE IF key = None THEN None ELSE map[key]

\* get_partition_key.  A row partitioned by its primary key never moves.
ProcessingPartition(cur, key, target) ==
  IF cur # None /\ (cur = target \/ Layout # "nonpk") THEN "Existing"
  ELSE IF key = None THEN IF cur = None THEN "Missing" ELSE "MissingKey"
  ELSE IF target = None THEN IF cur = None THEN "New" ELSE "MoveToNew"
  ELSE IF cur = None THEN "AddToExisting" ELSE "MoveToExisting"

\* is_changing_partitions
ChangingPartitions == {"MoveToNew", "MoveToExisting", "MissingKey", "New"}

\* The guard of update_index: a newer value, or the same value elsewhere.
IsApplied(cur, ts, kind) ==
  \/ ts > cur.ts
  \/ ts = cur.ts /\ kind \in ChangingPartitions

\* UpdateWork::new
UpdateWork(kind, isCurTombstone, isNewTombstone) ==
  CASE kind = "MissingKey" ->
         IF isCurTombstone THEN "None" ELSE "Remove"
    [] kind \in {"New", "AddToExisting"} ->
         IF isNewTombstone THEN "None" ELSE "Add"
    [] kind \in {"Existing", "MoveToNew", "MoveToExisting"} ->
         IF isCurTombstone
         THEN IF isNewTombstone THEN "None" ELSE "Add"
         ELSE IF isNewTombstone THEN "Remove"
         ELSE IF kind = "Existing" THEN "MoveInside" ELSE "MoveBetween"

-----------------------------------------------------------------------------
(* The operations for the index.                                           *)

Op(op, p, i, epoch, vector) ==
  [op |-> op, partition |-> p,
   id |-> [idx |-> i, epoch |-> epoch], vector |-> vector]

\* Mutant: the epoch advances twice.
AddVectorAfterNext(p, i, v) ==
  <<Op("AddVector", p, i, values_timestamps[i].epoch + 2, v)>>
AddVector(p, i, v) ==
  <<Op("AddVector", p, i, values_timestamps[i].epoch + 1, v)>>
\* Mutant: the removal names the row by its new epoch.
RemoveNewBeforeAdd(p, i) ==
  <<Op("RemoveBeforeAdd", p, i, values_timestamps[i].epoch + 1, None)>>
RemoveBeforeAdd(p, i) ==
  <<Op("RemoveBeforeAdd", p, i, values_timestamps[i].epoch, None)>>
RemoveValue(p, i) ==
  <<Op("RemoveValue", p, i, values_timestamps[i].epoch, None)>>
RemovePartition(p) == <<Op("RemovePartition", p, 0, 0, None)>>

-----------------------------------------------------------------------------
(* update_index: one alternative per UpdateWork.  `free' is the queue of   *)
(* partition ids after the reservation.                                    *)

\* remove_row_from_partition returns whether the partition became empty.
\* Mutants: off by one, either way.
EmptiesEarly(p) == Layout # "global" /\ sizes[p] <= 2
EmptiesLate(p) == Layout # "global" /\ sizes[p] < 1
Empties(p) == Layout # "global" /\ sizes[p] <= 1

\* Mutant: only an add gets a new epoch.
SetTimestampOfAdd(i, ts, isTombstone) ==
  values_timestamps' = [values_timestamps EXCEPT
    ![i] = [epoch |-> IF isTombstone THEN @.epoch ELSE @.epoch + 1,
            ts |-> ts, tombstone |-> isTombstone]]
SetTimestamp(i, ts, isTombstone) ==
  values_timestamps' = [values_timestamps EXCEPT
    ![i] = [epoch |-> @.epoch + 1, ts |-> ts, tombstone |-> isTombstone]]

Skip(free) ==
  /\ free_ids' = free
  /\ operations' = <<>>
  /\ UNCHANGED <<values_timestamps, map, keys, ids, sizes, indexed>>

Touch(i, ts, free) ==
  /\ SetTimestamp(i, ts, TRUE)
  /\ free_ids' = free
  /\ operations' = <<>>
  /\ UNCHANGED <<map, keys, ids, sizes, indexed>>

\* FreePartitionIds: ids leave the queue at its front and come back at its end.
TakeId(free) == Tail(free)
ReturnId(free, p) == Append(free, p)

\* The partition that a row goes to: create_partition makes it when the key
\* has none.
PartitionFor(target, free) == IF target = None THEN Head(free) ELSE target

\* insert_row_into_partition, on the sizes; create_partition left a zero.
RowInserted(s, p, creates) == [s EXCEPT ![p] = IF creates THEN 1 ELSE @ + 1]

AddToPartition(i, cell, key, target, free) ==
  LET creates == target = None
      p == PartitionFor(target, free)
      local == Layout # "global"
  IN /\ SetTimestamp(i, cell.ts, FALSE)
     /\ map' = IF creates THEN [map EXCEPT ![key] = p] ELSE map
     /\ keys' = IF creates THEN [keys EXCEPT ![p] = key] ELSE keys
     /\ free_ids' = IF creates THEN TakeId(free) ELSE free
     /\ ids' = IF local THEN [ids EXCEPT ![i] = p] ELSE ids
     /\ sizes' = IF local THEN RowInserted(sizes, p, creates) ELSE sizes
     /\ operations' = AddVector(p, i, cell.value)
     /\ indexed' = [indexed EXCEPT ![i] = cell.value]

MoveInsidePartition(i, cell, cur, free) ==
  /\ SetTimestamp(i, cell.ts, FALSE)
  /\ free_ids' = free
  /\ operations' = RemoveBeforeAdd(cur, i) \o AddVector(cur, i, cell.value)
  /\ indexed' = [indexed EXCEPT ![i] = cell.value]
  /\ UNCHANGED <<map, keys, ids, sizes>>

\* The new partition is created before the row leaves the old one; the id of
\* a partition that became empty goes to the end of the queue.
MoveBetweenPartitions(i, cell, key, cur, target, free) ==
  LET creates == target = None
      p == PartitionFor(target, free)
      rest == IF creates THEN TakeId(free) ELSE free
  IN /\ SetTimestamp(i, cell.ts, FALSE)
     /\ map' = [k \in PartitionKey |->
                  IF Empties(cur) /\ k = keys[cur] THEN None
                  ELSE IF k = key THEN p ELSE map[k]]
     /\ keys' = [q \in PartitionIdx |->
                   IF Empties(cur) /\ q = cur THEN None
                   ELSE IF q = p THEN key ELSE keys[q]]
     /\ free_ids' = IF Empties(cur) /\ keys[cur] # None
                    THEN ReturnId(rest, cur) ELSE rest
     /\ ids' = [ids EXCEPT ![i] = p]
     /\ sizes' = RowInserted([sizes EXCEPT ![cur] = IF @ > 0 THEN @ - 1 ELSE 0],
                           p, creates)
     /\ operations' = RemoveBeforeAdd(cur, i)
                        \o (IF Empties(cur) THEN RemovePartition(cur) ELSE <<>>)
                        \o AddVector(p, i, cell.value)
     /\ indexed' = [indexed EXCEPT ![i] = cell.value]

RemoveFromPartition(i, ts, cur, free) ==
  LET emptied == Empties(cur)
      local == Layout # "global"
  IN /\ SetTimestamp(i, ts, TRUE)
     /\ map' = [k \in PartitionKey |->
                  IF emptied /\ k = keys[cur] THEN None ELSE map[k]]
     /\ keys' = IF emptied THEN [keys EXCEPT ![cur] = None] ELSE keys
     /\ free_ids' = IF emptied /\ keys[cur] # None
                    THEN ReturnId(free, cur) ELSE free
     /\ ids' = IF local THEN [ids EXCEPT ![i] = None] ELSE ids
     /\ sizes' = IF local
                 THEN [sizes EXCEPT ![cur] = IF @ > 0 THEN @ - 1 ELSE 0]
                 ELSE sizes
     /\ operations' = RemoveValue(cur, i)
                        \o (IF emptied THEN RemovePartition(cur) ELSE <<>>)
     /\ indexed' = [indexed EXCEPT ![i] = None]

UpdateIndex(i, key, cell, free) ==
  LET cur == CurPartition(i)
      kind == ProcessingPartition(cur, key, TargetPartition(key))
      target == IF kind = "Existing" THEN cur ELSE TargetPartition(key)
      isApplied == IsApplied(values_timestamps[i], cell.ts, kind)
      work == UpdateWork(kind, values_timestamps[i].tombstone,
                         cell.value = None)
  IN \/ /\ ~isApplied \/ kind = "Missing"
        /\ Skip(free)
     \/ /\ isApplied /\ kind # "Missing"
        /\ \/ work = "None" /\ Touch(i, cell.ts, free)
           \/ work = "Add" /\ AddToPartition(i, cell, key, target, free)
           \/ work = "MoveInside" /\ MoveInsidePartition(i, cell, cur, free)
           \/ /\ work = "MoveBetween"
              /\ MoveBetweenPartitions(i, cell, key, cur, target, free)
           \/ work = "Remove" /\ RemoveFromPartition(i, cell.ts, cur, free)

\* The partition key of the row: from the primary key, or from the regular
\* column, null when the column is.
PartitionKeyOf(k, cell) == IF Layout = "nonpk" THEN cell.value ELSE PkPartition[k]

-----------------------------------------------------------------------------
(* The two calls.  The caller sends the operations of a call before it     *)
(* makes the next one.                                                     *)

WithinBound(k) ==
  primary_ids[k] # None => values_timestamps[primary_ids[k]].epoch < MaxUpdates

Upsert(k, cell, partition, filtering) ==
  LET i == RowId(k, ReservedPrimaryIds)
      column == Newest(columns[i].partition, partition)
  IN /\ operations = <<>>
     /\ WithinBound(k)
     /\ AddPrimaryKey(k, ReservedPrimaryIds)
     /\ columns' = [columns EXCEPT ![i] =
          [partition |-> column,
           filtering |-> Newest(@.filtering, filtering)]]
     /\ UpdateIndex(i, PartitionKeyOf(k, column), cell, ReservedPartitionIds)

\* delete takes a row id for an unknown key but reserves none: on an empty
\* queue it fails, and nothing is recorded.
Delete(k, ts) ==
  LET i == RowId(k, free_primary_ids)
      tombstone == [ts |-> ts, value |-> None]
  IN /\ operations = <<>>
     /\ WithinBound(k)
     /\ IF primary_ids[k] = None /\ free_primary_ids = <<>>
        THEN UNCHANGED vars
        ELSE /\ AddPrimaryKey(k, free_primary_ids)
             /\ columns' = IF FilterValue = {} THEN columns
                           ELSE [columns EXCEPT ![i] =
                                   [partition |-> @.partition,
                                    filtering |-> Newest(@.filtering, tombstone)]]
             /\ UpdateIndex(i, PartitionKeyOf(k, columns[i].partition),
                            tombstone, free_ids)

\* Index::new_local, with the partition ids that Table::new reserves for it;
\* Index::new_global has none.
NewIndex ==
  /\ values_timestamps = [i \in PrimaryIdx |->
                            [epoch |-> 0, ts |-> 0, tombstone |-> TRUE]]
  /\ map = [k \in PartitionKey |-> None]
  /\ keys = [p \in PartitionIdx |-> None]
  /\ ids = [i \in PrimaryIdx |-> None]
  /\ sizes = [p \in PartitionIdx |-> 0]
  /\ free_ids = IF Layout = "global" THEN <<>>
                ELSE Reservation(0, PartitionIncrement)

Init ==
  /\ primary_ids = [k \in Key |-> None]
  /\ primary_keys = [i \in PrimaryIdx |-> None]
  /\ free_primary_ids = Reservation(0, PrimaryIncrement)
  /\ columns = [i \in PrimaryIdx |->
                  [partition |-> NullCell, filtering |-> NullCell]]
  /\ NewIndex
  /\ operations = <<>>
  /\ indexed = [i \in PrimaryIdx |-> None]

\* One row from the database readers.
Modify ==
  \E k \in Key :
    \/ \E cell \in Cell(Vector), partition \in PartitionCell,
          filtering \in FilteringCell :
         Upsert(k, cell, partition, filtering)
    \/ \E ts \in 1 .. MaxTimestamp : Delete(k, ts)

\* The caller has sent the operations.
TakeOperations ==
  /\ operations # <<>>
  /\ operations' = <<>>
  /\ UNCHANGED tableVars

Next == Modify \/ TakeOperations

Spec == Init /\ [][Next]_vars

-----------------------------------------------------------------------------
(* Properties.                                                             *)

PrimaryId == [idx : PrimaryIdx, epoch : 0 .. MaxUpdates]
Operation ==
  [op : {"AddVector", "RemoveBeforeAdd", "RemoveValue", "RemovePartition"},
   partition : PartitionIdx \union {GlobalPartition}, id : PrimaryId,
   vector : Vector \union {None}]

\* Types of the state.  The tombstone of a row that has none is Timestamp::MIN.
TypeOK ==
  /\ primary_ids \in [Key -> PrimaryIdx \union {None}]
  /\ primary_keys \in [PrimaryIdx -> Key \union {None}]
  /\ free_primary_ids \in Seq(PrimaryIdx)
  /\ columns \in [PrimaryIdx -> [partition : PartitionCell,
                                 filtering : FilteringCell]]
  /\ values_timestamps \in [PrimaryIdx ->
       [epoch : 0 .. MaxUpdates, ts : Timestamp, tombstone : BOOLEAN]]
  /\ map \in [PartitionKey -> PartitionIdx \union {None}]
  /\ keys \in [PartitionIdx -> PartitionKey \union {None}]
  /\ ids \in [PrimaryIdx -> PartitionIdx \union {None}]
  /\ sizes \in [PartitionIdx -> Nat]
  /\ free_ids \in Seq(PartitionIdx)
  /\ operations \in Seq(Operation)
  /\ indexed \in [PrimaryIdx -> Vector \union {None}]

\* Two keys never share a row id, whatever the order in which ids are reserved
\* and taken: reserve_primary_ids restarts at the number of known keys, which
\* is only right because the queue is empty and no id is ever given back.
RowIdsUnique ==
  /\ \A k \in Key : primary_ids[k] # None => primary_keys[primary_ids[k]] = k
  /\ \A n \in DOMAIN free_primary_ids : primary_keys[free_primary_ids[n]] = None
  /\ \A m, n \in DOMAIN free_primary_ids :
       free_primary_ids[m] = free_primary_ids[n] => m = n

\* The rows the table places in partition p.
RowsIn(p) == {i \in PrimaryIdx : ids[i] = p}

\* The partition of a row, the two directions of the partition key map, the
\* partition sizes and the queue of free partition ids always agree: a row is
\* in a partition iff its value is not a tombstone, a partition has a key iff
\* it has rows, and only keyless partitions are free (once).  This is what
\* the debug_asserts of remove_row_from_partition and create_partition rely
\* on, and what makes a partition id safe to use again.
PartitionsConsistent ==
  Layout # "global" =>
    /\ \A i \in PrimaryIdx : ids[i] = None <=> values_timestamps[i].tombstone
    /\ \A i \in PrimaryIdx : ids[i] # None => keys[ids[i]] # None
    /\ \A p \in PartitionIdx : sizes[p] = Cardinality(RowsIn(p))
    /\ \A p \in PartitionIdx : keys[p] # None => sizes[p] > 0 /\ map[keys[p]] = p
    /\ \A k \in PartitionKey : map[k] # None => keys[map[k]] = k
    /\ \A n \in DOMAIN free_ids : keys[free_ids[n]] = None
    /\ \A m, n \in DOMAIN free_ids : free_ids[m] = free_ids[n] => m = n

\* What one step may do to row i.
RowStep(i) ==
  /\ values_timestamps'[i].ts >= values_timestamps[i].ts
  /\ values_timestamps'[i].epoch >= values_timestamps[i].epoch
  /\ values_timestamps'[i].epoch = values_timestamps[i].epoch =>
       /\ ids'[i] = ids[i]
       /\ indexed'[i] = indexed[i]
       /\ values_timestamps'[i].tombstone = values_timestamps[i].tombstone
       /\ ids[i] # None => keys'[ids[i]] = keys[ids[i]]

\* A row never goes back: its timestamp and its epoch do not decrease, and
\* whenever its value, its partition or its tombstone changes its epoch does
\* too.  A partition does not change hands under a row: as long as the row
\* does not change, its partition keeps its key.  Ids that searches in flight
\* hold rely on both.
RowsOnlyAdvance == [][\A i \in PrimaryIdx : RowStep(i)]_vars
=============================================================================
