--------------------------- MODULE PipelineProofs ---------------------------
(***************************************************************************)
(* Proofs about what composes with Table.  Pipeline, for every set of      *)
(* keys, layout, channel size and number of epochs: the types, that a      *)
(* search only answers with current rows whether or not the index loses    *)
(* operations, and that an index that loses none ends up with exactly the  *)
(* rows of the table.  Replication, for every set of keys, readers and     *)
(* values, unless a regular column partitions the index: once the readers  *)
(* have caught up, the table agrees with the base table.                   *)
(***************************************************************************)
EXTENDS Pipeline, MCReplicas, TableProofs

-----------------------------------------------------------------------------
(* The inductive invariant.  SearchSound speaks of the search in flight;   *)
(* the same must be known of every copy of a row on its way there.         *)

\* A copy of a row, in or on its way to partition p, is not from the future,
\* and if it carries the row's epoch it is the row.
Fresh(p, id, vector) ==
  /\ id.epoch <= values_timestamps[id.idx].epoch
  /\ id.epoch = values_timestamps[id.idx].epoch =>
       /\ ~values_timestamps[id.idx].tombstone
       /\ vector = indexed[id.idx]
       /\ CurPartition(id.idx) = p

FreshAdd(op) ==
  op.op = "AddVector" => op.vector \in Vector /\ Fresh(op.partition, op.id, op.vector)

QueuedFresh(s) == \A n \in DOMAIN s : FreshAdd(s[n])

IndexedFresh ==
  \A p \in IndexPartition : partitions[p] # None =>
    \A e \in partitions[p] : Fresh(p, e.id, e.vector)

\* A current row the search read is in the partition the search asked for,
\* which still has the search's key.
SearchFresh ==
  search # None =>
    \A e \in search.entries :
      /\ Fresh(search.partition, e.id, e.vector)
      /\ Layout # "global" /\ e.id.epoch = values_timestamps[e.id.idx].epoch =>
           keys[search.partition] = search.key

PipelineInv ==
  /\ TableInv
  /\ PipelineTypeOK
  /\ QueuedFresh(operations)
  /\ QueuedFresh(modify)
  /\ IndexedFresh
  /\ SearchFresh

-----------------------------------------------------------------------------
(* Numbers and queues.                                                     *)

LEMMA Division ==
  ASSUME NEW m \in Nat, NEW e \in Nat \ {0}
  PROVE  m \div e \in Nat /\ m % e \in 0 .. (e - 1) /\ m = e * (m \div e) + (m % e)
  OBVIOUS

LEMMA MultiplesApart ==
  ASSUME NEW x \in Nat, NEW y \in Nat, NEW e \in Nat \ {0},
         e * y <= e * x, e * x < e * y + e
  PROVE  x = y
<1>1. CASE x < y
  <2>1. x + 1 <= y
    BY <1>1
  <2>2. e * (x + 1) <= e * y
    BY <2>1
  <2> QED
    BY <2>2
<1>2. CASE x > y
  <2>1. y + 1 <= x
    BY <1>2
  <2>2. e * (y + 1) <= e * x
    BY <2>1
  <2> QED
    BY <2>2
<1> QED
  BY <1>1, <1>2

\* Epochs less than EpochCount apart are equal when the code cannot tell them
\* apart.
LEMMA EpochsApart ==
  ASSUME NEW m \in Nat, NEW n \in Nat, n <= m, m < n + EpochCount, SameEpoch(m, n)
  PROVE  m = n
<1> DEFINE e == EpochCount
           x == m \div e
           y == n \div e
           r == m % e
<1>1. x \in Nat /\ y \in Nat /\ r \in Nat /\ m = e * x + r /\ n = e * y + r
  <2>1. x \in Nat /\ r \in 0 .. (e - 1) /\ m = e * x + r
    BY Division, TableAssumption
  <2>2. y \in Nat /\ n = e * y + (n % e)
    BY Division, TableAssumption
  <2> QED
    BY <2>1, <2>2 DEF SameEpoch
<1>2. e \in Nat \ {0} /\ n <= m /\ m < n + e
  BY TableAssumption
<1> HIDE DEF e, x, y, r
<1>3. e * y <= e * x /\ e * x < e * y + e
  <2>1. e * x \in Nat /\ e * y \in Nat
    BY <1>1, <1>2
  <2> QED
    BY <1>1, <1>2, <2>1
<1>4. x = y
  BY <1>1, <1>2, <1>3, MultiplesApart
<1> QED
  BY <1>1, <1>4

LEMMA TakeHead ==
  ASSUME NEW S, NEW s \in Seq(S), s # <<>>
  PROVE  /\ Head(s) \in S /\ Head(s) = s[1] /\ 1 \in DOMAIN s
         /\ Tail(s) \in Seq(S)
         /\ \A n \in DOMAIN Tail(s) : n + 1 \in DOMAIN s /\ Tail(s)[n] = s[n + 1]
  OBVIOUS

LEMMA AppendElement ==
  ASSUME NEW S, NEW s \in Seq(S), NEW e \in S
  PROVE  /\ Append(s, e) \in Seq(S)
         /\ \A n \in DOMAIN Append(s, e) :
              Append(s, e)[n] = e \/ (n \in DOMAIN s /\ Append(s, e)[n] = s[n])
  OBVIOUS

LEMMA ConcatElement ==
  ASSUME NEW S, NEW s \in Seq(S), NEW t \in Seq(S), NEW n \in DOMAIN (s \o t)
  PROVE  \/ n \in DOMAIN s /\ (s \o t)[n] = s[n]
         \/ n - Len(s) \in DOMAIN t /\ (s \o t)[n] = t[n - Len(s)]
  OBVIOUS

-----------------------------------------------------------------------------
(* What a call of the table does to the copies of its rows.                *)

\* A copy stays as it should be when its row only advances.
LEMMA FreshKept ==
  ASSUME TableInv, NEW id \in PrimaryId, NEW vector, NEW p, Fresh(p, id, vector),
         RowStep(id.idx), TableInv'
  PROVE  /\ Fresh(p, id, vector)'
         /\ id.epoch = values_timestamps'[id.idx].epoch =>
              id.epoch = values_timestamps[id.idx].epoch
<1>1. /\ id.idx \in PrimaryIdx /\ id.epoch \in Nat
      /\ values_timestamps[id.idx].epoch \in Nat
      /\ values_timestamps'[id.idx].epoch \in Nat
  BY TableAssumption DEF TableInv, TypeOK, PrimaryId
<1>2. id.epoch = values_timestamps'[id.idx].epoch =>
        id.epoch = values_timestamps[id.idx].epoch
  BY <1>1 DEF Fresh, RowStep
<1> QED
  BY <1>1, <1>2 DEF Fresh, RowStep, CurPartition

\* The only add among the operations of a call.
OnlyAdd(s, add) == \A n \in DOMAIN s : s[n].op = "AddVector" => s[n] = add
NoAdd(s) == \A n \in DOMAIN s : s[n].op # "AddVector"

LEMMA RemovalsAddNothing ==
  ASSUME NEW p, NEW i, NEW empty \in BOOLEAN
  PROVE  /\ NoAdd(RemoveBeforeAdd(p, i)) /\ NoAdd(RemoveValue(p, i))
         /\ NoAdd(IF empty THEN RemovePartition(p) ELSE <<>>)
  BY DEF NoAdd, RemoveBeforeAdd, RemoveValue, RemovePartition, Op

LEMMA NoAddConcat ==
  ASSUME NEW S, NEW s \in Seq(S), NEW t \in Seq(S), NoAdd(s)
  PROVE  /\ NoAdd(t) => NoAdd(s \o t)
         /\ \A add : OnlyAdd(t, add) => OnlyAdd(s \o t, add)
  BY ConcatElement DEF NoAdd, OnlyAdd

\* The add a change of a row asks for names the row by its new epoch, the
\* vector it now has and the partition it is now in.
LEMMA UpdateIndexFresh ==
  ASSUME IndexOK, NEW i \in PrimaryIdx, values_timestamps[i].epoch < MaxUpdates,
         NEW key \in PartitionKey \union {None}, NEW cell \in Cell(Vector),
         NEW free, PartitionQueueOK(free),
         Layout # "global" /\ cell.value # None => free # <<>>,
         UpdateIndex(i, key, cell, free)
  PROVE  QueuedFresh(operations)'
<1> DEFINE cur == CurPartition(i)
           target == TargetPartition(key)
           local == Layout # "global"
           v == cell.value
           p == IF target = None THEN Head(free) ELSE target
           \* partition q gets the row's new version
           Added(q) == Op("AddVector", q, i, values_timestamps[i].epoch + 1, v)
<1>1. IndexOK'
  BY UpdateIndexOK
<1>2. ASSUME NEW q, SetTimestamp(i, cell.ts, FALSE), indexed' = [indexed EXCEPT ![i] = v],
             v \in Vector, CurPartition(i)' = q, OnlyAdd(operations', Added(q))
      PROVE  QueuedFresh(operations)'
  <2>1. /\ values_timestamps'[i].epoch = values_timestamps[i].epoch + 1
        /\ ~values_timestamps'[i].tombstone
        /\ indexed'[i] = v /\ values_timestamps[i].epoch + 1 \in Nat
    BY <1>2, TableAssumption DEF SetTimestamp, IndexOK, IndexTypeOK, VersionType
  <2>2. ASSUME NEW n \in DOMAIN operations', operations'[n].op = "AddVector"
        PROVE  FreshAdd(operations[n])'
    <3>1. /\ operations'[n].partition = q /\ operations'[n].vector = v
          /\ operations'[n].id = [idx |-> i, epoch |-> values_timestamps[i].epoch + 1]
      BY <1>2, <2>2 DEF OnlyAdd, Op
    <3> QED
      BY <1>2, <2>1, <3>1 DEF FreshAdd, Fresh
  <2> QED
    BY <2>2 DEF QueuedFresh, FreshAdd
<1>3. ASSUME NoAdd(operations') PROVE QueuedFresh(operations)'
  BY <1>3 DEF QueuedFresh, FreshAdd, NoAdd
<1>4. ASSUME NEW q PROVE OnlyAdd(AddVector(q, i, v), Added(q))
  BY DEF OnlyAdd, AddVector
<1>5. /\ local => cur = ids[i] /\ cur \in PartitionIdx \union {None}
      /\ local /\ key \in PartitionKey => target = map[key]
      /\ ~local => cur = GlobalPartition /\ target = GlobalPartition
  BY TableAssumption DEF CurPartition, TargetPartition, IndexOK, IndexTypeOK
<1>6. CASE Skip(free) \/ Touch(i, cell.ts, free)
  <2>1. operations' = <<>>
    BY <1>6 DEF Skip, Touch
  <2>2. NoAdd(operations')
    BY <2>1 DEF NoAdd
  <2> QED
    BY <1>3, <2>2
<1>7. CASE /\ AddToPartition(i, cell, key, target, free)
           /\ v \in Vector /\ (local => key \in PartitionKey)
  <2>1. operations' = AddVector(p, i, v)
    BY <1>7 DEF AddToPartition, PartitionFor, TakeId, RowInserted
  <2>2. CurPartition(i)' = p
    BY <1>5, <1>7, IdSets
       DEF AddToPartition, PartitionFor, TakeId, RowInserted, CurPartition,
           IndexOK, IndexTypeOK
  <2>3. OnlyAdd(operations', Added(p))
    BY <1>4, <2>1
  <2> QED
    BY <1>2, <1>7, <2>2, <2>3
       DEF AddToPartition, PartitionFor, TakeId, RowInserted
<1>8. CASE MoveInsidePartition(i, cell, cur, free) /\ v \in Vector /\ cur # None
  <2>1. operations' = RemoveBeforeAdd(cur, i) \o AddVector(cur, i, v)
    BY <1>8 DEF MoveInsidePartition
  <2>2. CurPartition(i)' = cur
    BY <1>8 DEF MoveInsidePartition, CurPartition
  <2>3. cur \in PartitionIdx \union {GlobalPartition}
    BY <1>5, <1>8
  <2> HIDE DEF cur
  <2>4. OnlyAdd(operations', Added(cur))
    BY <1>4, <1>8, <2>1, <2>3, NoAddConcat, RemovalsAddNothing, OperationTypes DEF IndexOK
  <2> QED
    BY <1>2, <1>8, <2>2, <2>4 DEF MoveInsidePartition
<1>9. CASE /\ MoveBetweenPartitions(i, cell, key, cur, target, free)
           /\ v \in Vector /\ local /\ cur # None /\ key \in PartitionKey
  <2> DEFINE drop == IF Empties(cur) THEN RemovePartition(cur) ELSE <<>>
  <2>1. operations' = (RemoveBeforeAdd(cur, i) \o drop) \o AddVector(p, i, v)
    BY <1>9
       DEF MoveBetweenPartitions, PartitionFor, TakeId, RowInserted, ReturnId
  <2>2. ids'[i] = p /\ CurPartition(i)' = p
    BY <1>9
       DEF MoveBetweenPartitions, PartitionFor, TakeId, RowInserted, ReturnId,
           CurPartition, IndexOK, IndexTypeOK
  <2>3. cur \in PartitionIdx
    BY <1>5, <1>9
  <2>4. p \in PartitionIdx \union {None}
    BY <1>1, <2>2 DEF IndexOK, IndexTypeOK
  <2>5. p # None
    <3>1. ~values_timestamps'[i].tombstone
      BY <1>9
         DEF MoveBetweenPartitions, PartitionFor, TakeId, RowInserted,
             ReturnId, SetTimestamp, IndexOK, IndexTypeOK
    <3> QED
      BY <1>1, <1>9, <2>2, <3>1 DEF IndexOK, RowsInPartitions
  <2> HIDE DEF cur, p
  <2>6. RemoveBeforeAdd(cur, i) \in Seq(Operation) /\ drop \in Seq(Operation)
    BY <2>3, OperationTypes DEF IndexOK
  <2>7. AddVector(p, i, v) \in Seq(Operation)
    BY <1>9, <2>4, <2>5, OperationTypes DEF IndexOK
  <2>8. NoAdd(RemoveBeforeAdd(cur, i)) /\ NoAdd(drop)
    BY RemovalsAddNothing DEF NoAdd
  <2> HIDE DEF drop
  <2>9. /\ RemoveBeforeAdd(cur, i) \o drop \in Seq(Operation)
        /\ NoAdd(RemoveBeforeAdd(cur, i) \o drop)
    BY <2>6, <2>8, NoAddConcat
  <2>10. OnlyAdd(operations', Added(p))
    BY <1>4, <2>1, <2>7, <2>9, NoAddConcat
  <2> QED
    BY <1>2, <1>9, <2>2, <2>10
       DEF MoveBetweenPartitions, PartitionFor, TakeId, RowInserted, ReturnId
<1>10. CASE RemoveFromPartition(i, cell.ts, cur, free) /\ cur # None
  <2> DEFINE drop == IF Empties(cur) THEN RemovePartition(cur) ELSE <<>>
  <2>1. operations' = RemoveValue(cur, i) \o drop
    BY <1>10 DEF RemoveFromPartition, ReturnId
  <2>2. cur \in PartitionIdx \union {GlobalPartition}
    BY <1>5, <1>10
  <2> HIDE DEF cur
  <2>3. RemoveValue(cur, i) \in Seq(Operation) /\ drop \in Seq(Operation)
    BY <2>2, OperationTypes DEF IndexOK
  <2>4. NoAdd(RemoveValue(cur, i)) /\ NoAdd(drop)
    BY RemovalsAddNothing DEF NoAdd
  <2> HIDE DEF drop
  <2>5. NoAdd(operations')
    BY <2>1, <2>3, <2>4, NoAddConcat
  <2> QED
    BY <1>3, <2>5
<1> QED
  BY <1>6, <1>7, <1>8, <1>9, <1>10, UpdateIndexCases

\* A call that is not refused changes one row through update_index.
LEMMA CallUpdatesIndex ==
  ASSUME TableInv, Modify
  PROVE  \/ UNCHANGED vars
         \/ \E i \in PrimaryIdx, key \in PartitionKey \union {None},
               cell \in Cell(Vector), free \in {ReservedPartitionIds, free_ids} :
              /\ values_timestamps[i].epoch < MaxUpdates
              /\ PartitionQueueOK(free)
              /\ Layout # "global" /\ cell.value # None => free # <<>>
              /\ UpdateIndex(i, key, cell, free)
<1>1. ASSUME NEW k \in Key, NEW cell \in Cell(Vector),
             NEW partition \in PartitionCell, NEW filtering \in FilteringCell,
             Upsert(k, cell, partition, filtering)
      PROVE  \E i \in PrimaryIdx, key \in PartitionKey \union {None} :
               /\ values_timestamps[i].epoch < MaxUpdates
               /\ PartitionQueueOK(ReservedPartitionIds)
               /\ Layout # "global" => ReservedPartitionIds # <<>>
               /\ UpdateIndex(i, key, cell, ReservedPartitionIds)
  <2> DEFINE i == RowId(k, ReservedPrimaryIds)
             column == Newest(columns[i].partition, partition)
             key == PartitionKeyOf(k, column)
  <2>1. PrimaryQueueOK(ReservedPrimaryIds) /\ ReservedPrimaryIds # <<>>
    BY PrimaryReservation DEF TableInv
  <2>2. AddPrimaryKey(k, ReservedPrimaryIds) /\ WithinBound(k)
    BY <1>1 DEF Upsert
  <2>3. i \in PrimaryIdx /\ (primary_ids[k] = None => primary_keys[i] = None)
    BY <2>1, <2>2, AddPrimaryKeyFacts, TableInvParts
  <2>4. primary_ids[k] # None => i = primary_ids[k]
    BY DEF RowId
  <2>5. UpdateIndex(i, key, cell, ReservedPartitionIds)
    BY <1>1 DEF Upsert
  <2> HIDE DEF i
  <2>6. values_timestamps[i].epoch < MaxUpdates
    BY <2>2, <2>3, <2>4, RowWithinBound
  <2>7. key \in PartitionKey \union {None}
    <3>1. columns[i].partition \in PartitionCell
      BY <2>3, TableInvParts
    <3>2. Newest(columns[i].partition, partition) \in PartitionCell
      BY <3>1 DEF Newest
    <3> QED
      BY <3>2, TableAssumption DEF PartitionKeyOf, PartitionCell, Cell
  <2>8. /\ PartitionQueueOK(ReservedPartitionIds)
        /\ Layout # "global" => ReservedPartitionIds # <<>>
    BY PartitionReservation DEF TableInv
  <2> HIDE DEF key
  <2> QED
    BY <2>3, <2>5, <2>6, <2>7, <2>8
<1>2. ASSUME NEW k \in Key, NEW ts \in 1 .. MaxTimestamp, Delete(k, ts)
      PROVE  \/ UNCHANGED vars
             \/ \E i \in PrimaryIdx, key \in PartitionKey \union {None},
                   cell \in Cell(Vector) :
                  /\ values_timestamps[i].epoch < MaxUpdates
                  /\ PartitionQueueOK(free_ids) /\ cell.value = None
                  /\ UpdateIndex(i, key, cell, free_ids)
  <2> DEFINE i == RowId(k, free_primary_ids)
             cell == [ts |-> ts, value |-> None]
             key == PartitionKeyOf(k, columns[i].partition)
  <2>1. CASE primary_ids[k] = None /\ free_primary_ids = <<>>
    BY <1>2, <2>1 DEF Delete
  <2>2. CASE ~(primary_ids[k] = None /\ free_primary_ids = <<>>)
    <3>1. /\ AddPrimaryKey(k, free_primary_ids) /\ WithinBound(k)
          /\ UpdateIndex(i, key, cell, free_ids)
      BY <1>2, <2>2 DEF Delete
    <3>2. i \in PrimaryIdx /\ (primary_ids[k] = None => primary_keys[i] = None)
      BY <2>2, <3>1, AddPrimaryKeyFacts, TableInvParts
    <3>3. primary_ids[k] # None => i = primary_ids[k]
      BY DEF RowId
    <3> HIDE DEF i
    <3>4. values_timestamps[i].epoch < MaxUpdates
      BY <3>1, <3>2, <3>3, RowWithinBound
    <3>5. key \in PartitionKey \union {None}
      <4>1. columns[i].partition \in PartitionCell
        BY <3>2, TableInvParts
      <4> QED
        BY <4>1, TableAssumption DEF PartitionKeyOf, PartitionCell, Cell
    <3>6. cell \in Cell(Vector) /\ cell.value = None
      BY DEF Cell
    <3>7. PartitionQueueOK(free_ids)
      BY TableInvParts
    <3> HIDE DEF key, cell
    <3> QED
      BY <3>1, <3>2, <3>4, <3>5, <3>6, <3>7
  <2> QED
    BY <2>1, <2>2
<1>3. CASE \E k \in Key, cell \in Cell(Vector), partition \in PartitionCell,
              filtering \in FilteringCell : Upsert(k, cell, partition, filtering)
  BY <1>1, <1>3
<1>4. CASE \E k \in Key, ts \in 1 .. MaxTimestamp : Delete(k, ts)
  BY <1>2, <1>4
<1> QED
  BY <1>3, <1>4 DEF Modify

\* The same of a whole call.
LEMMA ModifyFresh ==
  ASSUME TableInv, Modify, QueuedFresh(operations)
  PROVE  QueuedFresh(operations)'
<1>1. CASE UNCHANGED vars
  BY <1>1 DEF vars, tableVars, QueuedFresh, FreshAdd, Fresh, CurPartition
<1>2. ASSUME NEW i \in PrimaryIdx, NEW key \in PartitionKey \union {None},
             NEW cell \in Cell(Vector), NEW free,
             values_timestamps[i].epoch < MaxUpdates, PartitionQueueOK(free),
             Layout # "global" /\ cell.value # None => free # <<>>,
             UpdateIndex(i, key, cell, free)
      PROVE  QueuedFresh(operations)'
  BY <1>2, TableInvParts, UpdateIndexFresh
<1> QED
  BY <1>1, <1>2, CallUpdatesIndex

-----------------------------------------------------------------------------
(* The steps of the pipeline.                                              *)

LEMMA PipelineInitInv == PipelineInit => PipelineInv
<1> SUFFICES ASSUME PipelineInit PROVE PipelineInv
  OBVIOUS
<1>1. TableInv
  BY InitInv DEF PipelineInit
<1>2. PipelineTypeOK
  BY DEF PipelineInit, PipelineTypeOK
<1>3. QueuedFresh(operations) /\ QueuedFresh(modify)
  BY DEF PipelineInit, Init, NewIndex, QueuedFresh
<1>4. IndexedFresh /\ SearchFresh
  BY DEF PipelineInit, IndexedFresh, SearchFresh
<1> QED
  BY <1>1, <1>2, <1>3, <1>4 DEF PipelineInv

\* A call of the table: every copy in the queues, in the index and in the
\* search stays as it should be.
LEMMA ProcessRowInv ==
  ASSUME PipelineInv, ProcessRow
  PROVE  PipelineInv'
<1>1. /\ TableInv /\ TableInv' /\ \A i \in PrimaryIdx : RowStep(i)
      /\ UNCHANGED <<modify, partitions, search>> /\ PipelineTypeOK
  BY NextInv, NextAdvances DEF PipelineInv, ProcessRow, Next
<1>2. QueuedFresh(operations)'
  BY ModifyFresh DEF PipelineInv, ProcessRow
<1>3. PipelineTypeOK'
  BY <1>1 DEF PipelineTypeOK
<1>4. ASSUME NEW id \in PrimaryId, NEW vector, NEW p, Fresh(p, id, vector)
      PROVE  /\ Fresh(p, id, vector)'
             /\ id.epoch = values_timestamps'[id.idx].epoch =>
                  id.epoch = values_timestamps[id.idx].epoch
  <2>1. id.idx \in PrimaryIdx
    BY DEF PrimaryId
  <2> QED
    BY <1>1, <1>4, <2>1, FreshKept
<1>5. \A op \in Operation : FreshAdd(op) => FreshAdd(op)'
  <2>1. ASSUME NEW op \in Operation, FreshAdd(op) PROVE FreshAdd(op)'
    <3>1. op.id \in PrimaryId
      BY DEF Operation
    <3> QED
      BY <1>4, <2>1, <3>1 DEF FreshAdd
  <2> QED
    BY <2>1
<1>6. QueuedFresh(modify)'
  <2>1. ASSUME NEW n \in DOMAIN modify PROVE FreshAdd(modify[n])'
    <3>1. modify \in Seq(Operation)
      BY <1>1 DEF PipelineTypeOK
    <3>2. modify[n] \in Operation /\ FreshAdd(modify[n])
      BY <3>1, SeqElement DEF PipelineInv, QueuedFresh
    <3>3. PICK op \in Operation : op = modify[n] /\ FreshAdd(op)
      BY <3>2
    <3>4. FreshAdd(op)' /\ modify'[n] = op
      BY <1>1, <1>5, <3>3
    <3> QED
      BY <3>4 DEF FreshAdd
  <2> QED
    BY <1>1, <2>1 DEF QueuedFresh, FreshAdd
<1>7. IndexedFresh'
  <2>1. ASSUME NEW p \in IndexPartition, partitions[p] # None, NEW e \in partitions[p]
        PROVE  Fresh(p, e.id, e.vector)'
    <3>1. e.id \in PrimaryId
      BY <1>1, <2>1 DEF PipelineTypeOK, EntryType
    <3> QED
      BY <1>4, <2>1, <3>1 DEF PipelineInv, IndexedFresh
  <2> QED
    BY <1>1, <2>1 DEF IndexedFresh
<1>8. SearchFresh'
  <2>1. CASE search = None
    BY <1>1, <2>1 DEF SearchFresh
  <2>2. CASE search # None
    <3>1. /\ search \in SearchType /\ search' = search
          /\ search.partition \in IndexPartition
      BY <1>1, <2>2 DEF PipelineTypeOK, SearchType
    <3>2. ASSUME NEW p, p = search.partition, NEW e \in search.entries
          PROVE  /\ Fresh(p, e.id, e.vector)'
                 /\ Layout # "global" /\ e.id.epoch = values_timestamps'[e.id.idx].epoch =>
                      keys'[p] = search.key
      <4>1. /\ Fresh(p, e.id, e.vector)
            /\ Layout # "global" /\ e.id.epoch = values_timestamps[e.id.idx].epoch =>
                 keys[p] = search.key
        BY <2>2, <3>2 DEF PipelineInv, SearchFresh
      <4>2. e.id \in PrimaryId /\ e.id.idx \in PrimaryIdx
        BY <3>1 DEF SearchType, EntryType, PrimaryId
      <4>3. /\ Fresh(p, e.id, e.vector)'
            /\ e.id.epoch = values_timestamps'[e.id.idx].epoch =>
                 e.id.epoch = values_timestamps[e.id.idx].epoch
        BY <1>4, <4>1, <4>2
      <4>4. ASSUME Layout # "global", e.id.epoch = values_timestamps'[e.id.idx].epoch
            PROVE  keys'[p] = search.key
        <5>1. /\ ids[e.id.idx] = p /\ keys[p] = search.key
              /\ ~values_timestamps[e.id.idx].tombstone
          BY <4>1, <4>3, <4>4 DEF Fresh, CurPartition
        <5>2. ids[e.id.idx] # None
          BY <1>1, <4>2, <4>4, <5>1 DEF TableInv, RowsInPartitions
        <5> QED
          BY <1>1, <4>2, <4>3, <4>4, <5>1, <5>2 DEF RowStep
      <4> QED
        BY <4>3, <4>4
    <3>3. ASSUME NEW e \in search'.entries
          PROVE  /\ Fresh(search.partition, e.id, e.vector)'
                 /\ Layout # "global" /\ e.id.epoch = values_timestamps'[e.id.idx].epoch =>
                      keys'[search'.partition] = search'.key
      <4>1. PICK p : p = search.partition
        OBVIOUS
      <4>2. Fresh(p, e.id, e.vector)'
        BY <3>1, <3>2, <4>1
      <4>3. search'.partition = p
        BY <3>1, <4>1
      <4>4. Fresh(search.partition, e.id, e.vector)'
        BY <4>2, <4>3 DEF Fresh
      <4> QED
        BY <3>1, <3>2, <4>4
    <3> QED
      BY <3>3 DEF SearchFresh
  <2> QED
    BY <2>1, <2>2
<1> QED
  BY <1>1, <1>2, <1>3, <1>6, <1>7, <1>8 DEF PipelineInv

\* The other steps leave the table alone.
LEMMA TableKept ==
  ASSUME TableInv, UNCHANGED tableVars, operations' \in Seq(Operation)
  PROVE  /\ TableInv'
         /\ \A p, id, vector : Fresh(p, id, vector) => Fresh(p, id, vector)'
         /\ \A op : FreshAdd(op) => FreshAdd(op)'
<1>1. TableInv'
  BY DEF tableVars, TableInv, TypeOK, RowIdsInv, PrimaryQueueOK,
         PartitionQueueOK, QueueOK, RowsInPartitions, RowsIn, KeysOfPartitions
<1>2. \A p, id, vector : Fresh(p, id, vector) => Fresh(p, id, vector)'
  BY DEF tableVars, Fresh, CurPartition
<1> QED
  BY <1>1, <1>2 DEF FreshAdd

LEMMA SendOperationInv ==
  ASSUME PipelineInv, SendOperation
  PROVE  PipelineInv'
<1>1. /\ operations \in Seq(Operation) /\ operations # <<>>
      /\ modify \in Seq(Operation) /\ TableInv
      /\ QueuedFresh(operations) /\ QueuedFresh(modify)
  BY DEF PipelineInv, TableInv, TypeOK, PipelineTypeOK, SendOperation
<1>2. /\ Head(operations) \in Operation /\ Tail(operations) \in Seq(Operation)
      /\ Head(operations) = operations[1] /\ 1 \in DOMAIN operations
      /\ \A n \in DOMAIN Tail(operations) :
           n + 1 \in DOMAIN operations /\ Tail(operations)[n] = operations[n + 1]
  BY <1>1, TakeHead
<1>3. /\ UNCHANGED tableVars /\ UNCHANGED <<partitions, search>>
      /\ operations' = Tail(operations) /\ modify' = Append(modify, Head(operations))
  BY DEF SendOperation
<1>4. /\ TableInv'
      /\ \A p, id, vector : Fresh(p, id, vector) => Fresh(p, id, vector)'
      /\ \A op : FreshAdd(op) => FreshAdd(op)'
  BY <1>1, <1>2, <1>3, TableKept
<1>5. /\ modify' \in Seq(Operation)
      /\ \A n \in DOMAIN modify' :
           \/ modify'[n] = Head(operations)
           \/ n \in DOMAIN modify /\ modify'[n] = modify[n]
  BY <1>1, <1>2, <1>3, AppendElement
<1>6. PipelineTypeOK'
  BY <1>3, <1>5 DEF PipelineInv, PipelineTypeOK
<1>7. ASSUME NEW op, FreshAdd(op) PROVE FreshAdd(op)'
  BY <1>4, <1>7
<1>8. QueuedFresh(operations)'
  <2>1. ASSUME NEW n \in DOMAIN operations' PROVE FreshAdd(operations[n])'
    <3>1. PICK op : op = operations'[n] /\ FreshAdd(op)
      BY <1>1, <1>2, <1>3 DEF QueuedFresh
    <3>2. FreshAdd(op)'
      BY <1>7, <3>1
    <3> QED
      BY <3>1, <3>2 DEF FreshAdd
  <2> QED
    BY <2>1 DEF QueuedFresh, FreshAdd
<1>9. QueuedFresh(modify)'
  <2>1. ASSUME NEW n \in DOMAIN modify' PROVE FreshAdd(modify[n])'
    <3>1. PICK op : op = modify'[n] /\ FreshAdd(op)
      BY <1>1, <1>2, <1>5 DEF QueuedFresh
    <3>2. FreshAdd(op)'
      BY <1>7, <3>1
    <3> QED
      BY <3>1, <3>2 DEF FreshAdd
  <2> QED
    BY <2>1 DEF QueuedFresh, FreshAdd
<1>10. IndexedFresh' /\ SearchFresh'
  BY <1>3 DEF PipelineInv, IndexedFresh, SearchFresh, Fresh, CurPartition, tableVars
<1> QED
  BY <1>4, <1>6, <1>8, <1>9, <1>10 DEF PipelineInv

\* What is known of a message when the index actor takes it off the channel.
LEMMA ReceiveFacts ==
  ASSUME PipelineInv, NEW kinds, Receive(kinds)
  PROVE  LET op == Head(modify)
         IN /\ op \in Operation /\ FreshAdd(op) /\ op.op \in kinds
            /\ op.partition \in IndexPartition
            /\ UNCHANGED <<vars, search>>
            /\ modify' \in Seq(Operation) /\ QueuedFresh(modify)'
<1>1. modify \in Seq(Operation) /\ modify # <<>> /\ QueuedFresh(modify)
  BY DEF PipelineInv, PipelineTypeOK, Receive
<1>2. /\ Head(modify) \in Operation /\ Tail(modify) \in Seq(Operation)
      /\ Head(modify) = modify[1] /\ 1 \in DOMAIN modify
      /\ \A n \in DOMAIN Tail(modify) :
           n + 1 \in DOMAIN modify /\ Tail(modify)[n] = modify[n + 1]
  BY <1>1, TakeHead
<1>3. /\ modify' = Tail(modify) /\ UNCHANGED vars /\ UNCHANGED search
      /\ Head(modify).op \in kinds
  BY DEF Receive
<1>4. QueuedFresh(modify)'
  BY <1>1, <1>2, <1>3 DEF QueuedFresh, FreshAdd, Fresh, CurPartition, vars, tableVars
<1> QED
  BY <1>1, <1>2, <1>3, <1>4 DEF QueuedFresh, Operation, IndexPartition

\* A step of the index actor keeps the invariant when what it leaves in the
\* partitions is fresh.
LEMMA IndexStep ==
  ASSUME PipelineInv, UNCHANGED <<vars, search>>,
         modify' \in Seq(Operation), QueuedFresh(modify)',
         partitions' \in [IndexPartition -> (SUBSET EntryType) \union {None}],
         \A p \in IndexPartition : partitions'[p] # None =>
           \A e \in partitions'[p] : Fresh(p, e.id, e.vector)
  PROVE  PipelineInv'
<1>1. TableInv' /\ SearchFresh' /\ QueuedFresh(operations)' /\ UNCHANGED vars
  BY DEF PipelineInv, vars, tableVars, TableInv, TypeOK, RowIdsInv, PrimaryQueueOK,
         PartitionQueueOK, QueueOK, RowsInPartitions, RowsIn, KeysOfPartitions,
         SearchFresh, QueuedFresh, FreshAdd, Fresh, CurPartition
<1>2. PipelineTypeOK'
  BY DEF PipelineInv, PipelineTypeOK
<1>3. IndexedFresh'
  BY <1>1 DEF IndexedFresh, Fresh, CurPartition, vars, tableVars
<1> QED
  BY <1>1, <1>2, <1>3 DEF PipelineInv

LEMMA ReceiveInv ==
  ASSUME PipelineInv,
         \/ ReceiveAdd \/ RefuseAdd \/ ReceiveRemove \/ FailRemove
         \/ ReceiveRemovePartition
  PROVE  PipelineInv'
<1> DEFINE op == Head(modify)
           q == op.partition
           old == IF partitions[q] = None THEN {} ELSE partitions[q]
<1>1. /\ op \in Operation /\ FreshAdd(op) /\ q \in IndexPartition
      /\ UNCHANGED <<vars, search>>
      /\ modify' \in Seq(Operation) /\ QueuedFresh(modify)'
  BY ReceiveFacts DEF ReceiveAdd, RefuseAdd, ReceiveRemove, FailRemove,
                      ReceiveRemovePartition
<1>2. partitions \in [IndexPartition -> (SUBSET EntryType) \union {None}]
  BY DEF PipelineInv, PipelineTypeOK
<1>3. old \subseteq EntryType /\ \A e \in old : Fresh(q, e.id, e.vector)
  BY <1>1, <1>2 DEF PipelineInv, IndexedFresh
\* What partition op.partition holds after the step.
<1>4. ASSUME NEW content, partitions' = [partitions EXCEPT ![q] = content],
             content = None \/ ( /\ content \subseteq EntryType
                                /\ \A e \in content : Fresh(q, e.id, e.vector))
      PROVE  PipelineInv'
  <2>1. partitions' \in [IndexPartition -> (SUBSET EntryType) \union {None}]
    BY <1>1, <1>2, <1>4
  <2>2. \A p \in IndexPartition : partitions'[p] # None =>
          \A e \in partitions'[p] : Fresh(p, e.id, e.vector)
    BY <1>1, <1>2, <1>4 DEF PipelineInv, IndexedFresh
  <2> QED
    BY <1>1, <2>1, <2>2, IndexStep
<1>5. CASE UNCHANGED partitions
  <2>1. partitions' = [partitions EXCEPT ![q] = partitions[q]]
    BY <1>2, <1>5
  <2> QED
    BY <1>1, <1>2, <1>4, <2>1 DEF PipelineInv, IndexedFresh
<1>6. CASE ReceiveAdd
  <2> DEFINE added == old \union {Entry(op)}
  <2>1. partitions' = [partitions EXCEPT ![q] = added]
    BY <1>6 DEF ReceiveAdd
  <2>2. op.op = "AddVector"
    BY <1>6, ReceiveFacts DEF ReceiveAdd
  <2>3. Entry(op) \in EntryType /\ Entry(op).id = op.id /\ Entry(op).vector = op.vector
    BY <1>1, <2>2 DEF Entry, EntryType, FreshAdd, Operation
  <2>4. Fresh(q, op.id, op.vector)
    BY <1>1, <2>2 DEF FreshAdd
  <2> HIDE DEF op, q, old
  <2>5. added \subseteq EntryType /\ \A e \in added : Fresh(q, e.id, e.vector)
    BY <1>3, <2>3, <2>4
  <2> QED
    BY <1>4, <2>1, <2>5
<1>7. CASE RefuseAdd /\ ~UNCHANGED partitions
  <2>1. partitions' = [partitions EXCEPT ![q] = old]
    BY <1>1, <1>2, <1>7 DEF RefuseAdd
  <2> QED
    BY <1>3, <1>4, <2>1
<1>8. CASE ReceiveRemove
  <2> DEFINE left == {e \in partitions[q] : e.id # op.id}
  <2>1. partitions' = [partitions EXCEPT ![q] = IF @ = None THEN None ELSE left]
    BY <1>8 DEF ReceiveRemove
  <2>2. CASE partitions[q] = None
    <3>1. partitions' = [partitions EXCEPT ![q] = None]
      BY <1>1, <1>2, <2>1, <2>2
    <3> QED
      BY <1>4, <3>1
  <2>3. CASE partitions[q] # None
    <3>1. left \subseteq old
      BY <2>3
    <3>2. partitions' = [partitions EXCEPT ![q] = left]
      BY <1>1, <1>2, <2>1, <2>3
    <3> HIDE DEF left
    <3> QED
      BY <1>3, <1>4, <3>1, <3>2
  <2> QED
    BY <2>2, <2>3
<1>9. CASE ReceiveRemovePartition
  BY <1>4, <1>9 DEF ReceiveRemovePartition
<1>10. CASE FailRemove
  BY <1>5, <1>10 DEF FailRemove
<1> QED
  BY <1>5, <1>6, <1>7, <1>8, <1>9, <1>10

\* A search reads copies that are in the index, from the partition of its key.
LEMMA SearchInv ==
  ASSUME PipelineInv, (\E key \in PartitionKey : StartSearch(key)) \/ FinishSearch
  PROVE  PipelineInv'
<1>1. UNCHANGED <<vars, modify, partitions>>
  BY DEF StartSearch, FinishSearch
<1>2. /\ TableInv' /\ IndexedFresh'
      /\ QueuedFresh(operations)' /\ QueuedFresh(modify)'
  BY <1>1 DEF PipelineInv, vars, tableVars, TableInv, TypeOK, RowIdsInv, PrimaryQueueOK,
         PartitionQueueOK, QueueOK, RowsInPartitions, RowsIn, KeysOfPartitions,
         IndexedFresh, QueuedFresh, FreshAdd, Fresh, CurPartition
<1>3. CASE FinishSearch
  BY <1>1, <1>2, <1>3 DEF FinishSearch, PipelineInv, PipelineTypeOK, SearchFresh
<1>4. ASSUME NEW key \in PartitionKey, StartSearch(key) PROVE PipelineInv'
  <2> DEFINE p == TargetPartition(key)
  <2>1. /\ p # None /\ partitions[p] # None
        /\ search' = [key |-> key, partition |-> p, entries |-> partitions[p]]
    BY <1>4 DEF StartSearch
  <2>2. key # None
    BY TableAssumption
  <2>3. p \in IndexPartition /\ (Layout # "global" => p = map[key])
    BY <2>1, <2>2 DEF TargetPartition, PipelineInv, TableInv, TypeOK, IndexPartition
  <2>4. Layout # "global" => keys[p] = key
    BY <2>1, <2>3 DEF PipelineInv, TableInv, KeysOfPartitions
  <2> HIDE DEF p
  <2>5. partitions[p] \subseteq EntryType /\ \A e \in partitions[p] : Fresh(p, e.id, e.vector)
    BY <2>1, <2>3 DEF PipelineInv, PipelineTypeOK, IndexedFresh
  <2>6. search' \in SearchType
    BY <2>1, <2>3, <2>5 DEF SearchType
  <2>7. SearchFresh'
    <3>1. /\ search'.entries = partitions[p] /\ search'.partition = p
          /\ search'.key = key
      BY <2>1
    <3>2. \A e \in partitions[p] : Fresh(search.partition, e.id, e.vector)'
      BY <1>1, <2>5, <3>1 DEF Fresh, CurPartition, vars, tableVars
    <3>3. Layout # "global" => keys'[search'.partition] = search'.key
      BY <1>1, <2>4, <3>1 DEF vars, tableVars
    <3> QED
      BY <3>1, <3>2, <3>3 DEF SearchFresh
  <2> QED
    BY <1>1, <1>2, <2>6, <2>7 DEF PipelineInv, PipelineTypeOK
<1> QED
  BY <1>3, <1>4

LEMMA PipelineNextInv ==
  PipelineInv /\ [PipelineNext]_allVars => PipelineInv'
<1> SUFFICES ASSUME PipelineInv, [PipelineNext]_allVars PROVE PipelineInv'
  OBVIOUS
<1>1. CASE UNCHANGED allVars
  BY <1>1 DEF allVars, PipelineInv, vars, tableVars, TableInv, TypeOK, RowIdsInv,
         PrimaryQueueOK, PartitionQueueOK, QueueOK, RowsInPartitions, RowsIn,
         KeysOfPartitions, PipelineTypeOK, IndexedFresh, SearchFresh,
         QueuedFresh, FreshAdd, Fresh, CurPartition
<1> QED
  BY <1>1, ProcessRowInv, SendOperationInv, ReceiveInv, SearchInv DEF PipelineNext

-----------------------------------------------------------------------------
(* The theorems.                                                           *)

\* The invariant holds in every state of the pipeline.
THEOREM PipelineInvariant == PipelineSpec => []PipelineInv
<1> QED
  BY PipelineInitInv, PipelineNextInv, PTL DEF PipelineSpec

\* The channel, the partitions of the index and the search in flight hold
\* values of their types: in particular no entry without a vector.
THEOREM PipelineTypeCorrect == PipelineSpec => []PipelineTypeOK
<1>1. PipelineInv => PipelineTypeOK
  BY DEF PipelineInv
<1> QED
  BY <1>1, PipelineInvariant, PTL

\* A search never answers with a deleted row, an old vector or a row of another
\* partition, for any number of keys, any size of the channel, and whatever
\* the index loses, as long as no row changes EpochCount times while a copy
\* of it is around.
THEOREM SoundSearches == PipelineSpec => []SearchSound
<1>1. ASSUME PipelineInv, search # None, NEW e \in search.entries,
             IsValidPrimaryId(e.id), NotLapped(e.id)
      PROVE  IsCurrent(e)
  <2> DEFINE row == values_timestamps[e.id.idx]
  <2>1. search \in SearchType
    BY <1>1 DEF PipelineInv, PipelineTypeOK
  <2>2. e.id \in PrimaryId
    BY <1>1, <2>1 DEF SearchType, EntryType
  <2>3. e.id.idx \in PrimaryIdx /\ e.id.epoch \in Nat
    BY <2>2 DEF PrimaryId
  <2>4. row.epoch \in Nat
    BY <1>1, <2>3 DEF PipelineInv, TableInv, TypeOK
  <2>5. /\ Fresh(search.partition, e.id, e.vector)
        /\ Layout # "global" /\ e.id.epoch = row.epoch =>
             keys[search.partition] = search.key
    BY <1>1 DEF PipelineInv, SearchFresh
  <2>6. /\ e.id.epoch <= row.epoch /\ row.epoch < e.id.epoch + EpochCount
        /\ SameEpoch(row.epoch, e.id.epoch)
    BY <1>1, <2>5 DEF Fresh, IsValidPrimaryId, NotLapped, Row
  <2> HIDE DEF row
  <2>7. row.epoch = e.id.epoch
    BY <2>3, <2>4, <2>6, EpochsApart
  <2>8. /\ ~row.tombstone /\ e.vector = indexed[e.id.idx]
        /\ CurPartition(e.id.idx) = search.partition
    BY <2>5, <2>7 DEF row, Fresh
  <2>9. Layout # "global" =>
          ids[e.id.idx] # None /\ keys[ids[e.id.idx]] = search.key
    BY <1>1, <2>3, <2>5, <2>7, <2>8
       DEF row, CurPartition, PipelineInv, TableInv, RowsInPartitions
  <2> QED
    BY <2>8, <2>9 DEF row, IsCurrent, Row
<1>2. PipelineInv => SearchSound
  BY <1>1 DEF SearchSound, Answer
<1> QED
  BY <1>2, PipelineInvariant, PTL

-----------------------------------------------------------------------------
(* An index that loses nothing.  IndexExact only speaks of drained queues; *)
(* the invariant behind it says what the index will hold once it has       *)
(* applied whatever is queued at the moment.                               *)

Held(p) == IF partitions[p] = None THEN {} ELSE partitions[p]

Adds(op, p, e) == op.op = "AddVector" /\ op.partition = p /\ Entry(op) = e

Clears(op, p, e) ==
  /\ op.op # "AddVector" /\ op.partition = p
  /\ op.op = "RemovePartition" \/ op.id = e.id

\* Partition p has entry e after the operations of q: it had it before, or
\* one of them adds it, and none after that clears it.
Survives(held, q, p, e) ==
  \E n \in 0 .. Len(q) :
    /\ IF n = 0 THEN held ELSE Adds(q[n], p, e)
    /\ \A m \in (n + 1) .. Len(q) : ~Clears(q[m], p, e)

Copy == [id : PrimaryId, vector : Vector \union {None}]

\* A partition that does not exist is not taken for one that does.  TLC cannot
\* evaluate it of a model value, so it is a hypothesis of the theorem.
NoneIsNoPartition == None \notin SUBSET EntryType

\* Whatever is on its way, it leads the index to the rows of the table.
IndexConverges ==
  ~Lossy =>
    \A p \in IndexPartition, e \in Copy :
      Survives(e \in Held(p), modify \o operations, p, e) <=> e \in LiveEntries(p)

\* What one more queued operation changes.
LEMMA SurvivesAppend ==
  ASSUME NEW held \in BOOLEAN, NEW q \in Seq(Operation), NEW op \in Operation,
         NEW p, NEW e
  PROVE  Survives(held, Append(q, op), p, e) <=>
           Adds(op, p, e) \/ (Survives(held, q, p, e) /\ ~Clears(op, p, e))
<1> DEFINE t == Append(q, op)
           l == Len(q)
<1>1. /\ l \in Nat /\ Len(t) = l + 1 /\ t[l + 1] = op
      /\ \A n \in 1 .. l : t[n] = q[n]
  OBVIOUS
<1> HIDE DEF t, l
<1>2. ASSUME Survives(held, t, p, e), ~Adds(op, p, e)
      PROVE  Survives(held, q, p, e) /\ ~Clears(op, p, e)
  <2>1. PICK n \in 0 .. Len(t) :
               /\ IF n = 0 THEN held ELSE Adds(t[n], p, e)
               /\ \A m \in (n + 1) .. Len(t) : ~Clears(t[m], p, e)
    BY <1>2 DEF Survives
  <2>2. n # l + 1
    BY <1>1, <1>2, <2>1
  <2>3. n \in 0 .. l
    BY <1>1, <2>1, <2>2
  <2>4. /\ IF n = 0 THEN held ELSE Adds(q[n], p, e)
        /\ \A m \in (n + 1) .. l : ~Clears(q[m], p, e)
        /\ ~Clears(op, p, e)
    BY <1>1, <2>1, <2>3
  <2> QED
    BY <2>3, <2>4 DEF Survives, l
<1>3. ASSUME Adds(op, p, e) PROVE Survives(held, t, p, e)
  <2>1. l + 1 \in 0 .. Len(t) /\ l + 1 # 0 /\ Adds(t[l + 1], p, e)
    BY <1>1, <1>3
  <2>2. \A m \in (l + 1 + 1) .. Len(t) : ~Clears(t[m], p, e)
    BY <1>1
  <2> QED
    BY <2>1, <2>2 DEF Survives
<1>4. ASSUME Survives(held, q, p, e), ~Clears(op, p, e) PROVE Survives(held, t, p, e)
  <2>1. PICK n \in 0 .. l :
               /\ IF n = 0 THEN held ELSE Adds(q[n], p, e)
               /\ \A m \in (n + 1) .. l : ~Clears(q[m], p, e)
    BY <1>4 DEF Survives, l
  <2>2. /\ n \in 0 .. Len(t)
        /\ IF n = 0 THEN held ELSE Adds(t[n], p, e)
        /\ \A m \in (n + 1) .. Len(t) : ~Clears(t[m], p, e)
    BY <1>1, <1>4, <2>1
  <2> QED
    BY <2>2 DEF Survives
<1> QED
  BY <1>2, <1>3, <1>4 DEF t

\* What applying the first queued operation changes: nothing, in the end.
LEMMA SurvivesHead ==
  ASSUME NEW held \in BOOLEAN, NEW q \in Seq(Operation), q # <<>>, NEW p, NEW e
  PROVE  LET applied == \/ Adds(Head(q), p, e)
                        \/ held /\ ~Clears(Head(q), p, e)
         IN Survives(held, q, p, e) <=> Survives(applied, Tail(q), p, e)
<1> DEFINE t == Tail(q)
           l == Len(q)
           op == Head(q)
           applied == Adds(op, p, e) \/ (held /\ ~Clears(op, p, e))
<1>1. /\ l \in Nat \ {0} /\ Len(t) = l - 1 /\ op = q[1]
      /\ \A n \in 1 .. (l - 1) : t[n] = q[n + 1]
  OBVIOUS
<1> HIDE DEF t, l, op
<1>2. ASSUME Survives(held, q, p, e) PROVE Survives(applied, t, p, e)
  <2>1. PICK n \in 0 .. l :
               /\ IF n = 0 THEN held ELSE Adds(q[n], p, e)
               /\ \A m \in (n + 1) .. l : ~Clears(q[m], p, e)
    BY <1>2 DEF Survives, l
  <2>2. \A m \in 1 .. (l - 1) : m >= n => ~Clears(t[m], p, e)
    BY <1>1, <2>1
  <2>3. CASE n \in {0, 1}
    <3>1. applied
      BY <1>1, <2>1, <2>3
    <3>2. 0 \in 0 .. Len(t) /\ \A m \in (0 + 1) .. Len(t) : ~Clears(t[m], p, e)
      BY <1>1, <2>2, <2>3
    <3> QED
      BY <3>1, <3>2 DEF Survives
  <2>4. CASE n \notin {0, 1}
    <3>1. n - 1 \in 0 .. Len(t) /\ n - 1 # 0 /\ Adds(t[n - 1], p, e)
      BY <1>1, <2>1, <2>4
    <3>2. \A m \in (n - 1 + 1) .. Len(t) : ~Clears(t[m], p, e)
      BY <1>1, <2>1, <2>2, <2>4
    <3> QED
      BY <3>1, <3>2 DEF Survives
  <2> QED
    BY <2>3, <2>4
<1>3. ASSUME Survives(applied, t, p, e) PROVE Survives(held, q, p, e)
  <2>1. PICK n \in 0 .. Len(t) :
               /\ IF n = 0 THEN applied ELSE Adds(t[n], p, e)
               /\ \A m \in (n + 1) .. Len(t) : ~Clears(t[m], p, e)
    BY <1>3 DEF Survives
  <2>2. \A m \in 2 .. l : m >= n + 2 => ~Clears(q[m], p, e)
    <3>1. ASSUME NEW m \in 2 .. l, m >= n + 2 PROVE ~Clears(q[m], p, e)
      <4>1. m - 1 \in (n + 1) .. Len(t) /\ m - 1 \in 1 .. (l - 1) /\ m - 1 + 1 = m
        BY <1>1, <3>1
      <4>2. t[m - 1] = q[m]
        BY <1>1, <4>1
      <4> QED
        BY <2>1, <4>1, <4>2
    <3> QED
      BY <3>1
  <2>3. CASE n = 0 /\ Adds(op, p, e)
    <3>1. /\ 1 \in 0 .. l /\ 1 # 0 /\ Adds(q[1], p, e)
          /\ \A m \in (1 + 1) .. l : ~Clears(q[m], p, e)
      BY <1>1, <2>2, <2>3
    <3> QED
      BY <3>1 DEF Survives, l
  <2>4. CASE n = 0 /\ ~Adds(op, p, e)
    <3>1. held /\ ~Clears(q[1], p, e)
      BY <1>1, <2>1, <2>4
    <3>2. 0 \in 0 .. l /\ \A m \in (0 + 1) .. l : ~Clears(q[m], p, e)
      BY <1>1, <2>2, <2>4, <3>1
    <3> QED
      BY <3>1, <3>2 DEF Survives, l
  <2>5. CASE n # 0
    <3>1. /\ n + 1 \in 0 .. l /\ n + 1 # 0 /\ Adds(q[n + 1], p, e)
          /\ \A m \in (n + 1 + 1) .. l : ~Clears(q[m], p, e)
      BY <1>1, <2>1, <2>2, <2>5
    <3> QED
      BY <3>1 DEF Survives, l
  <2> QED
    BY <2>3, <2>4, <2>5
<1> QED
  BY <1>2, <1>3 DEF t, op

\* Entry e is the row it is a copy of, as the table has it now.
IsLive(p, e) ==
  /\ e.id.epoch = values_timestamps[e.id.idx].epoch
  /\ e.vector = indexed[e.id.idx]
  /\ ~values_timestamps[e.id.idx].tombstone
  /\ CurPartition(e.id.idx) = p

LEMMA LiveRow ==
  ASSUME NEW p, NEW e \in Copy
  PROVE  /\ e \in LiveEntries(p) <=> IsLive(p, e)
         /\ (e \in LiveEntries(p))' <=> IsLive(p, e)'
<1>1. /\ e.id.idx \in PrimaryIdx
      /\ e = [id |-> [idx |-> e.id.idx, epoch |-> e.id.epoch], vector |-> e.vector]
  BY DEF Copy, PrimaryId
<1>2. ASSUME IsLive(p, e) PROVE e \in LiveEntries(p)
  BY <1>1, <1>2 DEF IsLive, LiveEntries
<1>3. ASSUME e \in LiveEntries(p) PROVE IsLive(p, e)
  BY <1>1, <1>3 DEF IsLive, LiveEntries
<1>4. ASSUME IsLive(p, e)' PROVE (e \in LiveEntries(p))'
  BY <1>1, <1>4 DEF IsLive, LiveEntries
<1>5. ASSUME (e \in LiveEntries(p))' PROVE IsLive(p, e)'
  BY <1>1, <1>5 DEF IsLive, LiveEntries
<1> QED
  BY <1>2, <1>3, <1>4, <1>5

\* A partition is dropped only with its last row.
LEMMA LastRow ==
  ASSUME IndexOK, NEW i \in PrimaryIdx, NEW p \in PartitionIdx, ids[i] = p, Empties(p)
  PROVE  \A j \in PrimaryIdx : ids[j] = p => j = i
<1>1. sizes[p] = Cardinality(RowsIn(p)) /\ sizes[p] \in Nat /\ sizes[p] <= 1
  BY DEF IndexOK, IndexTypeOK, RowsInPartitions, Empties
<1>2. IsFiniteSet(RowsIn(p))
  BY RowsOfFinite DEF RowsOf, RowsIn
<1>3. i \in RowsIn(p)
  BY DEF RowsIn
<1>4. /\ IsFiniteSet(RowsIn(p) \ {i})
      /\ Cardinality(RowsIn(p) \ {i}) = Cardinality(RowsIn(p)) - 1
      /\ Cardinality(RowsIn(p) \ {i}) \in Nat
  BY <1>2, <1>3, FS_RemoveElement, FS_CardinalityType
<1>5. Cardinality(RowsIn(p) \ {i}) = 0
  BY <1>1, <1>4
<1>6. RowsIn(p) \ {i} = {}
  BY <1>4, <1>5, FS_EmptySet
<1> QED
  BY <1>6 DEF RowsIn

LEMMA ConcatOne ==
  ASSUME NEW S, NEW q \in Seq(S), NEW op \in S
  PROVE  q \o <<op>> = Append(q, op) /\ Append(q, op) \in Seq(S)
  OBVIOUS

LEMMA ConcatConcat ==
  ASSUME NEW S, NEW q \in Seq(S), NEW s \in Seq(S), NEW t \in Seq(S)
  PROVE  /\ q \o (s \o t) = (q \o s) \o t
         /\ q \o s \in Seq(S) /\ q \o <<>> = q
  OBVIOUS

\* What is known of a copy of another row than i.
Others(i, p, e) == e.id.idx # i /\ IsLive(p, e)

\* Removing the copy of row i leaves the copies of the others.
LEMMA AfterRemoval ==
  ASSUME NEW i \in PrimaryIdx, NEW q \in Seq(Operation), NEW held \in BOOLEAN,
         NEW p, NEW e \in Copy, Survives(held, q, p, e) <=> IsLive(p, e),
         NEW op \in Operation, op.op \in {"RemoveBeforeAdd", "RemoveValue"},
         op.partition = CurPartition(i),
         op.id = [idx |-> i, epoch |-> values_timestamps[i].epoch]
  PROVE  Survives(held, Append(q, op), p, e) <=> Others(i, p, e)
<1>1. ~Adds(op, p, e)
  BY DEF Adds
<1>2. ASSUME e.id.idx # i PROVE ~Clears(op, p, e)
  <2>1. op.id.idx = i
    OBVIOUS
  <2> QED
    BY <1>2, <2>1 DEF Clears
<1>3. ASSUME e.id.idx = i, IsLive(p, e) PROVE Clears(op, p, e)
  <2>1. e.id = [idx |-> i, epoch |-> values_timestamps[i].epoch]
    BY <1>3 DEF IsLive, Copy, PrimaryId
  <2>2. p = CurPartition(i)
    BY <1>3 DEF IsLive
  <2> QED
    BY <2>1, <2>2 DEF Clears
<1> QED
  BY <1>1, <1>2, <1>3, SurvivesAppend DEF Others

\* Dropping the partition of row i with it leaves the copies of the others.
LEMMA AfterDrop ==
  ASSUME IndexOK, NEW i \in PrimaryIdx, NEW cur \in PartitionIdx, ids[i] = cur, Empties(cur),
         NEW q \in Seq(Operation), NEW held \in BOOLEAN,
         NEW p, NEW e \in Copy, Survives(held, q, p, e) <=> Others(i, p, e),
         NEW op \in Operation, op.op = "RemovePartition", op.partition = cur
  PROVE  Survives(held, Append(q, op), p, e) <=> Others(i, p, e)
<1>1. ~Adds(op, p, e)
  BY DEF Adds
<1>2. ASSUME Others(i, p, e) PROVE ~Clears(op, p, e)
  <2>1. e.id.idx \in PrimaryIdx /\ e.id.idx # i /\ ids[e.id.idx] = p
    BY <1>2 DEF Others, IsLive, CurPartition, Copy, PrimaryId, Empties
  <2>2. p # cur
    BY <2>1, LastRow
  <2> QED
    BY <2>2 DEF Clears
<1> QED
  BY <1>1, <1>2, SurvivesAppend

\* Adding the copy of row i makes the copies right again.
LEMMA AfterAdd ==
  ASSUME IndexOK, NEW i \in PrimaryIdx, NEW q \in Seq(Operation), NEW held \in BOOLEAN,
         NEW p, NEW e \in Copy, Survives(held, q, p, e) <=> Others(i, p, e),
         NEW op \in Operation, op.op = "AddVector",
         op.id = [idx |-> i, epoch |-> values_timestamps'[i].epoch],
         op.vector = indexed'[i], op.partition = CurPartition(i)',
         ~values_timestamps'[i].tombstone,
         Others(i, p, e) <=> Others(i, p, e)'
  PROVE  Survives(held, Append(q, op), p, e) <=> IsLive(p, e)'
<1>1. ~Clears(op, p, e)
  BY DEF Clears
<1>2. Survives(held, Append(q, op), p, e) <=> Adds(op, p, e) \/ Others(i, p, e)
  BY <1>1, SurvivesAppend
<1>3. Adds(op, p, e) <=> e.id.idx = i /\ IsLive(p, e)'
  <2>1. Entry(op) = e <=> e.id = op.id /\ e.vector = op.vector
    BY DEF Entry, Copy
  <2>2. e.id = op.id <=> e.id.idx = i /\ e.id.epoch = values_timestamps'[i].epoch
    BY DEF Copy, PrimaryId
  <2> QED
    BY <2>1, <2>2 DEF Adds, IsLive
<1> QED
  BY <1>2, <1>3 DEF Others

\* The other rows are as before when row i changes.
LEMMA OthersKept ==
  ASSUME NEW i \in PrimaryIdx, NEW p, NEW e \in Copy,
         \A j \in PrimaryIdx \ {i} :
           /\ values_timestamps'[j] = values_timestamps[j]
           /\ indexed'[j] = indexed[j] /\ ids'[j] = ids[j]
  PROVE  Others(i, p, e) <=> Others(i, p, e)'
<1>1. e.id.idx \in PrimaryIdx
  BY DEF Copy, PrimaryId
<1> QED
  BY <1>1 DEF Others, IsLive, CurPartition

\* The operations a change of a row asks for lead from the old rows to the new
\* ones, whatever they are queued behind.
LEMMA UpdateIndexConverges ==
  ASSUME IndexOK, NEW i \in PrimaryIdx, values_timestamps[i].epoch < MaxUpdates,
         NEW key \in PartitionKey \union {None}, NEW cell \in Cell(Vector),
         NEW free, PartitionQueueOK(free),
         Layout # "global" /\ cell.value # None => free # <<>>,
         UpdateIndex(i, key, cell, free),
         NEW q \in Seq(Operation), NEW held \in BOOLEAN, NEW p, NEW e \in Copy,
         Survives(held, q, p, e) <=> IsLive(p, e)
  PROVE  Survives(held, q \o operations', p, e) <=> IsLive(p, e)'
<1> DEFINE cur == CurPartition(i)
           target == TargetPartition(key)
           local == Layout # "global"
           v == cell.value
           epoch == values_timestamps[i].epoch
           into == IF target = None THEN Head(free) ELSE target
           Add(r) == Op("AddVector", r, i, epoch + 1, v)
           removal == Op("RemoveBeforeAdd", cur, i, epoch, None)
           deletion == Op("RemoveValue", cur, i, epoch, None)
           drop == Op("RemovePartition", cur, 0, 0, None)
<1>1. IndexOK'
  BY UpdateIndexOK
<1>2. /\ local => cur = ids[i] /\ cur \in PartitionIdx \union {None}
      /\ local /\ key \in PartitionKey => target = map[key]
      /\ ~local => cur = GlobalPartition /\ target = GlobalPartition
  BY TableAssumption DEF CurPartition, TargetPartition, IndexOK, IndexTypeOK
<1>3. /\ cell.ts \in Timestamp /\ epoch \in Nat /\ IndexTypeOK
      /\ ids \in [PrimaryIdx -> PartitionIdx \union {None}]
      /\ indexed \in [PrimaryIdx -> Vector \union {None}]
  BY TableAssumption DEF Cell, Timestamp, IndexOK, IndexTypeOK, VersionType
<1>4. ASSUME cur # None
      PROVE  /\ cur \in PartitionIdx \union {GlobalPartition}
             /\ removal \in Operation /\ deletion \in Operation /\ drop \in Operation
             /\ RemoveBeforeAdd(cur, i) = <<removal>> /\ RemoveValue(cur, i) = <<deletion>>
             /\ RemovePartition(cur) = <<drop>>
  <2>1. cur \in PartitionIdx \union {GlobalPartition}
    BY <1>2, <1>4
  <2>2. epoch \in 0 .. MaxUpdates /\ 0 \in 0 .. MaxUpdates /\ 0 \in PrimaryIdx
    BY <1>3, TableAssumption, IdSets
  <2> HIDE DEF cur, epoch
  <2> QED
    BY <2>1, <2>2 DEF RemoveBeforeAdd, RemoveValue, RemovePartition, Op, Operation,
                      PrimaryId, epoch
<1>5. ASSUME NEW r \in PartitionIdx \union {GlobalPartition}, v \in Vector
      PROVE  /\ Add(r) \in Operation /\ AddVector(r, i, v) = <<Add(r)>>
             /\ Add(r).op = "AddVector" /\ Add(r).vector = v /\ Add(r).partition = r
             /\ Add(r).id = [idx |-> i, epoch |-> epoch + 1]
  <2>1. epoch + 1 \in 0 .. MaxUpdates
    BY <1>3, TableAssumption
  <2> HIDE DEF epoch, v
  <2> QED
    BY <1>5, <2>1 DEF AddVector, Op, Operation, PrimaryId, epoch
\* The removals, when there are any.
<1>6. ASSUME cur # None
      PROVE  /\ Append(q, removal) \in Seq(Operation)
             /\ Append(q, deletion) \in Seq(Operation)
             /\ Survives(held, Append(q, removal), p, e) <=> Others(i, p, e)
             /\ Survives(held, Append(q, deletion), p, e) <=> Others(i, p, e)
  <2>1. removal \in Operation /\ deletion \in Operation
    BY <1>4, <1>6
  <2>2. /\ removal.op = "RemoveBeforeAdd" /\ removal.partition = CurPartition(i)
        /\ removal.id = [idx |-> i, epoch |-> values_timestamps[i].epoch]
        /\ deletion.op = "RemoveValue" /\ deletion.partition = CurPartition(i)
        /\ deletion.id = [idx |-> i, epoch |-> values_timestamps[i].epoch]
    BY DEF Op
  <2> HIDE DEF removal, deletion
  <2> QED
    BY <2>1, <2>2, AfterRemoval, ConcatOne
\* What a change does to row i and to the others.
<1>7. ASSUME NEW dead \in BOOLEAN, SetTimestamp(i, cell.ts, dead),
             \A j \in PrimaryIdx \ {i} : indexed'[j] = indexed[j] /\ ids'[j] = ids[j]
      PROVE  /\ values_timestamps'[i].tombstone = dead
             /\ values_timestamps'[i].epoch = epoch + 1
             /\ Others(i, p, e) <=> Others(i, p, e)'
             /\ dead => (Others(i, p, e) <=> IsLive(p, e)')
  <2>1. /\ values_timestamps'[i].tombstone = dead
        /\ values_timestamps'[i].epoch = epoch + 1
        /\ \A j \in PrimaryIdx \ {i} : values_timestamps'[j] = values_timestamps[j]
    BY <1>3, <1>7, SetTimestampFacts
  <2>2. Others(i, p, e) <=> Others(i, p, e)'
    BY <1>7, <2>1, OthersKept
  <2> QED
    BY <2>1, <2>2 DEF Others, IsLive
\* The add that ends a change to a value.
<1>8. ASSUME SetTimestamp(i, cell.ts, FALSE), indexed' = [indexed EXCEPT ![i] = v],
             \A j \in PrimaryIdx \ {i} : ids'[j] = ids[j], v \in Vector,
             NEW r \in PartitionIdx \union {GlobalPartition}, CurPartition(i)' = r,
             NEW s \in Seq(Operation), Survives(held, s, p, e) <=> Others(i, p, e)
      PROVE  Survives(held, s \o AddVector(r, i, v), p, e) <=> IsLive(p, e)'
  <2>1. indexed'[i] = v /\ \A j \in PrimaryIdx \ {i} : indexed'[j] = indexed[j]
    BY <1>3, <1>8
  <2>2. /\ ~values_timestamps'[i].tombstone
        /\ values_timestamps'[i].epoch = epoch + 1
        /\ Others(i, p, e) <=> Others(i, p, e)'
    BY <1>7, <1>8, <2>1
  <2>3. /\ Add(r) \in Operation /\ AddVector(r, i, v) = <<Add(r)>>
        /\ Add(r).op = "AddVector" /\ Add(r).vector = indexed'[i]
        /\ Add(r).partition = CurPartition(i)'
        /\ Add(r).id = [idx |-> i, epoch |-> values_timestamps'[i].epoch]
    BY <1>5, <1>8, <2>1, <2>2
  <2> HIDE DEF Add, epoch, v
  <2>4. s \o AddVector(r, i, v) = Append(s, Add(r))
    BY <1>8, <2>3, ConcatOne
  <2> QED
    BY <1>8, <2>2, <2>3, <2>4, AfterAdd
\* A row that is deleted already has no copy to survive.
<1>9. ASSUME values_timestamps[i].tombstone
      PROVE  Survives(held, q, p, e) <=> Others(i, p, e)
  BY <1>9 DEF Others, IsLive
<1>10. CASE Skip(free)
  <2>1. operations' = <<>> /\ (IsLive(p, e) <=> IsLive(p, e)')
    BY <1>10 DEF Skip, IsLive, CurPartition
  <2> QED
    BY <2>1, ConcatConcat
<1>11. CASE Touch(i, cell.ts, free) /\ values_timestamps[i].tombstone
  <2>1. /\ operations' = <<>> /\ SetTimestamp(i, cell.ts, TRUE)
        /\ ids' = ids /\ indexed' = indexed
    BY <1>11 DEF Touch
  <2>2. Others(i, p, e) <=> IsLive(p, e)'
    BY <1>7, <2>1
  <2> QED
    BY <1>9, <1>11, <2>1, <2>2, ConcatConcat
<1>12. CASE /\ AddToPartition(i, cell, key, target, free)
            /\ v \in Vector /\ (local => key \in PartitionKey)
            /\ values_timestamps[i].tombstone
  <2>1. /\ operations' = AddVector(into, i, v) /\ SetTimestamp(i, cell.ts, FALSE)
        /\ indexed' = [indexed EXCEPT ![i] = v]
        /\ ids' = IF local THEN [ids EXCEPT ![i] = into] ELSE ids
    BY <1>12 DEF AddToPartition, PartitionFor, TakeId, RowInserted
  <2>2. CurPartition(i)' = into
    BY <1>2, <1>3, <2>1, IdSets DEF CurPartition
  <2>3. \A j \in PrimaryIdx \ {i} : ids'[j] = ids[j]
    BY <1>3, <2>1
  <2>4. into \in PartitionIdx \union {GlobalPartition}
    <3>1. ~values_timestamps'[i].tombstone
      BY <1>3, <2>1, SetTimestampFacts
    <3>2. CASE local
      BY <1>1, <2>1, <2>2, <3>1, <3>2 DEF CurPartition, IndexOK, IndexTypeOK, RowsInPartitions
    <3>3. CASE ~local
      BY <1>2, <3>3, IdSets
    <3> QED
      BY <3>2, <3>3
  <2> HIDE DEF into
  <2> QED
    BY <1>8, <1>9, <1>12, <2>1, <2>2, <2>3, <2>4
<1>13. CASE MoveInsidePartition(i, cell, cur, free) /\ v \in Vector /\ cur # None
  <2>1. /\ operations' = RemoveBeforeAdd(cur, i) \o AddVector(cur, i, v)
        /\ SetTimestamp(i, cell.ts, FALSE)
        /\ indexed' = [indexed EXCEPT ![i] = v] /\ ids' = ids
    BY <1>13 DEF MoveInsidePartition
  <2>2. CurPartition(i)' = cur
    BY <2>1 DEF CurPartition
  <2>3. /\ cur \in PartitionIdx \union {GlobalPartition}
        /\ removal \in Operation /\ RemoveBeforeAdd(cur, i) = <<removal>>
    BY <1>4, <1>13
  <2>4. Add(cur) \in Operation /\ AddVector(cur, i, v) = <<Add(cur)>>
    BY <1>5, <1>13, <2>3
  <2> HIDE DEF cur, removal, Add
  <2>5. q \o operations' = Append(q, removal) \o AddVector(cur, i, v)
    BY <2>1, <2>3, <2>4, ConcatConcat, ConcatOne
  <2> QED
    BY <1>6, <1>8, <1>13, <2>1, <2>2, <2>3, <2>5
<1>14. CASE /\ MoveBetweenPartitions(i, cell, key, cur, target, free)
            /\ v \in Vector /\ local /\ cur # None /\ key \in PartitionKey
  <2> DEFINE dropped == IF Empties(cur) THEN RemovePartition(cur) ELSE <<>>
  <2>1. /\ operations' = (RemoveBeforeAdd(cur, i) \o dropped) \o AddVector(into, i, v)
        /\ SetTimestamp(i, cell.ts, FALSE)
        /\ indexed' = [indexed EXCEPT ![i] = v] /\ ids' = [ids EXCEPT ![i] = into]
    BY <1>14
       DEF MoveBetweenPartitions, PartitionFor, TakeId, RowInserted, ReturnId
  <2>2. CurPartition(i)' = into /\ \A j \in PrimaryIdx \ {i} : ids'[j] = ids[j]
    BY <1>3, <1>14, <2>1 DEF CurPartition
  <2>3. into \in PartitionIdx
    <3>1. ~values_timestamps'[i].tombstone
      BY <1>3, <2>1, SetTimestampFacts
    <3> QED
      BY <1>1, <1>14, <2>2, <3>1 DEF CurPartition, IndexOK, IndexTypeOK, RowsInPartitions
  <2>4. /\ cur \in PartitionIdx /\ ids[i] = cur
        /\ removal \in Operation /\ RemoveBeforeAdd(cur, i) = <<removal>>
        /\ drop \in Operation /\ RemovePartition(cur) = <<drop>>
        /\ drop.op = "RemovePartition" /\ drop.partition = cur
    BY <1>2, <1>4, <1>14 DEF Op
  <2>5. Add(into) \in Operation /\ AddVector(into, i, v) = <<Add(into)>>
    BY <1>5, <1>14, <2>3
  <2>6. /\ Append(q, removal) \in Seq(Operation)
        /\ Survives(held, Append(q, removal), p, e) <=> Others(i, p, e)
    BY <1>6, <1>14
  <2> HIDE DEF cur, into, removal, drop, Add
  <2>7. /\ Append(q, removal) \o dropped \in Seq(Operation)
        /\ Survives(held, Append(q, removal) \o dropped, p, e) <=> Others(i, p, e)
    <3>1. CASE Empties(cur)
      <4>1. Append(q, removal) \o dropped = Append(Append(q, removal), drop)
        BY <2>4, <2>6, <3>1, ConcatOne
      <4>2. Survives(held, Append(Append(q, removal), drop), p, e) <=> Others(i, p, e)
        <5> DEFINE rest == Append(q, removal)
        <5>1. rest \in Seq(Operation) /\ (Survives(held, rest, p, e) <=> Others(i, p, e))
          BY <2>6
        <5> HIDE DEF rest
        <5>2. Survives(held, Append(rest, drop), p, e) <=> Others(i, p, e)
          BY <2>4, <3>1, <5>1, AfterDrop
        <5> QED
          BY <5>2 DEF rest
      <4> QED
        BY <2>4, <2>6, <4>1, <4>2, ConcatOne
    <3>2. CASE ~Empties(cur)
      BY <2>6, <3>2, ConcatConcat
    <3> QED
      BY <3>1, <3>2
  <2>8. dropped \in Seq(Operation)
    BY <2>4
  <2> HIDE DEF dropped
  <2>9. q \o operations' = (Append(q, removal) \o dropped) \o AddVector(into, i, v)
    <3>1. <<removal>> \in Seq(Operation) /\ <<Add(into)>> \in Seq(Operation)
      BY <2>4, <2>5
    <3>2. <<removal>> \o dropped \in Seq(Operation)
      BY <2>8, <3>1, ConcatConcat
    <3>3. q \o operations' = (q \o (<<removal>> \o dropped)) \o <<Add(into)>>
      BY <2>1, <2>4, <2>5, <3>1, <3>2, ConcatConcat
    <3>4. q \o (<<removal>> \o dropped) = (q \o <<removal>>) \o dropped
      BY <2>8, <3>1, ConcatConcat
    <3>5. q \o <<removal>> = Append(q, removal)
      BY <2>4, ConcatOne
    <3> QED
      BY <2>5, <3>3, <3>4, <3>5
  <2> QED
    BY <1>8, <1>14, <2>1, <2>2, <2>3, <2>7, <2>9
<1>15. CASE RemoveFromPartition(i, cell.ts, cur, free) /\ cur # None
  <2> DEFINE dropped == IF Empties(cur) THEN RemovePartition(cur) ELSE <<>>
  <2>1. /\ operations' = RemoveValue(cur, i) \o dropped
        /\ SetTimestamp(i, cell.ts, TRUE)
        /\ indexed' = [indexed EXCEPT ![i] = None]
        /\ ids' = IF local THEN [ids EXCEPT ![i] = None] ELSE ids
    BY <1>15 DEF RemoveFromPartition, ReturnId
  <2>2. \A j \in PrimaryIdx \ {i} : indexed'[j] = indexed[j] /\ ids'[j] = ids[j]
    BY <1>3, <2>1
  <2>3. Others(i, p, e) <=> IsLive(p, e)'
    BY <1>7, <2>1, <2>2
  <2>4. /\ cur \in PartitionIdx \union {GlobalPartition} /\ (local => ids[i] = cur)
        /\ local => cur \in PartitionIdx
        /\ deletion \in Operation /\ RemoveValue(cur, i) = <<deletion>>
        /\ drop \in Operation /\ RemovePartition(cur) = <<drop>>
        /\ drop.op = "RemovePartition" /\ drop.partition = cur
    BY <1>2, <1>4, <1>15 DEF Op
  <2>5. /\ Append(q, deletion) \in Seq(Operation)
        /\ Survives(held, Append(q, deletion), p, e) <=> Others(i, p, e)
    BY <1>6, <1>15
  <2> HIDE DEF cur, deletion, drop
  <2>6. q \o operations' = Append(q, deletion) \o dropped
    <3>1. dropped \in Seq(Operation) /\ <<deletion>> \in Seq(Operation)
      BY <2>4
    <3> HIDE DEF dropped
    <3>2. q \o (<<deletion>> \o dropped) = (q \o <<deletion>>) \o dropped
      BY <3>1, ConcatConcat
    <3>3. q \o <<deletion>> = Append(q, deletion)
      BY <2>4, ConcatOne
    <3> QED
      BY <2>1, <2>4, <3>2, <3>3
  <2>7. CASE Empties(cur)
    <3>1. q \o operations' = Append(Append(q, deletion), drop)
      BY <2>4, <2>5, <2>6, <2>7, ConcatOne
    <3>2. cur \in PartitionIdx /\ ids[i] = cur
      BY <2>4, <2>7 DEF Empties
    <3>3. Survives(held, Append(Append(q, deletion), drop), p, e) <=> Others(i, p, e)
      <4> DEFINE rest == Append(q, deletion)
      <4>1. rest \in Seq(Operation) /\ (Survives(held, rest, p, e) <=> Others(i, p, e))
        BY <2>5
      <4> HIDE DEF rest
      <4>2. Survives(held, Append(rest, drop), p, e) <=> Others(i, p, e)
        BY <2>4, <2>7, <3>2, <4>1, AfterDrop
      <4> QED
        BY <4>2 DEF rest
    <3> QED
      BY <2>3, <3>1, <3>3
  <2>8. CASE ~Empties(cur)
    <3>1. q \o operations' = Append(q, deletion)
      BY <2>5, <2>6, <2>8, ConcatConcat
    <3> QED
      BY <2>3, <2>5, <3>1
  <2> QED
    BY <2>7, <2>8
<1> QED
  BY <1>10, <1>11, <1>12, <1>13, <1>14, <1>15, UpdateIndexCases

\* A call is made when its predecessor's operations are all in the channel.
LEMMA ModifyConverges ==
  ASSUME PipelineInv, IndexConverges, ProcessRow
  PROVE  IndexConverges'
<1> SUFFICES ASSUME ~Lossy, NEW p \in IndexPartition, NEW e \in Copy
             PROVE  Survives((e \in Held(p))', (modify \o operations)', p, e)
                      <=> (e \in LiveEntries(p))'
  BY DEF IndexConverges, Survives
<1> DEFINE held == e \in Held(p)
<1>1. /\ TableInv /\ Modify /\ operations = <<>>
      /\ modify' = modify /\ partitions' = partitions /\ modify \in Seq(Operation)
  BY DEF PipelineInv, PipelineTypeOK, ProcessRow, Modify, Upsert, Delete
<1>2. held \in BOOLEAN /\ (e \in Held(p))' = held
  BY <1>1 DEF Held
<1>3. Survives(held, modify, p, e) <=> IsLive(p, e)
  <2>1. modify \o operations = modify
    BY <1>1, ConcatConcat
  <2>2. Survives(e \in Held(p), modify \o operations, p, e) <=> e \in LiveEntries(p)
    BY DEF IndexConverges
  <2> QED
    BY <2>1, <2>2, LiveRow
<1>4. (modify \o operations)' = modify \o operations'
  BY <1>1
<1> HIDE DEF held
<1>5. CASE UNCHANGED vars
  <2>1. modify \o operations' = modify
    BY <1>1, <1>5, ConcatConcat DEF vars
  <2>2. IsLive(p, e)' <=> IsLive(p, e)
    BY <1>5 DEF vars, tableVars, IsLive, CurPartition
  <2> QED
    BY <1>2, <1>3, <1>4, <2>1, <2>2, LiveRow
<1>6. ASSUME NEW i \in PrimaryIdx, NEW key \in PartitionKey \union {None},
             NEW cell \in Cell(Vector), NEW free,
             values_timestamps[i].epoch < MaxUpdates, PartitionQueueOK(free),
             Layout # "global" /\ cell.value # None => free # <<>>,
             UpdateIndex(i, key, cell, free)
      PROVE  Survives(held, modify \o operations', p, e) <=> IsLive(p, e)'
  BY <1>1, <1>2, <1>3, <1>6, TableInvParts, UpdateIndexConverges
<1> QED
  BY <1>1, <1>2, <1>4, <1>5, <1>6, CallUpdatesIndex, LiveRow

\* Sending an operation does not change what is queued.
LEMMA SendConverges ==
  ASSUME PipelineInv, IndexConverges, SendOperation
  PROVE  IndexConverges'
<1>1. /\ operations \in Seq(Operation) /\ operations # <<>> /\ modify \in Seq(Operation)
      /\ modify' = Append(modify, Head(operations)) /\ operations' = Tail(operations)
      /\ UNCHANGED tableVars /\ partitions' = partitions
  BY DEF PipelineInv, TableInv, TypeOK, PipelineTypeOK, SendOperation
<1>2. \A s, t \in Seq(Operation) :
        t # <<>> => Append(s, Head(t)) \o Tail(t) = s \o t
  OBVIOUS
<1>3. (modify \o operations)' = modify \o operations
  BY <1>1, <1>2
<1>4. \A p : Held(p)' = Held(p) /\ LiveEntries(p)' = LiveEntries(p)
  BY <1>1 DEF Held, LiveEntries, CurPartition, tableVars
<1> QED
  BY <1>3, <1>4 DEF IndexConverges, Survives

\* Applying the first operation of the channel does to each entry what was
\* counted on.
LEMMA ReceiveConverges ==
  ASSUME NoneIsNoPartition, PipelineInv, IndexConverges,
         \/ ReceiveAdd \/ RefuseAdd \/ ReceiveRemove \/ FailRemove
         \/ ReceiveRemovePartition
  PROVE  IndexConverges'
<1> SUFFICES ASSUME ~Lossy, NEW p \in IndexPartition, NEW e \in Copy
             PROVE  Survives((e \in Held(p))', (modify \o operations)', p, e)
                      <=> (e \in LiveEntries(p))'
  BY DEF IndexConverges, Survives
<1> DEFINE op == Head(modify)
           queue == modify \o operations
           held == e \in Held(p)
<1>1. /\ modify \in Seq(Operation) /\ modify # <<>> /\ operations \in Seq(Operation)
      /\ partitions \in [IndexPartition -> (SUBSET EntryType) \union {None}]
      /\ modify' = Tail(modify) /\ UNCHANGED vars
  BY DEF PipelineInv, TableInv, TypeOK, PipelineTypeOK, ReceiveAdd, RefuseAdd,
         ReceiveRemove, FailRemove, ReceiveRemovePartition, Receive
<1>2. op \in Operation /\ op.partition \in IndexPartition /\ None \notin SUBSET EntryType
  <2>1. op \in Operation
    BY <1>1, TakeHead
  <2> HIDE DEF op
  <2> QED
    BY <2>1 DEF NoneIsNoPartition, Operation, IndexPartition
<1>3. /\ queue \in Seq(Operation) /\ queue # <<>> /\ Head(queue) = op
      /\ Tail(queue) = (modify \o operations)'
  <2>1. \A s, t \in Seq(Operation) : s # <<>> =>
          /\ s \o t \in Seq(Operation) /\ s \o t # <<>> /\ Head(s \o t) = Head(s)
          /\ Tail(s \o t) = Tail(s) \o t
    OBVIOUS
  <2>2. (modify \o operations)' = Tail(modify) \o operations
    BY <1>1 DEF vars
  <2> QED
    BY <1>1, <2>1, <2>2
<1>4. (e \in Held(p))' <=> Adds(op, p, e) \/ (held /\ ~Clears(op, p, e))
  <2>1. CASE ReceiveAdd
    <3>1. /\ op.op = "AddVector"
          /\ partitions' = [partitions EXCEPT ![op.partition] =
               (IF @ = None THEN {} ELSE @) \union {Entry(op)}]
      BY <2>1 DEF ReceiveAdd, Receive
    <3>2. Entry(op) \in EntryType
      BY <2>1, <3>1, ReceiveFacts DEF ReceiveAdd, FreshAdd, Entry, EntryType, Operation
    <3> HIDE DEF op
    <3>3. Held(p)' = IF p = op.partition THEN Held(p) \union {Entry(op)} ELSE Held(p)
      BY <1>1, <1>2, <3>1, <3>2 DEF Held
    <3> QED
      BY <3>1, <3>3 DEF Adds, Clears
  <2>2. CASE ReceiveRemove
    <3>1. /\ op.op # "AddVector" /\ op.op # "RemovePartition"
          /\ partitions' = [partitions EXCEPT ![op.partition] =
               IF @ = None THEN None ELSE {x \in @ : x.id # op.id}]
      BY <2>2 DEF ReceiveRemove, Receive
    <3>2. Held(p)' = IF p = op.partition THEN {x \in Held(p) : x.id # op.id} ELSE Held(p)
      BY <1>1, <1>2, <3>1 DEF Held
    <3> QED
      BY <3>1, <3>2 DEF Adds, Clears
  <2>3. CASE ReceiveRemovePartition
    <3>1. /\ op.op = "RemovePartition"
          /\ partitions' = [partitions EXCEPT ![op.partition] = None]
      BY <2>3 DEF ReceiveRemovePartition, Receive
    <3>2. Held(p)' = IF p = op.partition THEN {} ELSE Held(p)
      BY <1>1, <1>2, <3>1 DEF Held
    <3> QED
      BY <3>1, <3>2 DEF Adds, Clears
  <2> QED
    BY <2>1, <2>2, <2>3 DEF RefuseAdd, FailRemove
<1>5. Survives(held, queue, p, e) <=> e \in LiveEntries(p)
  BY DEF IndexConverges
<1>6. (e \in LiveEntries(p))' <=> e \in LiveEntries(p)
  BY <1>1 DEF LiveEntries, CurPartition, vars, tableVars
<1> DEFINE applied == Adds(Head(queue), p, e) \/ (held /\ ~Clears(Head(queue), p, e))
<1>7. Survives(held, queue, p, e) <=> Survives(applied, Tail(queue), p, e)
  <2>1. held \in BOOLEAN
    OBVIOUS
  <2> HIDE DEF queue, held
  <2> QED
    BY <1>3, <2>1, SurvivesHead
<1>8. (e \in Held(p))' <=> applied
  BY <1>3, <1>4
<1> HIDE DEF applied, queue, held
<1>9. Survives((e \in Held(p))', Tail(queue), p, e) <=> Survives(applied, Tail(queue), p, e)
  BY <1>8 DEF Survives
<1> QED
  BY <1>3, <1>5, <1>6, <1>7, <1>9

\* At the start nothing is on its way and the table has no live row.
LEMMA ConvergesInit == PipelineInit => IndexConverges
<1> SUFFICES ASSUME PipelineInit, NEW p \in IndexPartition, NEW e \in Copy
             PROVE  Survives(e \in Held(p), modify \o operations, p, e)
                      <=> e \in LiveEntries(p)
  BY DEF IndexConverges
<1>1. Held(p) = {} /\ modify \o operations = <<>>
  BY DEF PipelineInit, Init, Held
<1>2. ~Survives(e \in Held(p), modify \o operations, p, e)
  BY <1>1 DEF Survives
<1>3. e.id.idx \in PrimaryIdx
  BY DEF Copy, PrimaryId
<1>4. ~IsLive(p, e)
  BY <1>3 DEF PipelineInit, Init, NewIndex, IsLive
<1> QED
  BY <1>2, <1>4, LiveRow

\* Every step keeps what is on its way in line with the rows of the table.
LEMMA ConvergesNext ==
  ASSUME NoneIsNoPartition
  PROVE  PipelineInv /\ IndexConverges /\ [PipelineNext]_allVars => IndexConverges'
<1> SUFFICES ASSUME PipelineInv, IndexConverges, [PipelineNext]_allVars
             PROVE  IndexConverges'
  OBVIOUS
<1>1. CASE UNCHANGED <<vars, modify, partitions>>
  BY <1>1 DEF vars, tableVars, IndexConverges, Survives, Held, LiveEntries, CurPartition
<1> QED
  BY <1>1, ModifyConverges, SendConverges, ReceiveConverges
     DEF PipelineNext, StartSearch, FinishSearch, allVars

\* An index that refuses nothing ends up with exactly the live rows of the
\* table: for any number of keys and partitions, any interleaving of calls,
\* sends and applied operations and any size of the channel, the entries of
\* each partition are the table's rows whenever both queues have drained.
THEOREM ExactIndex ==
  ASSUME NoneIsNoPartition
  PROVE  PipelineSpec => []IndexExact
<1>1. ASSUME PipelineInv, IndexConverges, operations = <<>>, modify = <<>>, ~Lossy,
             NEW p \in IndexPartition
      PROVE  Held(p) = LiveEntries(p)
  <2>1. Held(p) \subseteq Copy
    BY <1>1 DEF PipelineInv, PipelineTypeOK, Held, EntryType, Copy
  <2>2. LiveEntries(p) \subseteq Copy
    BY <1>1 DEF PipelineInv, TableInv, TypeOK, LiveEntries, PrimaryId, Copy
  <2>3. ASSUME NEW e \in Copy PROVE e \in Held(p) <=> e \in LiveEntries(p)
    <3>1. modify \o operations = <<>>
      BY <1>1
    <3>2. Survives(e \in Held(p), <<>>, p, e) <=> e \in LiveEntries(p)
      BY <1>1, <3>1 DEF IndexConverges
    <3>3. Survives(e \in Held(p), <<>>, p, e) <=> e \in Held(p)
      BY DEF Survives
    <3> QED
      BY <3>2, <3>3
  <2> QED
    BY <2>1, <2>2, <2>3
<1>2. PipelineInv /\ IndexConverges => IndexExact
  BY <1>1 DEF IndexExact, Held
<1>3. PipelineSpec => []IndexConverges
  BY ConvergesInit, ConvergesNext, PipelineInvariant, PTL DEF PipelineSpec
<1> QED
  BY <1>2, <1>3, PipelineInvariant, PTL

-----------------------------------------------------------------------------
(* Replication.  For each key, LastTs is the time of the last write in the *)
(* log.  Whatever is on its way to the table, or in it, fits the base      *)
(* table: it is older than the value there or equal to it, and where there *)
(* is none it is older than the last write.  So nothing that arrives late  *)
(* can replace the row that a reader fetches after the last write.  What   *)
(* the last write brings is on its way, in the table, or accounted for: a  *)
(* delete that the table refused, or a fetch that failed in every reader.  *)

\* The log l up to the time t.
LogOK(l, t) ==
  /\ l \in Seq(LogEntry)
  /\ Len(l) = LogCopies * t
  /\ \A n \in DOMAIN l : l[n].ts <= t
  /\ \A m, n \in DOMAIN l : m <= n => l[m].ts <= l[n].ts
  /\ \A m, n \in DOMAIN l : l[m].ts = l[n].ts => l[m] = l[n]
  /\ \A k \in Key : LastTsIn(l, k) \in 0 .. MaxTimestamp /\ IsLastIn(l, k, LastTsIn(l, k))
LogInv == Now \in 0 .. MaxTimestamp /\ LogOK(log, Now)

\* A cell that may arrive for a column that has the cell `cur' in the base
\* table, when the row was last written at ts; and the cell that must arrive.
Fits(cur, cell, ts) ==
  /\ cell.ts <= ts
  /\ IF cur.value = None THEN cell.value # None => cell.ts < ts
     ELSE cell.ts < cur.ts \/ cell = cur
CellIsCurrent(cur, cell, ts) ==
  cell = IF cur.value = None THEN [ts |-> ts, value |-> None] ELSE cur

Tombstone(ts) == [ts |-> ts, value |-> None]

RowFits(k, vector, filtering) ==
  /\ Fits(db[k].vector, vector, LastTs(k))
  /\ FilterValue # {} => Fits(db[k].filtering, filtering, LastTs(k))
RowIsCurrent(k, vector, filtering) ==
  /\ CellIsCurrent(db[k].vector, vector, LastTs(k))
  /\ FilterValue # {} => CellIsCurrent(db[k].filtering, filtering, LastTs(k))

DbRow == [marker : BOOLEAN, vector : Cell(Vector), partition : {NullCell},
          filtering : FilteringCell]
DbInv ==
  /\ db \in [Key -> DbRow]
  /\ \A k \in Key : /\ db[k].vector.ts <= LastTs(k)
                    /\ db[k].filtering.ts <= LastTs(k)
  /\ \A n \in DOMAIN log : log[n].op = "Delete" =>
       RowFits(log[n].key, Tombstone(log[n].ts), Tombstone(log[n].ts))

ReadInv ==
  /\ read \in [Reader -> Nat] /\ last \in [Reader -> LogEntry \union {None}]
  /\ \A r \in Reader : IF read[r] = 0 THEN last[r] = None
                       ELSE read[r] \in DOMAIN log /\ last[r] = log[read[r]]

\* What a row on its way brings.
VectorOf(m) == IF m.op = "Upsert" THEN m.values.vector ELSE Tombstone(m.ts)
FilteringOf(m) == IF m.op = "Upsert" THEN m.values.filtering ELSE Tombstone(m.ts)

MessageOK(m) ==
  \/ /\ m.op = "Upsert"
     /\ m.values.vector \in Cell(Vector) /\ m.values.partition \in PartitionCell
     /\ m.values.filtering \in FilteringCell
  \/ m.op = "Delete" /\ m.ts \in 1 .. MaxTimestamp
MessageFits(m) == MessageOK(m) /\ RowFits(m.key, VectorOf(m), FilteringOf(m))
MessageIsCurrent(m) == RowIsCurrent(m.key, VectorOf(m), FilteringOf(m))

TaskFits(t) ==
  IF t.row = None THEN t.source \in Reader /\ t.ts # 0 /\ t.ts <= LastTs(t.key)
  ELSE t.row.key = t.key /\ MessageFits(t.row)

RowTask == [source : Reader \union {Scan}, key : Key, ts : Timestamp,
            row : RowMessage \union {None}]
WayInv ==
  /\ tasks \subseteq RowTask
  /\ \A t \in tasks : TaskFits(t)
  /\ rows \in Seq(RowMessage)
  /\ \A n \in DOMAIN rows : MessageFits(rows[n])

\* What the table has in a row, and for a key.
RowCell(i) ==
  [ts |-> values_timestamps[i].ts,
   value |-> IF values_timestamps[i].tombstone THEN None ELSE indexed[i]]
VectorIn(k) == IF primary_ids[k] = None THEN NullCell ELSE RowCell(primary_ids[k])
FilteringIn(k) ==
  IF primary_ids[k] = None THEN NullCell ELSE columns[primary_ids[k]].filtering

\* A row is in the partition of its primary key, and a row id that is not given
\* out has never been written.
PlacedInv ==
  /\ Layout = "pk" => \A k \in Key :
       LET i == primary_ids[k]
       IN i # None /\ ids[i] # None => keys[ids[i]] = PkPartition[k]
  /\ \A i \in PrimaryIdx : primary_keys[i] = None =>
       /\ values_timestamps[i].ts = 0 /\ values_timestamps[i].tombstone
       /\ columns[i].filtering = NullCell
  /\ \A i \in PrimaryIdx : values_timestamps[i].tombstone \/ indexed[i] # None

\* The reader still has to act on the last write of k, or fetches the row.
ActedOn(r) == IF last[r] = None THEN 0 ELSE last[r].ts
Pending(r, k) ==
  \/ ActedOn(r) < LastTs(k)
  \/ \E t \in tasks : /\ t.source = r /\ t.key = k
                      /\ IF t.row = None THEN t.ts = LastTs(k)
                         ELSE MessageIsCurrent(t.row)

\* The row of the last write is in the channel or in the table.
Delivered(k) ==
  \/ \E n \in DOMAIN rows : rows[n].key = k /\ MessageIsCurrent(rows[n])
  \/ RowIsCurrent(k, VectorIn(k), FilteringIn(k))

InTableFits == \A k \in Key : RowFits(k, VectorIn(k), FilteringIn(k))
NotMissed ==
  \A k \in Key : LastTs(k) # 0 =>
    \/ Delivered(k) \/ Refused(k)
    \/ \A r \in Reader : Pending(r, k) \/ FetchFailed(r, k)

ReplicationInv ==
  /\ TableInv
  /\ LogInv
  /\ DbInv
  /\ ReadInv
  /\ WayInv
  /\ PlacedInv
  /\ InTableFits
  /\ NotMissed

-----------------------------------------------------------------------------
(* Cells: of two that fit, the table keeps one that fits, and the current  *)
(* one if it is among them.                                                *)

AnyTimed == [ts : Timestamp, value : Vector \union FilterValue \union {None}]

LEMMA CellTimed ==
  ASSUME NEW c, c \in Cell(Vector) \/ c \in FilteringCell
  PROVE  c \in AnyTimed
  BY TableAssumption DEF Cell, FilteringCell, NullCell, AnyTimed, Timestamp

Kept(cur, new, res) == res = Newest(cur, new) \/ (new.ts = cur.ts /\ res = new)

LEMMA KeptFits ==
  ASSUME NEW base \in AnyTimed, NEW cur \in AnyTimed, NEW new \in AnyTimed,
         NEW ts \in Timestamp, NEW res, Kept(cur, new, res),
         Fits(base, cur, ts), Fits(base, new, ts)
  PROVE  /\ Fits(base, res, ts)
         /\ CellIsCurrent(base, cur, ts) \/ CellIsCurrent(base, new, ts) => CellIsCurrent(base, res, ts)
<1>1. /\ cur.ts \in Nat /\ new.ts \in Nat /\ base.ts \in Nat /\ ts \in Nat
      /\ cur = [ts |-> cur.ts, value |-> cur.value] /\ new = [ts |-> new.ts, value |-> new.value]
  BY TableAssumption DEF AnyTimed, Timestamp
<1>2. res = cur \/ res = new
  BY DEF Kept, Newest
<1>3. Fits(base, res, ts)
  BY <1>2
<1>4. CASE base.value = None
  BY <1>1, <1>4, <1>3 DEF Fits, CellIsCurrent, Kept, Newest
<1>5. CASE base.value # None
  BY <1>1, <1>5, <1>3 DEF Fits, CellIsCurrent, Kept, Newest
<1> QED
  BY <1>3, <1>4, <1>5

\* A write that leaves a column alone, sets it or clears it keeps what fits.
LEMMA WriteKeepsFits ==
  ASSUME NEW base \in AnyTimed, NEW new \in AnyTimed, NEW cell \in AnyTimed,
         NEW ts \in Timestamp, NEW later \in Timestamp, ts < later,
         new = base \/ new.ts = later \/ new.value = None,
         Fits(base, cell, ts)
  PROVE  Fits(new, cell, later)
<1>1. cell.ts \in Nat /\ base.ts \in Nat /\ new.ts \in Nat /\ ts \in Nat /\ later \in Nat
  BY TableAssumption DEF AnyTimed, Timestamp
<1> QED
  BY <1>1 DEF Fits

-----------------------------------------------------------------------------
(* The log.                                                                *)

LEMMA EntryTimes ==
  ASSUME NEW l \in Seq(LogEntry), NEW n \in DOMAIN l
  PROVE  /\ l[n] \in LogEntry /\ l[n].key \in Key
         /\ l[n].ts \in Nat /\ l[n].ts >= 1 /\ l[n].ts <= MaxTimestamp
<1>1. l[n] \in LogEntry
  BY SeqElement
<1> QED
  BY <1>1, TableAssumption DEF LogEntry

LEMMA LastTsUnique ==
  ASSUME NEW l \in Seq(LogEntry), NEW k, NEW ts \in 0 .. MaxTimestamp, IsLastIn(l, k, ts)
  PROVE  LastTsIn(l, k) = ts
<1> DEFINE x == LastTsIn(l, k)
<1>1. x \in 0 .. MaxTimestamp /\ IsLastIn(l, k, x)
  BY DEF LastTsIn
<1> HIDE DEF x
<1>2. \A n \in DOMAIN l : l[n].ts \in Nat /\ l[n].ts >= 1
  BY EntryTimes
<1>3. x <= ts
  BY <1>1, <1>2, TableAssumption DEF IsLastIn
<1>4. ts <= x
  BY <1>1, <1>2, TableAssumption DEF IsLastIn
<1> QED
  BY <1>1, <1>3, <1>4, TableAssumption DEF x

LEMMA LogCounts ==
  ASSUME NEW l, NEW t \in Nat, Len(l) = LogCopies * t
  PROVE  Len(l) \div LogCopies = t
  BY ReplicationAssumption

LEMMA SeqConcat ==
  ASSUME NEW S, NEW a1 \in Seq(S), NEW a2 \in Seq(S)
  PROVE  a1 \o a2 \in Seq(S) /\ Len(a1 \o a2) = Len(a1) + Len(a2) /\ Len(a1) \in Nat
  OBVIOUS

\* The log with the copies of a new entry at its end.
Extends(l, l2, e) ==
  /\ l2 \in Seq(LogEntry) /\ Len(l2) = Len(l) + LogCopies
  /\ \A n \in DOMAIN l : n \in DOMAIN l2 /\ l2[n] = l[n]
  /\ \A n \in DOMAIN l2 : n \in DOMAIN l \/ (l2[n] = e /\ n > Len(l))
  /\ \E n \in DOMAIN l2 : l2[n] = e

LEMMA CopiesAppended ==
  ASSUME NEW l \in Seq(LogEntry), NEW e \in LogEntry
  PROVE  Extends(l, l \o [n \in 1 .. LogCopies |-> e], e)
<1> DEFINE c == [n \in 1 .. LogCopies |-> e]
           l2 == l \o c
<1>1. LogCopies \in Nat \ {0}
  BY ReplicationAssumption
<1>2. c \in Seq(LogEntry) /\ Len(c) = LogCopies /\ \A n \in 1 .. LogCopies : c[n] = e
  BY <1>1
<1> HIDE DEF c
<1>3. l2 \in Seq(LogEntry) /\ Len(l2) = Len(l) + LogCopies /\ Len(l) \in Nat
  BY <1>2, SeqConcat
<1>4. ASSUME NEW n \in 1 .. Len(l2)
      PROVE  l2[n] = IF n <= Len(l) THEN l[n] ELSE c[n - Len(l)]
  BY <1>2, <1>3
<1> HIDE DEF l2
<1>5. DOMAIN l = 1 .. Len(l) /\ DOMAIN l2 = 1 .. (Len(l) + LogCopies)
  BY <1>3
<1>6. ASSUME NEW n \in (Len(l) + 1) .. (Len(l) + LogCopies)
      PROVE  l2[n] = e
  <2>1. n - Len(l) \in 1 .. LogCopies /\ n \in 1 .. Len(l2) /\ ~(n <= Len(l))
    BY <1>1, <1>3
  <2> QED
    BY <1>2, <1>4, <2>1
<1>7. \A n \in DOMAIN l : n \in DOMAIN l2 /\ l2[n] = l[n]
  BY <1>1, <1>3, <1>4, <1>5
<1>8. \A n \in DOMAIN l2 : n \in DOMAIN l \/ (l2[n] = e /\ n > Len(l))
  BY <1>1, <1>3, <1>5, <1>6
<1>9. \E n \in DOMAIN l2 : l2[n] = e
  <2>1. Len(l) + 1 \in DOMAIN l2 /\ Len(l) + 1 \in (Len(l) + 1) .. (Len(l) + LogCopies)
    BY <1>1, <1>3, <1>5
  <2> QED
    BY <1>6, <2>1
<1> QED
  BY <1>3, <1>7, <1>8, <1>9 DEF Extends, l2, c

LEMMA LogExtended ==
  ASSUME NEW l, NEW t \in Nat, LogOK(l, t), t < MaxTimestamp,
         NEW e \in LogEntry, e.ts = t + 1, NEW l2, Extends(l, l2, e)
  PROVE  /\ LogOK(l2, t + 1)
         /\ LastTsIn(l2, e.key) = t + 1
         /\ \A k \in Key \ {e.key} : LastTsIn(l2, k) = LastTsIn(l, k)
<1>1. LogCopies \in Nat \ {0} /\ MaxTimestamp \in Nat
  BY ReplicationAssumption, TableAssumption
<1>3. l \in Seq(LogEntry) /\ Len(l) = LogCopies * t /\ Len(l) \in Nat
  BY DEF LogOK
<1>4. l2 \in Seq(LogEntry) /\ Len(l2) = Len(l) + LogCopies
  BY DEF Extends
<1>5. DOMAIN l = 1 .. Len(l) /\ DOMAIN l2 = 1 .. (Len(l) + LogCopies)
  BY <1>3, <1>4
<1>6. Len(l2) = LogCopies * (t + 1)
  BY <1>1, <1>3, <1>4
<1>7. /\ \A n \in DOMAIN l : n \in DOMAIN l2 /\ l2[n] = l[n]
      /\ \A n \in DOMAIN l2 : n \in DOMAIN l \/ (l2[n] = e /\ n > Len(l))
      /\ \E n \in DOMAIN l2 : l2[n] = e
  BY DEF Extends
<1>8. \A n \in DOMAIN l : /\ l[n].ts <= t /\ l[n].ts \in Nat /\ l[n].ts >= 1
                          /\ n \in Nat /\ n <= Len(l)
  BY <1>3, <1>5, EntryTimes DEF LogOK
<1> DEFINE now == t + 1
<1>0. e.ts = now /\ now \in Nat /\ \A x \in Nat : x <= t => x < now
  OBVIOUS
<1> HIDE DEF now
<1>9. \A n \in DOMAIN l2 : l2[n].ts <= t + 1
  <2>1. ASSUME NEW n \in DOMAIN l2 PROVE l2[n].ts <= t + 1
    <3>1. CASE n \in DOMAIN l
      BY <1>7, <1>8, <3>1
    <3>2. CASE l2[n] = e
      <4>1. l2[n].ts = t + 1
        BY <3>2
      <4> QED
        BY <4>1
    <3> QED
      BY <1>7, <3>1, <3>2
  <2> QED
    BY <2>1
<1>10. \A m, n \in DOMAIN l2 : m <= n => l2[m].ts <= l2[n].ts
  <2> SUFFICES ASSUME NEW m \in DOMAIN l2, NEW n \in DOMAIN l2, m <= n
               PROVE  l2[m].ts <= l2[n].ts
    OBVIOUS
  <2>1. CASE n \in DOMAIN l
    <3>1. m \in DOMAIN l
      BY <1>5, <2>1
    <3> QED
      BY <1>7, <2>1, <3>1 DEF LogOK
  <2>2. CASE n \notin DOMAIN l
    BY <1>7, <1>9, <2>2
  <2> QED
    BY <2>1, <2>2
<1>11. \A m, n \in DOMAIN l2 : l2[m].ts = l2[n].ts => l2[m] = l2[n]
  <2> SUFFICES ASSUME NEW m \in DOMAIN l2, NEW n \in DOMAIN l2, l2[m].ts = l2[n].ts
               PROVE  l2[m] = l2[n]
    OBVIOUS
  <2>1. CASE m \in DOMAIN l /\ n \in DOMAIN l
    BY <1>7, <2>1 DEF LogOK
  <2>2. CASE m \in DOMAIN l /\ n \notin DOMAIN l
    BY <1>7, <1>8, <2>2
  <2>3. CASE m \notin DOMAIN l /\ n \in DOMAIN l
    BY <1>7, <1>8, <2>3
  <2>4. CASE m \notin DOMAIN l /\ n \notin DOMAIN l
    BY <1>7, <2>4
  <2> QED
    BY <2>1, <2>2, <2>3, <2>4
<1>12. t + 1 \in 0 .. MaxTimestamp /\ IsLastIn(l2, e.key, t + 1)
  BY <1>1, <1>7, <1>9 DEF IsLastIn
<1>13. LastTsIn(l2, e.key) = t + 1
  BY <1>4, <1>12, LastTsUnique
<1>14. ASSUME NEW k \in Key, k # e.key
       PROVE  LastTsIn(l2, k) = LastTsIn(l, k) /\ IsLastIn(l2, k, LastTsIn(l, k))
  <2>1. LastTsIn(l, k) \in 0 .. MaxTimestamp /\ IsLastIn(l, k, LastTsIn(l, k))
    BY DEF LogOK
  <2>2. IsLastIn(l2, k, LastTsIn(l, k))
    BY <1>7, <1>14, <2>1 DEF IsLastIn
  <2> QED
    BY <1>4, <2>1, <2>2, LastTsUnique
<1>15. \A k \in Key : LastTsIn(l2, k) \in 0 .. MaxTimestamp /\ IsLastIn(l2, k, LastTsIn(l2, k))
  <2> SUFFICES ASSUME NEW k \in Key
               PROVE  LastTsIn(l2, k) \in 0 .. MaxTimestamp /\ IsLastIn(l2, k, LastTsIn(l2, k))
    OBVIOUS
  <2>1. CASE k = e.key
    BY <1>12, <1>13, <2>1
  <2>2. CASE k # e.key
    BY <1>14, <2>2 DEF LogOK
  <2> QED
    BY <2>1, <2>2
<1>16. LogOK(l2, t + 1)
  BY <1>4, <1>6, <1>9, <1>10, <1>11, <1>15 DEF LogOK
<1> QED
  BY <1>7, <1>13, <1>14, <1>16

-----------------------------------------------------------------------------
(* A row of the table takes a cell, where the partition key is given by    *)
(* the primary key or there is none.                                       *)

LEMMA UpdateIndexWork ==
  ASSUME IndexOK, Layout # "nonpk", NEW i \in PrimaryIdx, NEW key \in PartitionKey,
         NEW cell \in Cell(Vector), NEW free, UpdateIndex(i, key, cell, free)
  PROVE  LET cur == CurPartition(i)
         IN \/ Skip(free) /\ cell.ts <= values_timestamps[i].ts
            \/ /\ cell.ts >= values_timestamps[i].ts
               /\ \/ cell.value = None /\ Touch(i, cell.ts, free)
                  \/ cell.value = None /\ RemoveFromPartition(i, cell.ts, cur, free)
                  \/ cell.value # None /\ MoveInsidePartition(i, cell, cur, free)
                  \/ /\ cell.value # None
                     /\ AddToPartition(i, cell, key, TargetPartition(key), free)
<1> DEFINE cur == CurPartition(i)
           found == TargetPartition(key)
           kind == ProcessingPartition(cur, key, found)
           target == IF kind = "Existing" THEN cur ELSE found
           isApplied == IsApplied(values_timestamps[i], cell.ts, kind)
           isCur == values_timestamps[i].tombstone
           work == UpdateWork(kind, isCur, cell.value = None)
<1>1. key # None /\ cell.ts \in Nat /\ values_timestamps[i].ts \in Nat
  BY TableAssumption DEF IndexOK, IndexTypeOK, VersionType, Timestamp, Cell
<1>2. /\ ~isApplied => cell.ts <= values_timestamps[i].ts
      /\ isApplied => cell.ts >= values_timestamps[i].ts
  BY <1>1 DEF IsApplied
<1>3. \/ (~isApplied \/ kind = "Missing") /\ Skip(free)
      \/ /\ isApplied
         /\ \/ work = "None" /\ Touch(i, cell.ts, free)
            \/ work = "Add" /\ AddToPartition(i, cell, key, target, free)
            \/ work = "MoveInside" /\ MoveInsidePartition(i, cell, cur, free)
            \/ work = "MoveBetween" /\ MoveBetweenPartitions(i, cell, key, cur, target, free)
            \/ work = "Remove" /\ RemoveFromPartition(i, cell.ts, cur, free)
  BY DEF UpdateIndex
<1>4. kind = ProcessingPartition(cur, key, found) /\ work = UpdateWork(kind, isCur, cell.value = None)
  OBVIOUS
<1>5. /\ Layout # "global" => (cur = None <=> isCur)
      /\ Layout = "global" => cur = found /\ cur # None
  BY IdSets DEF CurPartition, TargetPartition, IndexOK, RowsInPartitions, IndexTypeOK, VersionType
<1>6. target = IF kind = "Existing" THEN cur ELSE found
  OBVIOUS
<1> HIDE DEF cur, found, kind, target, isApplied, isCur, work
<1>7. /\ kind \in {"Existing", "New", "AddToExisting"}
      /\ kind = "Existing" => cur # None
  BY <1>1, <1>4, <1>5 DEF ProcessingPartition
<1>8. IF cell.value = None THEN work \in {"None", "Remove"} ELSE work \in {"Add", "MoveInside"}
  BY <1>4, <1>7, Zenon DEF UpdateWork
<1>9. work = "Add" => target = found
  <2>1. CASE Layout = "global"
    BY <1>5, <1>6, <2>1
  <2>2. CASE Layout # "global"
    <3>1. kind = "Existing" => work # "Add"
      BY <1>4, <1>5, <1>7, <2>2, Zenon DEF UpdateWork
    <3> QED
      BY <1>6, <3>1
  <2> QED
    BY <2>1, <2>2
<1>10. CASE Skip(free) /\ (~isApplied \/ kind = "Missing")
  BY <1>2, <1>7, <1>10
<1>11. CASE /\ isApplied
            /\ \/ work = "None" /\ Touch(i, cell.ts, free)
               \/ work = "Add" /\ AddToPartition(i, cell, key, target, free)
               \/ work = "MoveInside" /\ MoveInsidePartition(i, cell, cur, free)
               \/ work = "MoveBetween" /\ MoveBetweenPartitions(i, cell, key, cur, target, free)
               \/ work = "Remove" /\ RemoveFromPartition(i, cell.ts, cur, free)
  BY <1>2, <1>8, <1>9, <1>11 DEF cur, found
<1> QED
  BY <1>3, <1>10, <1>11

LEMMA UpdateIndexCell ==
  ASSUME IndexOK, Layout # "nonpk", NEW i \in PrimaryIdx, NEW key \in PartitionKey,
         NEW cell \in Cell(Vector), NEW free, PartitionQueueOK(free),
         Layout # "global" /\ cell.value # None => free # <<>>,
         UpdateIndex(i, key, cell, free)
  PROVE  /\ Kept(RowCell(i), cell, RowCell(i)')
         /\ \A j \in PrimaryIdx \ {i} :
              /\ values_timestamps'[j] = values_timestamps[j]
              /\ indexed'[j] = indexed[j] /\ ids'[j] = ids[j]
              /\ ids[j] # None => keys'[ids[j]] = keys[ids[j]]
         /\ \/ values_timestamps'[i].tombstone \/ indexed'[i] # None
            \/ UNCHANGED <<values_timestamps, indexed>>
         /\ Layout = "pk" /\ ids'[i] # None =>
              \/ keys'[ids'[i]] = key
              \/ ids[i] # None /\ keys'[ids'[i]] = keys[ids[i]]
<1> DEFINE cur == CurPartition(i)
           found == TargetPartition(key)
<1>1. /\ values_timestamps \in [PrimaryIdx -> VersionType]
      /\ ids \in [PrimaryIdx -> PartitionIdx \union {None}]
      /\ keys \in [PartitionIdx -> PartitionKey \union {None}]
      /\ indexed \in [PrimaryIdx -> Vector \union {None}]
  BY DEF IndexOK, IndexTypeOK
<1>2. /\ cell.ts \in Nat /\ values_timestamps[i].ts \in Nat /\ key # None
      /\ cell = [ts |-> cell.ts, value |-> cell.value]
  BY <1>1, TableAssumption DEF VersionType, Timestamp, Cell
<1>3. \A j \in PrimaryIdx : RowStep(j)
  BY UpdateIndexAdvances
<1>4. CASE Skip(free) /\ cell.ts <= values_timestamps[i].ts
  <2>1. UNCHANGED <<values_timestamps, map, keys, ids, sizes, indexed>>
    BY <1>4 DEF Skip
  <2>2. Kept(RowCell(i), cell, RowCell(i)')
    BY <1>2, <1>4, <2>1 DEF RowCell, Kept, Newest
  <2> QED
    BY <2>1, <2>2
<1> HIDE DEF cur, found
<1>5. ASSUME cell.ts >= values_timestamps[i].ts, NEW dead \in BOOLEAN, SetTimestamp(i, cell.ts, dead),
             IF dead THEN cell.value = None ELSE indexed' = [indexed EXCEPT ![i] = cell.value]
      PROVE  /\ Kept(RowCell(i), cell, RowCell(i)')
             /\ \A j \in PrimaryIdx \ {i} : values_timestamps'[j] = values_timestamps[j]
             /\ cell.value # None \/ dead => values_timestamps'[i].tombstone \/ indexed'[i] # None
  <2>1. /\ values_timestamps'[i].ts = cell.ts /\ values_timestamps'[i].tombstone = dead
        /\ \A j \in PrimaryIdx \ {i} : values_timestamps'[j] = values_timestamps[j]
    BY <1>1, <1>5 DEF SetTimestamp, VersionType
  <2>2. RowCell(i)' = cell
    BY <1>1, <1>2, <1>5, <2>1 DEF RowCell
  <2> QED
    BY <1>1, <1>2, <1>5, <2>1, <2>2 DEF Kept, Newest, RowCell
<1>6. ASSUME NEW j \in PrimaryIdx, values_timestamps'[j] = values_timestamps[j]
      PROVE  /\ indexed'[j] = indexed[j] /\ ids'[j] = ids[j]
             /\ ids[j] # None => keys'[ids[j]] = keys[ids[j]]
  BY <1>3, <1>6 DEF RowStep
<1>7. CASE /\ cell.ts >= values_timestamps[i].ts
           /\ \/ cell.value = None /\ Touch(i, cell.ts, free)
              \/ cell.value # None /\ MoveInsidePartition(i, cell, cur, free)
  <2>1. UNCHANGED <<ids, keys>>
    BY <1>7 DEF Touch, MoveInsidePartition
  <2> QED
    BY <1>5, <1>6, <1>7, <2>1 DEF Touch, MoveInsidePartition
<1>8. CASE /\ cell.ts >= values_timestamps[i].ts
           /\ cell.value = None /\ RemoveFromPartition(i, cell.ts, cur, free)
  <2>1. Layout = "pk" => ids'[i] = None
    BY <1>1, <1>8 DEF RemoveFromPartition
  <2> QED
    BY <1>5, <1>6, <1>8, <2>1 DEF RemoveFromPartition
<1>9. CASE /\ cell.ts >= values_timestamps[i].ts
           /\ cell.value # None /\ AddToPartition(i, cell, key, found, free)
  <2>1. ASSUME Layout = "pk" PROVE ids'[i] # None => keys'[ids'[i]] = key
    <3>1. found = map[key]
      BY <1>2, <2>1 DEF found, TargetPartition
    <3>2. /\ ids'[i] = IF map[key] = None THEN Head(free) ELSE map[key]
          /\ keys' = IF map[key] = None THEN [keys EXCEPT ![Head(free)] = key] ELSE keys
      BY <1>1, <1>9, <2>1, <3>1 DEF AddToPartition, PartitionFor
    <3>3. CASE map[key] = None
      <4>1. Head(free) \in PartitionIdx
        BY <1>9, <2>1 DEF PartitionQueueOK, QueueOK
      <4> QED
        BY <1>1, <3>2, <3>3, <4>1
    <3>4. CASE map[key] # None
      BY <2>1, <3>2, <3>4 DEF IndexOK, KeysOfPartitions
    <3> QED
      BY <3>3, <3>4
  <2> QED
    BY <1>5, <1>6, <1>9, <2>1 DEF AddToPartition
<1> QED
  BY <1>4, <1>7, <1>8, <1>9, UpdateIndexWork DEF cur, found

\* What a call of the table does to the rows of the keys.
RowTaken(k, vector, filtering) ==
  /\ Kept(VectorIn(k), vector, VectorIn(k)')
  /\ FilterValue # {} => FilteringIn(k)' = Newest(FilteringIn(k), filtering)
  /\ \A j \in Key \ {k} : VectorIn(j)' = VectorIn(j) /\ FilteringIn(j)' = FilteringIn(j)

LEMMA RowTakes ==
  ASSUME TableInv, PlacedInv, Layout # "nonpk", NEW k \in Key,
         NEW free, PrimaryQueueOK(free), primary_ids[k] = None => free # <<>>,
         AddPrimaryKey(k, free), NEW vector \in Cell(Vector), NEW filtering,
         NEW pfree, PartitionQueueOK(pfree),
         Layout # "global" /\ vector.value # None => pfree # <<>>,
         NEW i, i = RowId(k, free), UpdateIndex(i, PkPartition[k], vector, pfree),
         \A j \in PrimaryIdx \ {i} : columns'[j] = columns[j],
         FilterValue # {} => columns'[i].filtering = Newest(columns[i].filtering, filtering)
  PROVE  RowTaken(k, vector, filtering) /\ PlacedInv'
<1> DEFINE key == PkPartition[k]
<1>1. /\ RowIdsTypeOK /\ RowIdsAgree /\ IndexOK
  BY TableInvParts
<1>2. /\ i \in PrimaryIdx /\ primary_keys[i] \in {k, None}
      /\ primary_ids[k] = None => primary_keys[i] = None
      /\ \A j \in PrimaryIdx : primary_keys'[j] = None => primary_keys[j] = None /\ j # i
  BY <1>1, AddPrimaryKeyFacts
<1>3. key \in PartitionKey
  BY TableAssumption
<1>4. /\ primary_ids'[k] = i /\ i # None /\ (primary_ids[k] # None => i = primary_ids[k])
      /\ \A j \in Key \ {k} : primary_ids'[j] = primary_ids[j]
  BY <1>1, <1>2, IdSets DEF AddPrimaryKey, RowId, RowIdsTypeOK
<1>5. \A j \in Key \ {k} : primary_ids[j] # None =>
        primary_ids[j] \in PrimaryIdx /\ primary_ids[j] # i
  BY <1>1, <1>2, TableAssumption DEF RowIdsTypeOK, RowIdsAgree
<1> HIDE DEF key
<1>6. /\ Kept(RowCell(i), vector, RowCell(i)')
      /\ \A j \in PrimaryIdx \ {i} :
           /\ values_timestamps'[j] = values_timestamps[j]
           /\ indexed'[j] = indexed[j] /\ ids'[j] = ids[j]
           /\ ids[j] # None => keys'[ids[j]] = keys[ids[j]]
      /\ \/ values_timestamps'[i].tombstone \/ indexed'[i] # None
         \/ UNCHANGED <<values_timestamps, indexed>>
      /\ Layout = "pk" /\ ids'[i] # None =>
           \/ keys'[ids'[i]] = key
           \/ ids[i] # None /\ keys'[ids'[i]] = keys[ids[i]]
  BY <1>1, <1>2, <1>3, UpdateIndexCell DEF key
<1>7. primary_ids[k] = None => RowCell(i) = NullCell /\ columns[i].filtering = NullCell
  BY <1>2 DEF PlacedInv, RowCell, NullCell
<1>8. VectorIn(k) = RowCell(i) /\ FilteringIn(k) = columns[i].filtering
  BY <1>4, <1>7 DEF VectorIn, FilteringIn
<1>9. VectorIn(k)' = RowCell(i)' /\ FilteringIn(k)' = columns'[i].filtering
  BY <1>2, <1>4, IdSets DEF VectorIn, FilteringIn, RowCell
<1>10. ASSUME NEW j \in Key \ {k}
       PROVE  VectorIn(j)' = VectorIn(j) /\ FilteringIn(j)' = FilteringIn(j)
  <2>1. primary_ids'[j] = primary_ids[j]
    BY <1>4
  <2>2. CASE primary_ids[j] = None
    BY <2>1, <2>2 DEF VectorIn, FilteringIn
  <2>3. CASE primary_ids[j] # None
    <3>1. /\ values_timestamps'[primary_ids[j]] = values_timestamps[primary_ids[j]]
          /\ indexed'[primary_ids[j]] = indexed[primary_ids[j]]
          /\ columns'[primary_ids[j]] = columns[primary_ids[j]]
      BY <1>5, <1>6, <2>3
    <3> QED
      BY <2>1, <2>3, <3>1 DEF VectorIn, FilteringIn, RowCell
  <2> QED
    BY <2>2, <2>3
<1>11. RowTaken(k, vector, filtering)
  BY <1>6, <1>8, <1>9, <1>10 DEF RowTaken
<1>12. ASSUME Layout = "pk", NEW j \in Key, primary_ids'[j] # None, ids'[primary_ids'[j]] # None
       PROVE  keys'[ids'[primary_ids'[j]]] = PkPartition[j]
  <2>1. CASE j # k
    <3>1. /\ primary_ids'[j] = primary_ids[j] /\ primary_ids[j] # None
          /\ primary_ids[j] \in PrimaryIdx \ {i}
      BY <1>4, <1>5, <1>12, <2>1
    <3> QED
      BY <1>6, <1>12, <2>1, <3>1 DEF PlacedInv
  <2>2. CASE j = k
    <3>1. CASE keys'[ids'[i]] = key
      BY <1>4, <2>2, <3>1 DEF key
    <3>2. CASE ids[i] # None /\ keys'[ids'[i]] = keys[ids[i]]
      <4>1. primary_ids[k] # None
        <5>1. ~values_timestamps[i].tombstone
          BY <1>1, <1>2, <1>12, <3>2 DEF IndexOK, RowsInPartitions
        <5> QED
          BY <1>2, <5>1 DEF PlacedInv
      <4> QED
        BY <1>4, <1>12, <2>2, <3>2, <4>1 DEF PlacedInv
    <3> QED
      BY <1>4, <1>6, <1>12, <2>2, <3>1, <3>2
  <2> QED
    BY <2>1, <2>2
<1>13. \A j \in PrimaryIdx : primary_keys'[j] = None =>
         /\ values_timestamps'[j].ts = 0 /\ values_timestamps'[j].tombstone
         /\ columns'[j].filtering = NullCell
  BY <1>2, <1>6 DEF PlacedInv
<1>14. \A j \in PrimaryIdx : values_timestamps'[j].tombstone \/ indexed'[j] # None
  BY <1>6 DEF PlacedInv
<1>15. PlacedInv'
  BY <1>12, <1>13, <1>14 DEF PlacedInv
<1> QED
  BY <1>11, <1>15

LEMMA UpsertTakes ==
  ASSUME TableInv, PlacedInv, Layout # "nonpk", NEW k \in Key, NEW cell \in Cell(Vector),
         NEW partition \in PartitionCell, NEW filtering \in FilteringCell,
         Upsert(k, cell, partition, filtering)
  PROVE  RowTaken(k, cell, filtering) /\ PlacedInv'
<1> DEFINE free == ReservedPrimaryIds
           i == RowId(k, free)
           column == Newest(columns[i].partition, partition)
<1>1. TypeOK /\ RowIdsInv /\ PartitionQueueOK(free_ids)
  BY DEF TableInv
<1>2. PrimaryQueueOK(free) /\ free # <<>>
  BY <1>1, PrimaryReservation
<1>3. /\ AddPrimaryKey(k, free)
      /\ columns' = [columns EXCEPT ![i] =
           [partition |-> column, filtering |-> Newest(@.filtering, filtering)]]
      /\ UpdateIndex(i, PkPartition[k], cell, ReservedPartitionIds)
  BY DEF Upsert, PartitionKeyOf
<1>4. /\ PartitionQueueOK(ReservedPartitionIds)
      /\ Layout # "global" => ReservedPartitionIds # <<>>
  BY <1>1, PartitionReservation
<1>5. i \in PrimaryIdx
  BY <1>2, <1>3, AddPrimaryKeyFacts, TableInvParts
<1> HIDE DEF free
<1>6. /\ \A j \in PrimaryIdx \ {i} : columns'[j] = columns[j]
      /\ columns'[i].filtering = Newest(columns[i].filtering, filtering)
  BY <1>1, <1>3, <1>5 DEF TypeOK
<1>7. i = RowId(k, free)
  OBVIOUS
<1> HIDE DEF i
<1> QED
  BY <1>2, <1>3, <1>4, <1>6, <1>7, RowTakes

LEMMA DeleteTakes ==
  ASSUME TableInv, PlacedInv, Layout # "nonpk", NEW k \in Key, NEW ts \in 1 .. MaxTimestamp,
         Delete(k, ts), ~(primary_ids[k] = None /\ free_primary_ids = <<>>)
  PROVE  RowTaken(k, Tombstone(ts), Tombstone(ts)) /\ PlacedInv'
<1> DEFINE free == free_primary_ids
           i == RowId(k, free)
           cell == Tombstone(ts)
<1>1. TypeOK /\ RowIdsInv /\ PartitionQueueOK(free_ids) /\ PrimaryQueueOK(free)
  BY DEF TableInv, RowIdsInv
<1>2. /\ AddPrimaryKey(k, free)
      /\ columns' = IF FilterValue = {} THEN columns
                    ELSE [columns EXCEPT ![i] =
                            [partition |-> @.partition,
                             filtering |-> Newest(@.filtering, cell)]]
      /\ UpdateIndex(i, PkPartition[k], cell, free_ids)
  BY DEF Delete, PartitionKeyOf, Tombstone
<1>3. cell \in Cell(Vector) /\ cell.value = None
  BY DEF Cell, Tombstone
<1>4. i \in PrimaryIdx
  BY <1>1, <1>2, AddPrimaryKeyFacts, TableInvParts
<1> HIDE DEF cell
<1>5. /\ \A j \in PrimaryIdx \ {i} : columns'[j] = columns[j]
      /\ FilterValue # {} => columns'[i].filtering = Newest(columns[i].filtering, cell)
  BY <1>1, <1>2, <1>4 DEF TypeOK
<1>6. i = RowId(k, free)
  OBVIOUS
<1> HIDE DEF i
<1>7. RowTaken(k, cell, cell) /\ PlacedInv'
  BY <1>1, <1>2, <1>3, <1>5, <1>6, RowTakes
<1> QED
  BY <1>7 DEF cell

-----------------------------------------------------------------------------
(* What depends on the base table and its log only.                        *)

LEMMA BaseFacts ==
  ASSUME LogInv, DbInv, NEW k \in Key
  PROVE  /\ LastTs(k) \in Timestamp /\ IsLastIn(log, k, LastTs(k))
         /\ db[k] \in DbRow /\ db[k].vector \in Cell(Vector) /\ db[k].filtering \in FilteringCell
         /\ db[k].vector \in AnyTimed /\ db[k].filtering \in AnyTimed
         /\ db[k].vector.ts <= LastTs(k) /\ db[k].filtering.ts <= LastTs(k)
<1>1. db[k] \in DbRow
  BY DEF DbInv
<1>2. db[k].vector \in Cell(Vector) /\ db[k].filtering \in FilteringCell
  BY <1>1 DEF DbRow
<1> QED
  BY <1>1, <1>2, CellTimed DEF LogInv, LogOK, LastTs, DbInv, Timestamp

LEMMA BaseUnchanged ==
  ASSUME UNCHANGED <<db, log>>
  PROVE  /\ LogInv' <=> LogInv
         /\ DbInv' <=> DbInv
         /\ \A k : LastTs(k)' = LastTs(k)
         /\ \A k, v, f : /\ RowFits(k, v, f)' <=> RowFits(k, v, f)
                         /\ RowIsCurrent(k, v, f)' <=> RowIsCurrent(k, v, f)
         /\ \A m : /\ MessageFits(m)' <=> MessageFits(m)
                   /\ MessageIsCurrent(m)' <=> MessageIsCurrent(m)
         /\ \A t : TaskFits(t)' <=> TaskFits(t)
         /\ refused \subseteq refused' => \A k : Refused(k) => Refused(k)'
         /\ failures \subseteq failures' => \A r, k : FetchFailed(r, k) => FetchFailed(r, k)'
<1>1. \A k : LastTs(k)' = LastTs(k)
  BY DEF LastTs
<1>2. \A k, v, f : /\ RowFits(k, v, f)' <=> RowFits(k, v, f)
                   /\ RowIsCurrent(k, v, f)' <=> RowIsCurrent(k, v, f)
  BY <1>1 DEF RowFits, RowIsCurrent
<1>3. \A m : /\ MessageFits(m)' <=> MessageFits(m)
             /\ MessageIsCurrent(m)' <=> MessageIsCurrent(m)
  BY <1>2 DEF MessageFits, MessageIsCurrent
<1>4. \A t : TaskFits(t)' <=> TaskFits(t)
  BY <1>1, <1>3 DEF TaskFits
<1>5. LogInv' <=> LogInv
  BY DEF LogInv, LogOK, Now
<1>6. DbInv' <=> DbInv
  BY <1>1, <1>2 DEF DbInv
<1>7. /\ refused \subseteq refused' => \A k : Refused(k) => Refused(k)'
      /\ failures \subseteq failures' => \A r, k : FetchFailed(r, k) => FetchFailed(r, k)'
  BY <1>1 DEF Refused, FetchFailed
<1> QED
  BY <1>1, <1>2, <1>3, <1>4, <1>5, <1>6, <1>7

\* The cells of a message are typed.
LEMMA MessageCells ==
  ASSUME NEW m, MessageOK(m)
  PROVE  /\ VectorOf(m) \in Cell(Vector) /\ VectorOf(m) \in AnyTimed
         /\ FilterValue # {} => FilteringOf(m) \in FilteringCell /\ FilteringOf(m) \in AnyTimed
<1>1. CASE m.op = "Upsert" /\ m.values.vector \in Cell(Vector) /\ m.values.filtering \in FilteringCell
  BY <1>1, CellTimed DEF VectorOf, FilteringOf
<1>2. CASE m.op = "Delete" /\ m.ts \in 1 .. MaxTimestamp
  <2>1. /\ Tombstone(m.ts) \in Cell(Vector)
        /\ FilterValue # {} => Tombstone(m.ts) \in FilteringCell
    BY <1>2 DEF Tombstone, Cell, FilteringCell
  <2>2. VectorOf(m) = Tombstone(m.ts) /\ FilteringOf(m) = Tombstone(m.ts)
    BY <1>2 DEF VectorOf, FilteringOf
  <2> QED
    BY <2>1, <2>2, CellTimed
<1> QED
  BY <1>1, <1>2 DEF MessageOK

\* What the table has is typed.
LEMMA TableCells ==
  ASSUME TableInv, NEW k \in Key
  PROVE  VectorIn(k) \in AnyTimed /\ FilteringIn(k) \in FilteringCell /\ FilteringIn(k) \in AnyTimed
<1>1. NullCell \in AnyTimed /\ NullCell \in FilteringCell
  BY TableAssumption DEF NullCell, AnyTimed, Timestamp, FilteringCell, Cell
<1>2. ASSUME primary_ids[k] # None
      PROVE  /\ primary_ids[k] \in PrimaryIdx
             /\ values_timestamps[primary_ids[k]].ts \in Timestamp
             /\ indexed[primary_ids[k]] \in Vector \union {None}
             /\ columns[primary_ids[k]].filtering \in FilteringCell
  BY <1>2 DEF TableInv, TypeOK
<1>3. primary_ids[k] # None => RowCell(primary_ids[k]) \in AnyTimed
  BY <1>2 DEF RowCell, AnyTimed
<1>4. FilteringIn(k) \in FilteringCell
  BY <1>1, <1>2 DEF FilteringIn
<1> QED
  BY <1>1, <1>3, <1>4, CellTimed DEF VectorIn

LEMMA ParsedCell ==
  ASSUME NEW S, NEW cell \in Cell(S), NEW ts \in Timestamp, NEW last_ts \in Timestamp,
         ts <= last_ts, cell.ts <= last_ts, NEW new,
         new = IF cell.value = None THEN Tombstone(ts) ELSE cell
  PROVE  /\ new \in Cell(S)
         /\ Fits(cell, new, last_ts)
         /\ ts = last_ts => CellIsCurrent(cell, new, last_ts)
<1>1. ts \in Nat /\ last_ts \in Nat /\ (ts = 0 \/ ts \in 1 .. MaxTimestamp)
  BY TableAssumption DEF Timestamp
<1>2. new \in Cell(S)
  BY <1>1 DEF Cell, Tombstone
<1> QED
  BY <1>1, <1>2 DEF Fits, CellIsCurrent, Tombstone

\* A fetched row fits, and it is the current one if the event was the last write.
LEMMA FetchedFits ==
  ASSUME LogInv, DbInv, Layout # "nonpk", NEW k \in Key, NEW ts \in Timestamp,
         ts <= LastTs(k), ts # 0 \/ RowExists(db[k])
  PROVE  /\ Fetched(k, ts) \in RowMessage /\ Fetched(k, ts) # None /\ Fetched(k, ts).key = k
         /\ MessageFits(Fetched(k, ts))
         /\ ts = LastTs(k) => MessageIsCurrent(Fetched(k, ts))
<1> DEFINE row == db[k]
           v == IF row.vector.value = None THEN Tombstone(ts) ELSE row.vector
           f == IF row.filtering.value = None THEN Tombstone(ts) ELSE row.filtering
           m == Fetched(k, ts)
           p == ParseValues(row, ts)
<1>1. /\ LastTs(k) \in Timestamp /\ row \in DbRow
      /\ row.vector \in Cell(Vector) /\ row.filtering \in FilteringCell
      /\ row.vector.ts <= LastTs(k) /\ row.filtering.ts <= LastTs(k)
  BY BaseFacts
<1>2. /\ v \in Cell(Vector) /\ Fits(row.vector, v, LastTs(k))
      /\ ts = LastTs(k) => CellIsCurrent(row.vector, v, LastTs(k))
  BY <1>1, ParsedCell
<1>3. FilterValue # {} => /\ f \in FilteringCell /\ Fits(row.filtering, f, LastTs(k))
                          /\ ts = LastTs(k) => CellIsCurrent(row.filtering, f, LastTs(k))
  <2>1. SUFFICES ASSUME FilterValue # {}
                 PROVE  /\ f \in FilteringCell /\ Fits(row.filtering, f, LastTs(k))
                        /\ ts = LastTs(k) => CellIsCurrent(row.filtering, f, LastTs(k))
    OBVIOUS
  <2>2. FilteringCell = Cell(FilterValue)
    BY <2>1 DEF FilteringCell
  <2> QED
    BY <1>1, <2>2, ParsedCell
<1>4. /\ DOMAIN p = CellNames /\ p.vector = v /\ p.partition = NullCell
      /\ FilterValue # {} => p.filtering = f
      /\ FilterValue = {} => p.filtering = NullCell
      /\ p = [c \in CellNames |-> p[c]]
  <2>1. /\ "vector" \in Column /\ "partition" \notin Column
        /\ "filtering" \in Column <=> FilterValue # {}
    BY DEF Column
  <2>2. row.partition = NullCell /\ (FilterValue = {} => row.filtering = NullCell)
    BY <1>1 DEF DbRow, FilteringCell
  <2>3. NullCell.value = None
    BY DEF NullCell
  <2> QED
    BY <2>1, <2>2, <2>3 DEF ParseValues, CellNames, Tombstone
<1>5. NullCell \in PartitionCell /\ (FilterValue = {} => NullCell \in FilteringCell)
  BY DEF PartitionCell, FilteringCell
<1> HIDE DEF v, f, p
<1>6. p \in [CellNames -> AnyCell]
  <2>1. \A c \in CellNames : p[c] \in AnyCell
    BY <1>2, <1>3, <1>4, <1>5 DEF CellNames, AnyCell
  <2> QED
    BY <1>4, <2>1
<1>7. CASE RowExists(row)
  <2>1. m = [key |-> k, op |-> "Upsert", ts |-> ts, values |-> p]
    BY <1>7 DEF Fetched, p
  <2> HIDE DEF m
  <2>2. m \in RowMessage /\ m # None
    <3>1. m \in RowMessage
      BY <1>6, <2>1 DEF RowMessage
    <3> QED
      BY <3>1, NoneAssumption
  <2>3. VectorOf(m) = v /\ FilteringOf(m) = p.filtering /\ m.key = k
    BY <1>4, <2>1 DEF VectorOf, FilteringOf
  <2>4. MessageOK(m)
    BY <1>2, <1>3, <1>4, <1>5, <2>1 DEF MessageOK
  <2>5. MessageFits(m)
    BY <1>2, <1>3, <1>4, <2>3, <2>4 DEF MessageFits, RowFits
  <2>6. ts = LastTs(k) => MessageIsCurrent(m)
    BY <1>2, <1>3, <1>4, <2>3 DEF MessageIsCurrent, RowIsCurrent
  <2> QED
    BY <2>2, <2>3, <2>5, <2>6 DEF m
<1>8. CASE ~RowExists(row)
  <2>1. m = [key |-> k, op |-> "Delete", ts |-> ts, values |-> None]
    BY <1>8 DEF Fetched
  <2> HIDE DEF m
  <2>2. m \in RowMessage /\ m # None
    <3>1. m \in RowMessage
      BY <2>1 DEF RowMessage
    <3> QED
      BY <3>1, NoneAssumption
  <2>3. row.vector.value = None /\ row.filtering.value = None
    BY <1>8 DEF RowExists, CellNames
  <2>4. v = Tombstone(ts) /\ f = Tombstone(ts)
    BY <2>3 DEF v, f
  <2>5. VectorOf(m) = v /\ FilteringOf(m) = f /\ m.key = k
    BY <2>1, <2>4 DEF VectorOf, FilteringOf
  <2>6. MessageOK(m)
    <3>1. ts \in 1 .. MaxTimestamp
      BY <1>8, TableAssumption DEF Timestamp
    <3> QED
      BY <2>1, <3>1 DEF MessageOK
  <2>7. MessageFits(m)
    BY <1>2, <1>3, <2>5, <2>6 DEF MessageFits, RowFits
  <2>8. ts = LastTs(k) => MessageIsCurrent(m)
    BY <1>2, <1>3, <2>5 DEF MessageIsCurrent, RowIsCurrent
  <2> QED
    BY <2>2, <2>5, <2>7, <2>8 DEF m
<1> QED
  BY <1>7, <1>8

LEMMA TableUnchanged ==
  ASSUME UNCHANGED tableVars
  PROVE  /\ PlacedInv' <=> PlacedInv
         /\ \A k : VectorIn(k)' = VectorIn(k) /\ FilteringIn(k)' = FilteringIn(k)
<1>1. PlacedInv' <=> PlacedInv
  BY DEF tableVars, PlacedInv
<1>2. \A k : VectorIn(k)' = VectorIn(k) /\ FilteringIn(k)' = FilteringIn(k)
  BY DEF tableVars, VectorIn, FilteringIn, RowCell
<1> QED
  BY <1>1, <1>2

-----------------------------------------------------------------------------
(* The application writes.                                                 *)

RowWritten(cur, row, ts) ==
  /\ row \in DbRow
  /\ row.vector = cur.vector \/ row.vector.ts = ts \/ row.vector.value = None
  /\ row.filtering = cur.filtering \/ row.filtering.ts = ts \/ row.filtering.value = None
  /\ row.vector.ts <= ts /\ row.filtering.ts <= ts

LEMMA LogWriteInv ==
  ASSUME ReplicationInv, NEW k \in Key, NEW op \in {"Upsert", "Delete"}, NEW row,
         RowWritten(db[k], row, Now + 1), op = "Delete" => row = EmptyRow, LogWrite(k, op, row)
  PROVE  ReplicationInv'
<1> DEFINE ts == Now + 1
           e == [key |-> k, ts |-> ts, op |-> op]
<1>1. /\ TableInv /\ LogInv /\ DbInv /\ ReadInv /\ WayInv /\ PlacedInv /\ InTableFits /\ NotMissed
  BY DEF ReplicationInv
<1>2. /\ Now < MaxTimestamp
      /\ db' = [db EXCEPT ![k] = row]
      /\ log' = log \o [n \in 1 .. LogCopies |-> e]
      /\ UNCHANGED <<vars, refused, readerVars, rows>>
  BY DEF LogWrite
<1>3. /\ Now \in Nat /\ LogOK(log, Now) /\ ts \in Nat /\ ts \in 1 .. MaxTimestamp /\ ts \in Timestamp
      /\ log \in Seq(LogEntry)
  BY <1>1, <1>2, TableAssumption DEF LogInv, LogOK, Timestamp
<1>4. e \in LogEntry /\ e.key = k /\ e.ts = ts /\ e.op = op
  BY <1>3 DEF LogEntry
<1>5. Now < ts /\ ts = Now + 1
  BY <1>3
<1> HIDE DEF ts, e
<1>6. Extends(log, log', e)
  BY <1>2, <1>3, <1>4, CopiesAppended
<1>7. /\ LogOK(log', ts) /\ LastTsIn(log', k) = ts
      /\ \A j \in Key \ {k} : LastTsIn(log', j) = LastTsIn(log, j)
  <2>1. /\ LogOK(log', Now + 1) /\ LastTsIn(log', e.key) = Now + 1
        /\ \A j \in Key \ {e.key} : LastTsIn(log', j) = LastTsIn(log, j)
    <3>1. PICK t \in Nat : t = Now
      BY <1>3
    <3>2. LogOK(log, t) /\ t < MaxTimestamp /\ e.ts = t + 1 /\ e \in LogEntry
      BY <1>2, <1>3, <1>4, <1>5, <3>1
    <3>3. /\ LogOK(log', t + 1) /\ LastTsIn(log', e.key) = t + 1
          /\ \A j \in Key \ {e.key} : LastTsIn(log', j) = LastTsIn(log, j)
      BY <1>6, <3>2, LogExtended
    <3> QED
      BY <3>1, <3>3
  <2> QED
    BY <1>4, <1>5, <2>1
<1>8. LogInv'
  <2>1. Len(log') \div LogCopies = ts
    BY <1>3, <1>7, LogCounts DEF LogOK
  <2>2. Now' = ts
    BY <2>1 DEF Now
  <2> QED
    BY <1>3, <1>7, <2>2 DEF LogInv, Timestamp
<1>9. LastTs(k)' = ts /\ \A j \in Key \ {k} : LastTs(j)' = LastTs(j)
  BY <1>7 DEF LastTs
<1>10. \A j \in Key : LastTs(j) \in Nat /\ LastTs(j) <= Now
  <2> SUFFICES ASSUME NEW j \in Key PROVE LastTs(j) \in Nat /\ LastTs(j) <= Now
    OBVIOUS
  <2>1. LastTs(j) \in Timestamp /\ IsLastIn(log, j, LastTs(j))
    BY <1>1, BaseFacts
  <2>2. \A n \in DOMAIN log : log[n].ts <= Now
    BY <1>3 DEF LogOK
  <2> QED
    BY <1>3, <2>1, <2>2, TableAssumption DEF IsLastIn, Timestamp
<1>11. /\ db'[k] = row /\ db' \in [Key -> DbRow]
       /\ \A j \in Key \ {k} : db'[j] = db[j]
  BY <1>1, <1>2 DEF DbInv, RowWritten
<1>12. /\ row.vector \in AnyTimed /\ row.filtering \in AnyTimed
       /\ db[k].vector \in AnyTimed /\ db[k].filtering \in AnyTimed /\ LastTs(k) \in Timestamp
  <2>1. row.vector \in Cell(Vector) /\ row.filtering \in FilteringCell
    BY DEF RowWritten, DbRow
  <2> QED
    BY <1>1, <2>1, BaseFacts, CellTimed
<1>13. LastTs(k) < ts
  BY <1>3, <1>5, <1>10
<1>14. ASSUME NEW j \in Key, NEW v \in AnyTimed, NEW f, FilterValue # {} => f \in AnyTimed,
              RowFits(j, v, f)
       PROVE  RowFits(j, v, f)'
  <2>1. CASE j = k
    <3>1. Fits(row.vector, v, ts)
      BY <1>3, <1>5, <1>12, <1>13, <1>14, <2>1, WriteKeepsFits DEF RowFits, RowWritten
    <3>2. FilterValue # {} => Fits(row.filtering, f, ts)
      BY <1>3, <1>5, <1>12, <1>13, <1>14, <2>1, WriteKeepsFits DEF RowFits, RowWritten
    <3> QED
      BY <1>9, <1>11, <2>1, <3>1, <3>2 DEF RowFits
  <2>2. CASE j # k
    BY <1>9, <1>11, <1>14, <2>2 DEF RowFits
  <2> QED
    BY <2>1, <2>2
<1>15. ASSUME NEW m, MessageFits(m), m.key \in Key PROVE MessageFits(m)'
  BY <1>14, <1>15, MessageCells DEF MessageFits
<1>16. DbInv'
  <2>1. ASSUME NEW j \in Key PROVE db'[j].vector.ts <= LastTs(j)' /\ db'[j].filtering.ts <= LastTs(j)'
    <3>1. CASE j = k
      BY <1>5, <1>9, <1>11, <3>1 DEF RowWritten
    <3>2. CASE j # k
      BY <1>1, <1>9, <1>11, <3>2 DEF DbInv
    <3> QED
      BY <3>1, <3>2
  <2>2. ASSUME NEW n \in DOMAIN log', log'[n].op = "Delete"
        PROVE  RowFits(log[n].key, Tombstone(log[n].ts), Tombstone(log[n].ts))'
    <3>1. CASE n \in DOMAIN log
      <4>1. log'[n] = log[n]
        BY <1>6, <3>1 DEF Extends
      <4>2. log[n].key \in Key /\ log[n].ts \in Timestamp
        BY <1>3, <3>1, EntryTimes, TableAssumption DEF Timestamp
      <4>3. PICK j \in Key, x \in Timestamp : j = log[n].key /\ x = log[n].ts
        BY <4>2
      <4>4. Tombstone(x) \in AnyTimed
        BY DEF Tombstone, AnyTimed
      <4>5. RowFits(j, Tombstone(x), Tombstone(x))
        BY <1>1, <2>2, <3>1, <4>1, <4>3 DEF DbInv
      <4>6. RowFits(j, Tombstone(x), Tombstone(x))'
        BY <1>14, <4>4, <4>5
      <4>7. log'[n].key = j /\ log'[n].ts = x
        BY <4>1, <4>3
      <4> QED
        BY <4>6, <4>7
    <3>2. CASE log'[n] = e
      <4>1. row.vector.value = None /\ row.filtering.value = None
        BY <1>4, <2>2, <3>2 DEF EmptyRow, NullCell
      <4>2. Fits(row.vector, Tombstone(ts), ts) /\ Fits(row.filtering, Tombstone(ts), ts)
        BY <1>3, <4>1 DEF Fits, Tombstone
      <4>3. log'[n].key = k /\ log'[n].ts = ts
        BY <1>4, <3>2
      <4> QED
        BY <1>9, <1>11, <4>2, <4>3 DEF RowFits
    <3> QED
      BY <1>6, <3>1, <3>2 DEF Extends
  <2> QED
    BY <1>11, <2>1, <2>2 DEF DbInv
<1>17. ReadInv'
  <2>1. UNCHANGED <<read, last>>
    BY <1>2 DEF readerVars
  <2>2. \A n \in DOMAIN log : n \in DOMAIN log' /\ log'[n] = log[n]
    BY <1>6 DEF Extends
  <2> QED
    BY <1>1, <2>1, <2>2 DEF ReadInv
<1>18. WayInv'
  <2>1. UNCHANGED <<tasks, rows>>
    BY <1>2 DEF readerVars
  <2>2. ASSUME NEW t \in tasks PROVE TaskFits(t)'
    <3>1. TaskFits(t) /\ t.key \in Key /\ t.ts \in Timestamp
      BY <1>1 DEF WayInv, RowTask
    <3>2. CASE t.row = None
      <4>1. t.source \in Reader /\ t.ts # 0 /\ t.ts <= LastTs(t.key)
        BY <3>1, <3>2 DEF TaskFits
      <4>2. t.ts <= LastTs(t.key)'
        <5>1. t.ts \in Nat
          BY <3>1, TableAssumption DEF Timestamp
        <5> QED
          BY <1>3, <1>9, <1>10, <1>13, <3>1, <4>1, <5>1
      <4> QED
        BY <3>2, <4>1, <4>2 DEF TaskFits
    <3>3. CASE t.row # None
      BY <1>15, <3>1, <3>3 DEF TaskFits
    <3> QED
      BY <3>2, <3>3
  <2>3. ASSUME NEW n \in DOMAIN rows PROVE MessageFits(rows[n])'
    <3>1. rows[n] \in RowMessage
      BY <1>1, SeqElement DEF WayInv
    <3>2. rows[n].key \in Key /\ MessageFits(rows[n])
      BY <1>1, <3>1 DEF WayInv, RowMessage
    <3> QED
      BY <1>15, <2>1, <3>2 DEF MessageFits, MessageOK, VectorOf, FilteringOf
  <2>4. /\ tasks' \subseteq RowTask /\ \A t \in tasks' : TaskFits(t)'
        /\ rows' \in Seq(RowMessage)
    BY <1>1, <2>1, <2>2 DEF WayInv
  <2>5. \A n \in DOMAIN rows' : MessageFits(rows[n])'
    BY <2>1, <2>3
  <2> QED
    BY <2>1, <2>4, <2>5 DEF WayInv
<1>19. /\ UNCHANGED vars /\ UNCHANGED tableVars
  BY <1>2 DEF vars
<1>20. TableInv' /\ PlacedInv'
  BY <1>1, <1>19, NextInv, TableUnchanged
<1>21. \A j : VectorIn(j)' = VectorIn(j) /\ FilteringIn(j)' = FilteringIn(j)
  BY <1>19, TableUnchanged
<1>22. InTableFits'
  <2>1. ASSUME NEW j \in Key PROVE RowFits(j, VectorIn(j), FilteringIn(j))'
    <3> DEFINE v == VectorIn(j)
               f == FilteringIn(j)
    <3>1. v \in AnyTimed /\ f \in AnyTimed /\ RowFits(j, v, f)
      BY <1>1, TableCells DEF InTableFits
    <3>2. v' = v /\ f' = f
      BY <1>21
    <3> HIDE DEF v, f
    <3>3. RowFits(j, v, f)'
      BY <1>9, <1>11, <1>14, <3>1, <3>2 DEF RowFits
    <3> QED
      BY <3>3 DEF v, f
  <2> QED
    BY <2>1 DEF InTableFits
<1>23. NotMissed'
  <2> SUFFICES ASSUME NEW j \in Key, LastTs(j)' # 0
               PROVE  \/ Delivered(j)' \/ Refused(j)'
                      \/ \A r \in Reader : Pending(r, j)' \/ FetchFailed(r, j)'
    BY DEF NotMissed
  <2>1. UNCHANGED <<last, tasks, failures, refused, rows>>
    BY <1>2 DEF readerVars
  <2>2. CASE j = k
    <3>1. ASSUME NEW r \in Reader PROVE Pending(r, k)'
      <4>1. ActedOn(r) < ts
        <5>1. CASE last[r] = None
          BY <1>3, <5>1 DEF ActedOn
        <5>2. CASE last[r] # None
          <6>1. read[r] \in DOMAIN log /\ last[r] = log[read[r]]
            BY <1>1, <5>2 DEF ReadInv
          <6>2. last[r].ts <= Now /\ last[r].ts \in Nat
            BY <1>3, <6>1, EntryTimes DEF LogOK
          <6> QED
            BY <1>3, <1>5, <5>2, <6>2 DEF ActedOn
        <5> QED
          BY <5>1, <5>2
      <4> QED
        BY <1>9, <2>1, <4>1 DEF Pending, ActedOn
    <3> QED
      BY <2>2, <3>1
  <2>3. CASE j # k
    <3>1. LastTs(j)' = LastTs(j) /\ db'[j] = db[j]
      BY <1>9, <1>11, <2>3
    <3>2. \A m : m.key = j => (MessageIsCurrent(m)' <=> MessageIsCurrent(m))
      BY <3>1 DEF MessageIsCurrent, RowIsCurrent, VectorOf, FilteringOf
    <3>3. \A t \in tasks : t.key = j /\ t.row # None => t.row.key = j
      BY <1>1 DEF WayInv, TaskFits
    <3>4. /\ \A r : Pending(r, j) => Pending(r, j)'
          /\ \A r : FetchFailed(r, j) => FetchFailed(r, j)'
          /\ Refused(j) => Refused(j)'
      <4>1. \A r : Pending(r, j) => Pending(r, j)'
        BY <2>1, <3>1, <3>2, <3>3 DEF Pending, ActedOn
      <4> QED
        BY <2>1, <3>1, <4>1 DEF FetchFailed, Refused
    <3>5. Delivered(j) => Delivered(j)'
      <4>1. CASE \E n \in DOMAIN rows : rows[n].key = j /\ MessageIsCurrent(rows[n])
        <5>1. PICK n \in DOMAIN rows : rows[n].key = j /\ MessageIsCurrent(rows[n])
          BY <4>1
        <5>2. MessageIsCurrent(rows[n])'
          BY <2>1, <3>1, <5>1 DEF MessageIsCurrent, RowIsCurrent, VectorOf, FilteringOf
        <5> QED
          BY <2>1, <5>1, <5>2 DEF Delivered
      <4>2. CASE RowIsCurrent(j, VectorIn(j), FilteringIn(j))
        BY <1>21, <3>1, <4>2 DEF Delivered, RowIsCurrent
      <4> QED
        BY <4>1, <4>2 DEF Delivered
    <3> QED
      BY <1>1, <3>1, <3>4, <3>5 DEF NotMissed
  <2> QED
    BY <2>2, <2>3
<1> QED
  BY <1>1, <1>8, <1>16, <1>17, <1>18, <1>20, <1>22, <1>23 DEF ReplicationInv

LEMMA WriteInv ==
  ASSUME ReplicationInv, Layout # "nonpk", Write
  PROVE  ReplicationInv'
<1> DEFINE ts == Now + 1
<1>1. LogInv /\ DbInv
  BY DEF ReplicationInv
<1>2. PICK k \in Key :
        \/ \E column \in Column \intersect Updated :
             \E value \in ValuesOf(column) \union {None} : UpdateColumn(k, column, value)
        \/ \E vector \in Vector, partition \in PartitionKey : InsertRow(k, vector, partition)
        \/ Deletes /\ DeleteRow(k)
  BY DEF Write
<1>3. Now < MaxTimestamp
  BY <1>2 DEF UpdateColumn, InsertRow, DeleteRow, LogWrite
<1>4. Now \in Nat /\ ts \in Nat /\ ts \in 1 .. MaxTimestamp /\ ts > Now
  BY <1>1, <1>3, TableAssumption DEF LogInv
<1>5. /\ db[k] \in DbRow /\ db[k].vector \in Cell(Vector) /\ db[k].filtering \in FilteringCell
      /\ db[k].vector.ts \in Nat /\ db[k].filtering.ts \in Nat
      /\ db[k].vector.ts <= ts /\ db[k].filtering.ts <= ts
  <2>1. /\ LastTs(k) \in Nat /\ LastTs(k) <= Now
    <3>1. LastTs(k) \in Timestamp /\ IsLastIn(log, k, LastTs(k))
      BY <1>1, BaseFacts
    <3>2. \A n \in DOMAIN log : log[n].ts <= Now
      BY <1>1 DEF LogInv, LogOK
    <3> QED
      BY <1>4, <3>1, <3>2, TableAssumption DEF IsLastIn, Timestamp
  <2>2. /\ db[k] \in DbRow /\ db[k].vector \in Cell(Vector) /\ db[k].filtering \in FilteringCell
        /\ db[k].vector \in AnyTimed /\ db[k].filtering \in AnyTimed
        /\ db[k].vector.ts <= LastTs(k) /\ db[k].filtering.ts <= LastTs(k)
    BY <1>1, BaseFacts
  <2>3. db[k].vector.ts \in Nat /\ db[k].filtering.ts \in Nat
    BY <2>2, TableAssumption DEF AnyTimed, Timestamp
  <2> QED
    BY <1>4, <2>1, <2>2, <2>3
<1>6. ts = Now + 1
  OBVIOUS
<1> HIDE DEF ts
<1>7. CASE \E column \in Column \intersect Updated :
             \E value \in ValuesOf(column) \union {None} : UpdateColumn(k, column, value)
  <2>1. PICK column \in Column \intersect Updated :
          \E value \in ValuesOf(column) \union {None} : UpdateColumn(k, column, value)
    BY <1>7
  <2>2. PICK value \in ValuesOf(column) \union {None} : UpdateColumn(k, column, value)
    BY <2>1
  <2> DEFINE cell == [ts |-> ts, value |-> value]
             row == [db[k] EXCEPT ![column] = cell]
  <2>3. LogWrite(k, "Upsert", row)
    BY <1>6, <2>2 DEF UpdateColumn
  <2>4. RowWritten(db[k], row, ts)
    <3>1. column = "vector" \/ (column = "filtering" /\ FilterValue # {})
      BY <2>1 DEF Column
    <3>2. CASE column = "vector"
      <4>1. cell \in Cell(Vector) /\ cell.ts = ts
        BY <1>4, <3>2 DEF ValuesOf, Cell
      <4>2. /\ row \in DbRow /\ row.vector = cell /\ row.filtering = db[k].filtering
        BY <1>5, <3>2, <4>1 DEF DbRow
      <4> QED
        BY <1>4, <1>5, <4>1, <4>2 DEF RowWritten
    <3>3. CASE column = "filtering" /\ FilterValue # {}
      <4>1. cell \in FilteringCell /\ cell.ts = ts
        BY <1>4, <3>3 DEF ValuesOf, Cell, FilteringCell
      <4>2. /\ row \in DbRow /\ row.filtering = cell /\ row.vector = db[k].vector
        BY <1>5, <3>3, <4>1 DEF DbRow
      <4> QED
        BY <1>4, <1>5, <4>1, <4>2 DEF RowWritten
    <3> QED
      BY <3>1, <3>2, <3>3
  <2> HIDE DEF row
  <2> QED
    BY <1>6, <2>3, <2>4, LogWriteInv
<1>8. CASE \E vector \in Vector, partition \in PartitionKey : InsertRow(k, vector, partition)
  <2>1. PICK vector \in Vector, partition \in PartitionKey : InsertRow(k, vector, partition)
    BY <1>8
  <2> DEFINE row == [marker |-> TRUE, vector |-> [ts |-> ts, value |-> vector],
                     partition |-> NullCell, filtering |-> db[k].filtering]
  <2>2. LogWrite(k, "Upsert", row)
    BY <1>6, <2>1 DEF InsertRow
  <2>3. RowWritten(db[k], row, ts)
    <3>1. [ts |-> ts, value |-> vector] \in Cell(Vector)
      BY <1>4 DEF Cell
    <3>2. row \in DbRow
      BY <1>5, <3>1 DEF DbRow
    <3> QED
      BY <1>4, <1>5, <3>2 DEF RowWritten
  <2> HIDE DEF row
  <2> QED
    BY <1>6, <2>2, <2>3, LogWriteInv
<1>9. CASE DeleteRow(k)
  <2>1. LogWrite(k, "Delete", EmptyRow)
    BY <1>9 DEF DeleteRow
  <2>2. RowWritten(db[k], EmptyRow, ts)
    <3>1. NullCell \in Cell(Vector) /\ NullCell \in FilteringCell
      BY DEF NullCell, Cell, FilteringCell
    <3>2. EmptyRow \in DbRow
      BY <3>1 DEF EmptyRow, DbRow
    <3> QED
      BY <1>4, <3>2 DEF RowWritten, EmptyRow, NullCell
  <2> QED
    BY <1>6, <2>1, <2>2, LogWriteInv
<1> QED
  BY <1>2, <1>7, <1>8, <1>9

-----------------------------------------------------------------------------
(* The readers.                                                            *)

LEMMA AppendFacts ==
  ASSUME NEW S, NEW s \in Seq(S), NEW x \in S
  PROVE  /\ Append(s, x) \in Seq(S)
         /\ \A n \in DOMAIN s : n \in DOMAIN Append(s, x) /\ Append(s, x)[n] = s[n]
         /\ Len(s) + 1 \in DOMAIN Append(s, x) /\ Append(s, x)[Len(s) + 1] = x
         /\ \A n \in DOMAIN Append(s, x) : n \in DOMAIN s \/ Append(s, x)[n] = x
  OBVIOUS

\* A step of a reader: the base table, its log and the table stay, and a write
\* that a reader had yet to bring is delivered, still to be brought, or failed.
LEMMA ReaderStepInv ==
  ASSUME ReplicationInv, UNCHANGED <<vars, refused, db, log>>, ReadInv', WayInv',
         failures \subseteq failures',
         \A n \in DOMAIN rows : n \in DOMAIN rows' /\ rows'[n] = rows[n],
         \A k \in Key : \/ Delivered(k)'
                       \/ \A r \in Reader : Pending(r, k) => Pending(r, k)' \/ FetchFailed(r, k)'
  PROVE  ReplicationInv'
<1>1. /\ TableInv /\ LogInv /\ DbInv /\ ReadInv /\ WayInv /\ PlacedInv /\ InTableFits /\ NotMissed
  BY DEF ReplicationInv
<1>2. UNCHANGED tableVars /\ UNCHANGED vars /\ UNCHANGED <<db, log>>
  BY DEF vars
<1>3. TableInv' /\ PlacedInv' /\ LogInv' /\ DbInv'
  BY <1>1, <1>2, NextInv, TableUnchanged, BaseUnchanged
<1>4. /\ \A k : VectorIn(k)' = VectorIn(k) /\ FilteringIn(k)' = FilteringIn(k) /\ LastTs(k)' = LastTs(k)
      /\ \A k, v, f : /\ RowFits(k, v, f)' <=> RowFits(k, v, f)
                      /\ RowIsCurrent(k, v, f)' <=> RowIsCurrent(k, v, f)
      /\ \A m : MessageIsCurrent(m)' <=> MessageIsCurrent(m)
  BY <1>2, TableUnchanged, BaseUnchanged
<1>5. InTableFits'
  BY <1>1, <1>2, <1>4 DEF InTableFits, RowFits
<1>6. ASSUME NEW k \in Key, Delivered(k) PROVE Delivered(k)'
  <2>1. CASE \E n \in DOMAIN rows : rows[n].key = k /\ MessageIsCurrent(rows[n])
    <3>1. PICK n \in DOMAIN rows : rows[n].key = k /\ MessageIsCurrent(rows[n])
      BY <2>1
    <3>2. n \in DOMAIN rows' /\ rows'[n] = rows[n]
      OBVIOUS
    <3>3. PICK m : m = rows[n]
      OBVIOUS
    <3>4. MessageIsCurrent(m)' /\ m.key = k /\ rows'[n] = m
      BY <1>4, <3>1, <3>2, <3>3
    <3>5. MessageIsCurrent(rows[n])' /\ rows'[n].key = k
      BY <3>4 DEF MessageIsCurrent, VectorOf, FilteringOf
    <3> QED
      BY <3>2, <3>5 DEF Delivered
  <2>2. CASE RowIsCurrent(k, VectorIn(k), FilteringIn(k))
    <3>1. RowIsCurrent(k, VectorIn(k), FilteringIn(k))'
      BY <1>2, <1>4, <2>2 DEF RowIsCurrent
    <3> QED
      BY <3>1 DEF Delivered
  <2> QED
    BY <1>6, <2>1, <2>2 DEF Delivered
<1>7. /\ \A k : Refused(k) => Refused(k)'
      /\ \A r, k : FetchFailed(r, k) => FetchFailed(r, k)'
  BY <1>2, BaseUnchanged
<1>8. NotMissed'
  BY <1>1, <1>4, <1>6, <1>7 DEF NotMissed
<1> QED
  BY <1>3, <1>5, <1>8 DEF ReplicationInv

LEMMA WayStep ==
  ASSUME UNCHANGED <<db, log>>, WayInv, tasks' \subseteq RowTask,
         \A t \in tasks' : TaskFits(t),
         rows' = rows \/ \E m \in RowMessage : MessageFits(m) /\ rows' = Append(rows, m)
  PROVE  WayInv' /\ \A n \in DOMAIN rows : n \in DOMAIN rows' /\ rows'[n] = rows[n]
<1>1. rows \in Seq(RowMessage) /\ \A n \in DOMAIN rows : MessageFits(rows[n])
  BY DEF WayInv
<1>2. /\ rows' \in Seq(RowMessage)
      /\ \A n \in DOMAIN rows : n \in DOMAIN rows' /\ rows'[n] = rows[n]
      /\ \A n \in DOMAIN rows' : n \in DOMAIN rows \/ MessageFits(rows'[n])
  BY <1>1, AppendFacts
<1>3. ASSUME NEW n \in DOMAIN rows' PROVE MessageFits(rows[n])'
  <2>1. PICK m : m = rows'[n]
    OBVIOUS
  <2>2. MessageFits(m)
    BY <1>1, <1>2, <2>1
  <2>3. MessageFits(m)'
    BY <2>2, BaseUnchanged
  <2> QED
    BY <2>1, <2>3 DEF MessageFits, MessageOK, VectorOf, FilteringOf
<1>4. \A t \in tasks' : TaskFits(t)'
  BY BaseUnchanged
<1> QED
  BY <1>2, <1>3, <1>4 DEF WayInv

LEMMA DeliveredBy ==
  ASSUME UNCHANGED <<db, log>>, NEW k, NEW m, m.key = k, MessageIsCurrent(m),
         NEW n \in DOMAIN rows', rows'[n] = m
  PROVE  Delivered(k)'
<1>1. MessageIsCurrent(m)'
  BY BaseUnchanged
<1>2. MessageIsCurrent(rows[n])'
  BY <1>1 DEF MessageIsCurrent, VectorOf, FilteringOf
<1> QED
  BY <1>2 DEF Delivered

\* A task that makes its reader pending for a key.
Brings(t, k) ==
  /\ t.key = k
  /\ IF t.row = None THEN t.ts = LastTs(k) ELSE MessageIsCurrent(t.row)

LEMMA StaysPending ==
  ASSUME UNCHANGED <<db, log>>, NEW r, NEW k, Pending(r, k), last'[r] = last[r],
         \A t \in tasks \ tasks' : t.source = r /\ Brings(t, k) =>
           \E u \in tasks' : u.source = r /\ Brings(u, k)
  PROVE  Pending(r, k)'
<1>1. LastTs(k)' = LastTs(k) /\ ActedOn(r)' = ActedOn(r)
  BY BaseUnchanged DEF ActedOn
<1>2. \A t : Brings(t, k)' <=> Brings(t, k)
  BY BaseUnchanged DEF Brings
<1>3. Pending(r, k) <=> ActedOn(r) < LastTs(k) \/ \E t \in tasks : t.source = r /\ Brings(t, k)
  BY DEF Pending, Brings
<1>4. Pending(r, k)' <=> \/ ActedOn(r)' < LastTs(k)'
                         \/ \E t \in tasks' : t.source = r /\ Brings(t, k)'
  BY DEF Pending, Brings
<1> QED
  BY <1>1, <1>2, <1>3, <1>4

LEMMA SkipEntryInv ==
  ASSUME ReplicationInv, NEW r \in Reader, SkipEntry(r)
  PROVE  ReplicationInv'
<1>1. /\ LogInv /\ ReadInv /\ WayInv
  BY DEF ReplicationInv
<1>2. /\ read[r] < Len(log) /\ last[r] = log[read[r] + 1]
      /\ read' = [read EXCEPT ![r] = @ + 1]
      /\ UNCHANGED <<vars, refused, db, log, last, tasks, scanned, rows, failures>>
  BY DEF SkipEntry, IsDuplicate
<1>3. log \in Seq(LogEntry) /\ read[r] \in Nat /\ read[r] + 1 \in DOMAIN log /\ read[r] + 1 # 0
  BY <1>1, <1>2 DEF LogInv, LogOK, ReadInv
<1>4. ReadInv'
  BY <1>1, <1>2, <1>3 DEF ReadInv
<1>5. WayInv'
  <2>1. UNCHANGED <<db, log>> /\ UNCHANGED <<tasks, rows>>
    BY <1>2
  <2> QED
    BY <1>1, <2>1, BaseUnchanged DEF WayInv, MessageFits, MessageOK, VectorOf, FilteringOf
<1>6. ASSUME NEW k \in Key, NEW s \in Reader, Pending(s, k) PROVE Pending(s, k)'
  <2>1. UNCHANGED <<db, log>> /\ UNCHANGED <<tasks, last>>
    BY <1>2
  <2> QED
    BY <1>6, <2>1, StaysPending
<1> QED
  BY <1>1, <1>2, <1>4, <1>5, <1>6, ReaderStepInv

\* The entry that a reader takes is not after the last write it has to act on.
LEMMA NextEntry ==
  ASSUME LogInv, DbInv, ReadInv, NEW r \in Reader, read[r] < Len(log), NEW k \in Key,
         ActedOn(r) < LastTs(k), NEW e, e = log[read[r] + 1], ~(e.ts < LastTs(k))
  PROVE  e.key = k /\ e.ts = LastTs(k)
<1>1. /\ log \in Seq(LogEntry) /\ read[r] \in Nat /\ read[r] + 1 \in DOMAIN log
      /\ DOMAIN log = 1 .. Len(log)
  BY DEF LogInv, LogOK, ReadInv
<1>2. /\ LastTs(k) \in Nat /\ IsLastIn(log, k, LastTs(k)) /\ e.ts \in Nat
      /\ ActedOn(r) \in Nat
  <2>1. LastTs(k) \in Timestamp /\ IsLastIn(log, k, LastTs(k))
    BY BaseFacts
  <2>2. e.ts \in Nat
    BY <1>1, EntryTimes
  <2>3. ActedOn(r) \in Nat
    BY <1>1, EntryTimes DEF ActedOn, ReadInv
  <2> QED
    BY <2>1, <2>2, <2>3, TableAssumption DEF Timestamp
<1>3. PICK n \in DOMAIN log : log[n].key = k /\ log[n].ts = LastTs(k)
  BY <1>2 DEF IsLastIn
<1>4. n > read[r]
  <2> SUFFICES ASSUME ~(n > read[r]) PROVE FALSE
    OBVIOUS
  <2>1. n \in Nat /\ n >= 1 /\ n <= read[r] /\ read[r] # 0
    BY <1>1
  <2>2. read[r] \in DOMAIN log /\ last[r] = log[read[r]] /\ log[read[r]] \in LogEntry
    BY <1>1, <2>1, EntryTimes DEF ReadInv
  <2>3. ActedOn(r) = log[read[r]].ts
    BY <2>2, NoneAssumption DEF ActedOn
  <2>4. log[n].ts <= log[read[r]].ts
    BY <2>1, <2>2 DEF LogInv, LogOK
  <2> QED
    BY <1>2, <1>3, <2>3, <2>4
<1>5. read[r] + 1 <= n
  BY <1>1, <1>4
<1>6. e.ts <= log[n].ts
  BY <1>1, <1>5 DEF LogInv, LogOK
<1>7. e.ts = log[n].ts
  BY <1>2, <1>3, <1>6
<1>8. e = log[n]
  BY <1>1, <1>7 DEF LogInv, LogOK
<1> QED
  BY <1>3, <1>8

LEMMA ConsumeEntryInv ==
  ASSUME ReplicationInv, NEW r \in Reader, ConsumeEntry(r)
  PROVE  ReplicationInv'
<1> DEFINE e == log[read[r] + 1]
           u == Task(r, e.key, e.ts, None)
           m == [key |-> e.key, op |-> "Delete", ts |-> e.ts, values |-> None]
<1>1. /\ LogInv /\ DbInv /\ ReadInv /\ WayInv
  BY DEF ReplicationInv
<1>2. /\ read[r] < Len(log)
      /\ read' = [read EXCEPT ![r] = @ + 1]
      /\ last' = [last EXCEPT ![r] = e]
      /\ UNCHANGED <<vars, refused, db, log, scanned, failures>>
      /\ \/ e.op = "Upsert" /\ tasks' = tasks \union {u} /\ UNCHANGED rows
         \/ e.op = "Delete" /\ rows' = Append(rows, m) /\ UNCHANGED tasks
  BY DEF ConsumeEntry, Send
<1>3. /\ log \in Seq(LogEntry) /\ read[r] \in Nat /\ read[r] + 1 \in DOMAIN log /\ read[r] + 1 # 0
      /\ read[r] + 1 \in Nat
  BY <1>1, <1>2 DEF LogInv, LogOK, ReadInv
<1>4. /\ e \in LogEntry /\ e # None /\ e.key \in Key /\ e.ts \in Nat /\ e.ts >= 1
      /\ e.ts <= MaxTimestamp
  BY <1>3, EntryTimes, NoneAssumption
<1>5. ReadInv'
  <2>1. read' \in [Reader -> Nat] /\ last' \in [Reader -> LogEntry \union {None}]
    BY <1>1, <1>2, <1>3, <1>4 DEF ReadInv
  <2> HIDE DEF e
  <2>2. read'[r] = read[r] + 1 /\ last'[r] = e
    BY <1>1, <1>2 DEF ReadInv
  <2>3. \A s \in Reader \ {r} : read'[s] = read[s] /\ last'[s] = last[s]
    BY <1>1, <1>2 DEF ReadInv
  <2> QED
    BY <1>1, <1>2, <1>3, <2>1, <2>2, <2>3 DEF ReadInv, e
<1>6. e.ts <= LastTs(e.key)
  BY <1>1, <1>3, <1>4, BaseFacts DEF IsLastIn
<1>7. UNCHANGED <<db, log>>
  BY <1>2
<1>8. e.op = "Delete" => RowFits(e.key, Tombstone(e.ts), Tombstone(e.ts))
  BY <1>1, <1>3 DEF DbInv
<1>9. e.ts \in 1 .. MaxTimestamp /\ e.ts \in Timestamp /\ e.ts # 0
  BY <1>4, TableAssumption DEF Timestamp
<1>10. e = log[read[r] + 1]
  OBVIOUS
<1> HIDE DEF e
<1>11. /\ u \in RowTask /\ u.source = r /\ u.key = e.key /\ u.ts = e.ts /\ u.row = None
       /\ TaskFits(u)
  BY <1>4, <1>6, <1>9 DEF Task, RowTask, TaskFits
<1>12. m \in RowMessage /\ m.key = e.key /\ VectorOf(m) = Tombstone(e.ts) /\ FilteringOf(m) = Tombstone(e.ts)
  BY <1>4, <1>9 DEF RowMessage, VectorOf, FilteringOf
<1>13. e.op = "Delete" => MessageFits(m)
  BY <1>8, <1>9, <1>12 DEF MessageFits, MessageOK
<1> HIDE DEF u, m
<1>14. WayInv' /\ \A n \in DOMAIN rows : n \in DOMAIN rows' /\ rows'[n] = rows[n]
  <2>1. tasks' \subseteq RowTask /\ \A t \in tasks' : TaskFits(t)
    BY <1>1, <1>2, <1>11 DEF WayInv
  <2>2. rows' = rows \/ \E x \in RowMessage : MessageFits(x) /\ rows' = Append(rows, x)
    BY <1>2, <1>12, <1>13
  <2> QED
    BY <1>1, <1>7, <2>1, <2>2, WayStep
<1>15. ASSUME NEW k \in Key
       PROVE  Delivered(k)' \/ \A s \in Reader : Pending(s, k) => Pending(s, k)'
  <2>1. ASSUME ~Delivered(k)', NEW s \in Reader, Pending(s, k) PROVE Pending(s, k)'
    <3>1. tasks \ tasks' = {}
      BY <1>2
    <3>2. CASE s # r
      <4>1. last'[s] = last[s]
        BY <1>1, <1>2, <3>2 DEF ReadInv
      <4> QED
        BY <1>7, <2>1, <3>1, <4>1, StaysPending
    <3>3. CASE s = r
      <4>1. LastTs(k)' = LastTs(k) /\ ActedOn(r)' = e.ts
        BY <1>1, <1>2, <1>4, <1>7, BaseUnchanged DEF ActedOn, ReadInv
      <4>2. CASE e.ts < LastTs(k)
        BY <3>3, <4>1, <4>2 DEF Pending
      <4>3. CASE ~(e.ts < LastTs(k)) /\ ActedOn(r) < LastTs(k)
        <5>1. e.key = k /\ e.ts = LastTs(k)
          BY <1>1, <1>2, <1>10, <4>3, NextEntry
        <5>2. CASE e.op = "Upsert" /\ tasks' = tasks \union {u}
          <6>1. u \in tasks' /\ u.source = r /\ u.key = k /\ u.row = None /\ u.ts = LastTs(k)'
            BY <1>11, <4>1, <5>1, <5>2
          <6> QED
            BY <3>3, <6>1 DEF Pending
        <5>3. CASE e.op = "Delete" /\ rows' = Append(rows, m)
          <6>1. MessageIsCurrent(m)
            <7>1. RowFits(k, Tombstone(e.ts), Tombstone(e.ts))
              BY <1>8, <5>1, <5>3
            <7>2. /\ db[k].vector.ts <= LastTs(k) /\ db[k].filtering.ts <= LastTs(k)
                  /\ db[k].vector.ts \in Nat /\ db[k].filtering.ts \in Nat /\ LastTs(k) \in Nat
              BY <1>1, BaseFacts, TableAssumption DEF AnyTimed, Timestamp
            <7>3. db[k].vector.value = None /\ (FilterValue # {} => db[k].filtering.value = None)
              BY <5>1, <7>1, <7>2 DEF RowFits, Fits, Tombstone
            <7> QED
              BY <1>12, <5>1, <7>3 DEF MessageIsCurrent, RowIsCurrent, CellIsCurrent, Tombstone
          <6>2. Len(rows) + 1 \in DOMAIN rows' /\ rows'[Len(rows) + 1] = m
            BY <1>1, <1>12, <5>3, AppendFacts DEF WayInv
          <6> QED
            BY <1>7, <1>12, <2>1, <5>1, <6>1, <6>2, DeliveredBy
        <5> QED
          BY <1>2, <5>2, <5>3
      <4>4. CASE ~(ActedOn(r) < LastTs(k))
        <5>1. PICK t \in tasks : /\ t.source = r /\ t.key = k
                                 /\ IF t.row = None THEN t.ts = LastTs(k)
                                    ELSE MessageIsCurrent(t.row)
          BY <2>1, <3>3, <4>4 DEF Pending
        <5>2. t \in tasks' /\ (IF t.row = None THEN t.ts = LastTs(k)' ELSE MessageIsCurrent(t.row)')
          BY <1>2, <1>7, <4>1, <5>1, BaseUnchanged
        <5> QED
          BY <3>3, <5>1, <5>2 DEF Pending
      <4> QED
        BY <4>2, <4>3, <4>4
    <3> QED
      BY <3>2, <3>3
  <2> QED
    BY <2>1
<1> QED
  BY <1>2, <1>5, <1>14, <1>15, ReaderStepInv

LEMMA FetchRowInv ==
  ASSUME ReplicationInv, Layout # "nonpk", NEW t \in tasks, FetchRow(t)
  PROVE  ReplicationInv'
<1> DEFINE m == Fetched(t.key, t.ts)
           u == Task(t.source, t.key, t.ts, m)
<1>1. /\ LogInv /\ DbInv /\ ReadInv /\ WayInv
  BY DEF ReplicationInv
<1>2. /\ t.row = None /\ tasks' = (tasks \ {t}) \union {u}
      /\ UNCHANGED <<vars, refused, db, log, read, last, scanned, rows, failures>>
  BY DEF FetchRow
<1>3. /\ t \in RowTask /\ t.key \in Key /\ t.ts \in Timestamp
      /\ t.source \in Reader /\ t.ts # 0 /\ t.ts <= LastTs(t.key)
  BY <1>1, <1>2 DEF WayInv, RowTask, TaskFits
<1>4. /\ m \in RowMessage /\ m # None /\ m.key = t.key /\ MessageFits(m)
      /\ t.ts = LastTs(t.key) => MessageIsCurrent(m)
  BY <1>1, <1>3, FetchedFits
<1> HIDE DEF m
<1>5. /\ u \in RowTask /\ u.source = t.source /\ u.key = t.key /\ u.ts = t.ts /\ u.row = m
      /\ TaskFits(u)
  BY <1>3, <1>4 DEF Task, RowTask, TaskFits
<1>6. UNCHANGED <<db, log>> /\ rows' = rows
  BY <1>2
<1> HIDE DEF u
<1>7. WayInv' /\ \A n \in DOMAIN rows : n \in DOMAIN rows' /\ rows'[n] = rows[n]
  <2>1. tasks' \subseteq RowTask /\ \A x \in tasks' : TaskFits(x)
    BY <1>1, <1>2, <1>5 DEF WayInv
  <2> QED
    BY <1>1, <1>6, <2>1, WayStep
<1>8. ReadInv'
  BY <1>1, <1>2 DEF ReadInv
<1>9. ASSUME NEW k \in Key, NEW r \in Reader, Pending(r, k) PROVE Pending(r, k)'
  <2>1. ASSUME NEW x \in tasks \ tasks', x.source = r, Brings(x, k)
        PROVE  \E y \in tasks' : y.source = r /\ Brings(y, k)
    <3>1. x = t /\ u \in tasks'
      BY <1>2
    <3>2. Brings(u, k) /\ u.source = r
      BY <1>2, <1>4, <1>5, <2>1, <3>1 DEF Brings
    <3> QED
      BY <3>1, <3>2
  <2> QED
    BY <1>2, <1>6, <1>9, <2>1, StaysPending
<1> QED
  BY <1>2, <1>7, <1>8, <1>9, ReaderStepInv

\* A fetch that fails is one reader that does not bring the write.
LEMMA FetchFailsInv ==
  ASSUME ReplicationInv, NEW t \in tasks, FetchFails(t)
  PROVE  ReplicationInv'
<1>1. /\ LogInv /\ DbInv /\ ReadInv /\ WayInv
  BY DEF ReplicationInv
<1>2. /\ t.row = None /\ tasks' = tasks \ {t}
      /\ failures' = failures \union {[reader |-> t.source, key |-> t.key, ts |-> t.ts]}
      /\ UNCHANGED <<vars, refused, db, log, read, last, scanned, rows>>
  BY DEF FetchFails
<1>3. UNCHANGED <<db, log>> /\ rows' = rows
  BY <1>2
<1>4. WayInv' /\ \A n \in DOMAIN rows : n \in DOMAIN rows' /\ rows'[n] = rows[n]
  <2>1. tasks' \subseteq RowTask /\ \A x \in tasks' : TaskFits(x)
    BY <1>1, <1>2 DEF WayInv
  <2> QED
    BY <1>1, <1>3, <2>1, WayStep
<1>5. ReadInv'
  BY <1>1, <1>2 DEF ReadInv
<1>6. ASSUME NEW k \in Key, NEW r \in Reader, Pending(r, k)
      PROVE  Pending(r, k)' \/ FetchFailed(r, k)'
  <2>1. CASE t.source = r /\ Brings(t, k)
    <3>1. t.key = k /\ t.ts = LastTs(k) /\ LastTs(k)' = LastTs(k)
      BY <1>2, <1>3, <2>1, BaseUnchanged DEF Brings
    <3> QED
      BY <1>2, <2>1, <3>1 DEF FetchFailed
  <2>2. CASE ~(t.source = r /\ Brings(t, k))
    <3>1. \A x \in tasks \ tasks' : ~(x.source = r /\ Brings(x, k))
      BY <1>2, <2>2
    <3> QED
      BY <1>2, <1>3, <1>6, <3>1, StaysPending
  <2> QED
    BY <2>1, <2>2
<1>7. failures \subseteq failures'
  BY <1>2
<1> QED
  BY <1>2, <1>4, <1>5, <1>6, <1>7, ReaderStepInv

LEMMA SendTaskInv ==
  ASSUME ReplicationInv, NEW t \in tasks, SendTask(t)
  PROVE  ReplicationInv'
<1> DEFINE m == t.row
<1>1. /\ LogInv /\ DbInv /\ ReadInv /\ WayInv
  BY DEF ReplicationInv
<1>2. /\ m # None /\ rows' = Append(rows, m) /\ tasks' = tasks \ {t}
      /\ UNCHANGED <<vars, refused, db, log, read, last, scanned, failures>>
  BY DEF SendTask, Send
<1>3. m \in RowMessage /\ m.key = t.key /\ MessageFits(m)
  BY <1>1, <1>2 DEF WayInv, RowTask, TaskFits
<1> HIDE DEF m
<1>4. UNCHANGED <<db, log>>
  BY <1>2
<1>5. WayInv' /\ \A n \in DOMAIN rows : n \in DOMAIN rows' /\ rows'[n] = rows[n]
  <2>1. tasks' \subseteq RowTask /\ \A x \in tasks' : TaskFits(x)
    BY <1>1, <1>2 DEF WayInv
  <2> QED
    BY <1>1, <1>2, <1>3, <1>4, <2>1, WayStep
<1>6. ReadInv'
  BY <1>1, <1>2 DEF ReadInv
<1>7. ASSUME NEW k \in Key
      PROVE  Delivered(k)' \/ \A r \in Reader : Pending(r, k) => Pending(r, k)'
  <2>1. ASSUME NEW r \in Reader, Pending(r, k), ~Brings(t, k) PROVE Pending(r, k)'
    <3>1. \A x \in tasks \ tasks' : ~Brings(x, k)
      BY <1>2, <2>1
    <3> QED
      BY <1>2, <1>4, <2>1, <3>1, StaysPending
  <2>2. CASE Brings(t, k)
    <3>1. m.key = k /\ MessageIsCurrent(m)
      BY <1>2, <1>3, <2>2 DEF Brings, m
    <3>2. Len(rows) + 1 \in DOMAIN rows' /\ rows'[Len(rows) + 1] = m
      BY <1>1, <1>2, <1>3, AppendFacts DEF WayInv
    <3> QED
      BY <1>4, <3>1, <3>2, DeliveredBy
  <2> QED
    BY <2>1, <2>2
<1> QED
  BY <1>2, <1>5, <1>6, <1>7, ReaderStepInv

\* The full scan: a null has no time, so that it replaces nothing.
LEMMA ScanRowInv ==
  ASSUME ReplicationInv, Layout # "nonpk", NEW k \in Key, ScanRow(k)
  PROVE  ReplicationInv'
<1> DEFINE m == Fetched(k, 0)
           u == Task(Scan, k, 0, m)
<1>1. /\ LogInv /\ DbInv /\ ReadInv /\ WayInv
  BY DEF ReplicationInv
<1>2. /\ tasks' = IF RowExists(db[k]) THEN tasks \union {u} ELSE tasks
      /\ UNCHANGED <<vars, refused, db, log, read, last, rows, failures>>
  BY DEF ScanRow
<1>3. 0 \in Timestamp /\ 0 <= LastTs(k)
  BY <1>1, BaseFacts, TableAssumption DEF Timestamp
<1>4. RowExists(db[k]) => m \in RowMessage /\ m # None /\ m.key = k /\ MessageFits(m)
  BY <1>1, <1>3, FetchedFits
<1> HIDE DEF m
<1>5. RowExists(db[k]) => u \in RowTask /\ TaskFits(u)
  BY <1>3, <1>4 DEF Task, RowTask, TaskFits
<1> HIDE DEF u
<1>6. UNCHANGED <<db, log>> /\ rows' = rows
  BY <1>2
<1>7. WayInv' /\ \A n \in DOMAIN rows : n \in DOMAIN rows' /\ rows'[n] = rows[n]
  <2>1. tasks' \subseteq RowTask /\ \A x \in tasks' : TaskFits(x)
    BY <1>1, <1>2, <1>5 DEF WayInv
  <2> QED
    BY <1>1, <1>6, <2>1, WayStep
<1>8. ReadInv'
  BY <1>1, <1>2 DEF ReadInv
<1>9. ASSUME NEW j \in Key, NEW r \in Reader, Pending(r, j) PROVE Pending(r, j)'
  <2>1. tasks \ tasks' = {}
    BY <1>2
  <2> QED
    BY <1>2, <1>6, <1>9, <2>1, StaysPending
<1> QED
  BY <1>2, <1>7, <1>8, <1>9, ReaderStepInv

-----------------------------------------------------------------------------
(* The monitor-items actor.                                                *)

LEMMA TailFacts ==
  ASSUME NEW S, NEW s \in Seq(S), s # <<>>
  PROVE  /\ Head(s) \in S /\ 1 \in DOMAIN s /\ s[1] = Head(s)
         /\ Tail(s) \in Seq(S)
         /\ \A n \in DOMAIN Tail(s) : n + 1 \in DOMAIN s /\ Tail(s)[n] = s[n + 1]
         /\ \A n \in DOMAIN s : n = 1 \/ (n - 1 \in DOMAIN Tail(s) /\ Tail(s)[n - 1] = s[n])
  OBVIOUS

LEMMA ApplyRowTakes ==
  ASSUME TableInv, PlacedInv, Layout # "nonpk", NEW m \in RowMessage, MessageOK(m),
         \/ /\ m.op = "Upsert"
            /\ Upsert(m.key, m.values.vector, m.values.partition, m.values.filtering)
         \/ m.op = "Delete" /\ Delete(m.key, m.ts),
         ~IsRefused(m)
  PROVE  RowTaken(m.key, VectorOf(m), FilteringOf(m)) /\ PlacedInv' /\ TableInv'
<1>1. m.key \in Key
  BY DEF RowMessage
<1>2. CASE /\ m.op = "Upsert"
           /\ Upsert(m.key, m.values.vector, m.values.partition, m.values.filtering)
  <2>1. /\ m.values.vector \in Cell(Vector) /\ m.values.partition \in PartitionCell
        /\ m.values.filtering \in FilteringCell
    BY <1>2 DEF MessageOK
  <2> QED
    BY <1>1, <1>2, <2>1, UpsertTakes, UpsertInv DEF VectorOf, FilteringOf
<1>3. CASE m.op = "Delete" /\ Delete(m.key, m.ts)
  <2>1. m.ts \in 1 .. MaxTimestamp
    BY <1>3 DEF MessageOK
  <2> QED
    BY <1>1, <1>3, <2>1, DeleteTakes, DeleteInv DEF VectorOf, FilteringOf, IsRefused
<1> QED
  BY <1>2, <1>3

LEMMA RowTakenFits ==
  ASSUME LogInv, DbInv, TableInv, UNCHANGED <<db, log>>, NEW k \in Key,
         NEW v \in AnyTimed, NEW f, FilterValue # {} => f \in AnyTimed,
         RowFits(k, v, f), RowFits(k, VectorIn(k), FilteringIn(k)), RowTaken(k, v, f)
  PROVE  /\ RowFits(k, VectorIn(k), FilteringIn(k))'
         /\ RowIsCurrent(k, v, f) \/ RowIsCurrent(k, VectorIn(k), FilteringIn(k))
              => RowIsCurrent(k, VectorIn(k), FilteringIn(k))'
<1>1. /\ LastTs(k) \in Timestamp /\ db[k].vector \in AnyTimed /\ db[k].filtering \in AnyTimed
  BY BaseFacts
<1>2. VectorIn(k) \in AnyTimed /\ FilteringIn(k) \in AnyTimed
  BY TableCells
<1> DEFINE v2 == VectorIn(k)'
           f2 == FilteringIn(k)'
<1>3. Kept(VectorIn(k), v, v2) /\ (FilterValue # {} => Kept(FilteringIn(k), f, f2))
  BY DEF RowTaken, Kept
<1> HIDE DEF v2, f2
<1>4. /\ Fits(db[k].vector, v2, LastTs(k))
      /\ CellIsCurrent(db[k].vector, v, LastTs(k)) \/ CellIsCurrent(db[k].vector, VectorIn(k), LastTs(k))
           => CellIsCurrent(db[k].vector, v2, LastTs(k))
  BY <1>1, <1>2, <1>3, KeptFits DEF RowFits
<1>5. FilterValue # {} =>
      /\ Fits(db[k].filtering, f2, LastTs(k))
      /\ CellIsCurrent(db[k].filtering, f, LastTs(k)) \/ CellIsCurrent(db[k].filtering, FilteringIn(k), LastTs(k))
           => CellIsCurrent(db[k].filtering, f2, LastTs(k))
  BY <1>1, <1>2, <1>3, KeptFits DEF RowFits
<1>6. LastTs(k)' = LastTs(k) /\ db' = db
  BY BaseUnchanged
<1>7. RowFits(k, VectorIn(k), FilteringIn(k))'
  BY <1>4, <1>5, <1>6 DEF RowFits, v2, f2
<1>8. RowIsCurrent(k, v, f) \/ RowIsCurrent(k, VectorIn(k), FilteringIn(k))
        => RowIsCurrent(k, VectorIn(k), FilteringIn(k))'
  BY <1>4, <1>5, <1>6 DEF RowIsCurrent, v2, f2
<1> QED
  BY <1>7, <1>8

\* What the table has fits after a row with the cells v and f for k; if these
\* are the current ones, so is what it has, or the row was refused.
RowApplied(k, v, f) ==
  /\ PlacedInv' /\ TableInv'
  /\ \A j \in Key :
       /\ RowFits(j, VectorIn(j), FilteringIn(j))'
       /\ RowIsCurrent(j, VectorIn(j), FilteringIn(j)) => RowIsCurrent(j, VectorIn(j), FilteringIn(j))'
  /\ RowIsCurrent(k, v, f) => RowIsCurrent(k, VectorIn(k), FilteringIn(k))' \/ Refused(k)'

LEMMA ApplyRowInv ==
  ASSUME ReplicationInv, Layout # "nonpk", ApplyRow
  PROVE  ReplicationInv'
<1> DEFINE m == Head(rows)
           v == VectorOf(m)
           f == FilteringOf(m)
<1>1. /\ TableInv /\ LogInv /\ DbInv /\ ReadInv /\ WayInv /\ PlacedInv /\ InTableFits /\ NotMissed
  BY DEF ReplicationInv
<1>2. /\ rows # <<>> /\ rows' = Tail(rows)
      /\ UNCHANGED <<db, log>> /\ UNCHANGED <<read, last, tasks, failures>>
      /\ refused' = IF IsRefused(m) THEN refused \union {[key |-> m.key, ts |-> m.ts]} ELSE refused
      /\ \/ /\ m.op = "Upsert"
            /\ Upsert(m.key, m.values.vector, m.values.partition, m.values.filtering)
         \/ m.op = "Delete" /\ Delete(m.key, m.ts)
  BY DEF ApplyRow, readerVars
<1>3. /\ m \in RowMessage /\ 1 \in DOMAIN rows /\ rows[1] = m
      /\ rows' \in Seq(RowMessage)
      /\ \A n \in DOMAIN rows' : n + 1 \in DOMAIN rows /\ rows'[n] = rows[n + 1]
      /\ \A n \in DOMAIN rows : n = 1 \/ (n - 1 \in DOMAIN rows' /\ rows'[n - 1] = rows[n])
  BY <1>1, <1>2, TailFacts DEF WayInv
<1>4. MessageFits(m) /\ m.key \in Key
  BY <1>1, <1>3 DEF WayInv, RowMessage
<1> HIDE DEF m
<1>5. MessageOK(m) /\ RowFits(m.key, v, f)
  BY <1>4 DEF MessageFits
<1>6. v \in AnyTimed /\ (FilterValue # {} => f \in AnyTimed)
  BY <1>5, MessageCells
<1>7. PICK k \in Key : k = m.key
  BY <1>4
<1> HIDE DEF v, f
<1>8. LastTs(k)' = LastTs(k) /\ \A j : LastTs(j)' = LastTs(j)
  BY <1>2, BaseUnchanged
<1>9. ASSUME ~IsRefused(m) PROVE RowApplied(k, v, f)
  <2>1. RowTaken(k, v, f) /\ PlacedInv' /\ TableInv'
    BY <1>1, <1>2, <1>3, <1>5, <1>7, <1>9, ApplyRowTakes DEF v, f
  <2>2. /\ RowFits(k, VectorIn(k), FilteringIn(k))'
        /\ RowIsCurrent(k, v, f) \/ RowIsCurrent(k, VectorIn(k), FilteringIn(k))
             => RowIsCurrent(k, VectorIn(k), FilteringIn(k))'
    BY <1>1, <1>2, <1>5, <1>6, <1>7, <2>1, RowTakenFits DEF InTableFits
  <2>3. ASSUME NEW j \in Key, j # k
        PROVE  /\ RowFits(j, VectorIn(j), FilteringIn(j))'
               /\ RowIsCurrent(j, VectorIn(j), FilteringIn(j)) => RowIsCurrent(j, VectorIn(j), FilteringIn(j))'
    <3>1. VectorIn(j)' = VectorIn(j) /\ FilteringIn(j)' = FilteringIn(j)
      BY <2>1, <2>3 DEF RowTaken
    <3> QED
      BY <1>1, <1>2, <1>8, <3>1 DEF InTableFits, RowFits, RowIsCurrent
  <2> QED
    BY <2>1, <2>2, <2>3 DEF RowApplied
<1>10. ASSUME IsRefused(m) PROVE RowApplied(k, v, f)
  <2>1. UNCHANGED vars /\ UNCHANGED tableVars
    BY <1>2, <1>10 DEF IsRefused, Delete, vars
  <2>2. PlacedInv' /\ TableInv' /\ \A j : VectorIn(j)' = VectorIn(j) /\ FilteringIn(j)' = FilteringIn(j)
    BY <1>1, <2>1, NextInv, TableUnchanged
  <2>3. ASSUME NEW j \in Key
        PROVE  /\ RowFits(j, VectorIn(j), FilteringIn(j))'
               /\ RowIsCurrent(j, VectorIn(j), FilteringIn(j)) => RowIsCurrent(j, VectorIn(j), FilteringIn(j))'
    BY <1>1, <1>2, <1>8, <2>2 DEF InTableFits, RowFits, RowIsCurrent
  <2>4. RowIsCurrent(k, v, f) => Refused(k)'
    <3> SUFFICES ASSUME RowIsCurrent(k, v, f) PROVE Refused(k)'
      OBVIOUS
    <3>1. v = Tombstone(m.ts)
      BY <1>10 DEF v, VectorOf, IsRefused
    <3>2. m.ts = LastTs(k)
      BY <3>1 DEF RowIsCurrent, CellIsCurrent, Tombstone
    <3> QED
      BY <1>2, <1>7, <1>8, <1>10, <3>2 DEF Refused
  <2> QED
    BY <2>2, <2>3, <2>4 DEF RowApplied
<1>11. RowApplied(k, v, f) /\ InTableFits' /\ PlacedInv' /\ TableInv'
  BY <1>9, <1>10 DEF RowApplied, InTableFits
<1>12. WayInv'
  <2>1. ASSUME NEW n \in DOMAIN rows' PROVE MessageFits(rows[n])'
    <3>1. PICK x : x = rows'[n]
      OBVIOUS
    <3>2. MessageFits(x)
      BY <1>1, <1>3, <3>1 DEF WayInv
    <3>3. MessageFits(x)'
      BY <1>2, <3>2, BaseUnchanged
    <3> QED
      BY <3>1, <3>3 DEF MessageFits, MessageOK, VectorOf, FilteringOf
  <2>2. \A t \in tasks' : TaskFits(t)'
    BY <1>1, <1>2, BaseUnchanged DEF WayInv
  <2> QED
    BY <1>1, <1>2, <1>3, <2>1, <2>2 DEF WayInv
<1>13. ReadInv'
  BY <1>1, <1>2 DEF ReadInv
<1>14. LogInv' /\ DbInv'
  BY <1>1, <1>2, BaseUnchanged
<1>15. ASSUME NEW j \in Key, Delivered(j) PROVE Delivered(j)' \/ Refused(j)'
  <2>1. CASE \E n \in DOMAIN rows : rows[n].key = j /\ MessageIsCurrent(rows[n])
    <3>1. PICK n \in DOMAIN rows : rows[n].key = j /\ MessageIsCurrent(rows[n])
      BY <2>1
    <3>2. CASE n = 1
      <4>1. j = k /\ RowIsCurrent(k, v, f)
        BY <1>3, <1>7, <3>1, <3>2 DEF MessageIsCurrent, v, f
      <4> QED
        BY <1>11, <4>1 DEF Delivered, RowApplied
    <3>3. CASE n # 1
      <4>1. n - 1 \in DOMAIN rows' /\ rows'[n - 1] = rows[n]
        BY <1>3, <3>3
      <4> QED
        BY <1>2, <3>1, <4>1, DeliveredBy
    <3> QED
      BY <3>2, <3>3
  <2>2. CASE RowIsCurrent(j, VectorIn(j), FilteringIn(j))
    BY <1>11, <2>2 DEF Delivered, RowApplied
  <2> QED
    BY <1>15, <2>1, <2>2 DEF Delivered
<1>16. NotMissed'
  <2>1. ASSUME NEW j \in Key
        PROVE  /\ \A r \in Reader : Pending(r, j) => Pending(r, j)'
               /\ \A r \in Reader : FetchFailed(r, j) => FetchFailed(r, j)'
               /\ Refused(j) => Refused(j)'
    <3>1. tasks \ tasks' = {} /\ last' = last /\ failures \subseteq failures' /\ refused \subseteq refused'
      BY <1>2
    <3> QED
      BY <1>2, <3>1, StaysPending, BaseUnchanged
  <2> QED
    BY <1>1, <1>8, <1>15, <2>1 DEF NotMissed
<1> QED
  BY <1>11, <1>12, <1>13, <1>14, <1>16 DEF ReplicationInv

LEMMA SendOperationsInv ==
  ASSUME ReplicationInv, SendOperations
  PROVE  ReplicationInv'
<1>1. /\ TableInv /\ LogInv /\ DbInv /\ ReadInv /\ WayInv /\ PlacedInv /\ InTableFits /\ NotMissed
  BY DEF ReplicationInv
<1>2. /\ TakeOperations /\ UNCHANGED tableVars /\ UNCHANGED <<db, log>>
      /\ UNCHANGED <<read, last, tasks, failures, refused, rows>>
  BY DEF SendOperations, TakeOperations, readerVars
<1>3. TableInv' /\ PlacedInv' /\ LogInv' /\ DbInv'
  BY <1>1, <1>2, NextInv, TableUnchanged, BaseUnchanged DEF Next
<1>4. /\ \A k : VectorIn(k)' = VectorIn(k) /\ FilteringIn(k)' = FilteringIn(k)
      /\ \A k : LastTs(k)' = LastTs(k)
  BY <1>2, TableUnchanged, BaseUnchanged
<1>5. InTableFits' /\ ReadInv'
  BY <1>1, <1>2, <1>4 DEF InTableFits, RowFits, ReadInv
<1>6. WayInv'
  BY <1>1, <1>2, WayStep DEF WayInv
<1>7. NotMissed'
  <2>1. \A k : Delivered(k) => Delivered(k)'
    BY <1>2, <1>4 DEF Delivered, MessageIsCurrent, RowIsCurrent, VectorOf, FilteringOf
  <2>2. ASSUME NEW k \in Key
        PROVE  /\ Refused(k) => Refused(k)'
               /\ \A r \in Reader : FetchFailed(r, k) => FetchFailed(r, k)'
               /\ \A r \in Reader : Pending(r, k) => Pending(r, k)'
    <3>1. tasks \ tasks' = {} /\ last' = last /\ failures \subseteq failures' /\ refused \subseteq refused'
      BY <1>2
    <3> QED
      BY <1>2, <3>1, StaysPending, BaseUnchanged
  <2> QED
    BY <1>1, <1>4, <2>1, <2>2 DEF NotMissed
<1> QED
  BY <1>1, <1>2, <1>3, <1>5, <1>6, <1>7 DEF ReplicationInv

LEMMA ReplicationUnchanged ==
  ASSUME ReplicationInv, UNCHANGED replicationVars
  PROVE  ReplicationInv'
<1>1. /\ UNCHANGED <<vars, refused, db, log>> /\ UNCHANGED <<db, log>>
      /\ UNCHANGED <<read, last, tasks, failures, rows>>
  BY DEF replicationVars, readerVars
<1>2. ReadInv' /\ WayInv'
  BY <1>1, WayStep DEF ReplicationInv, ReadInv, WayInv
<1>3. ASSUME NEW k, NEW r, Pending(r, k) PROVE Pending(r, k)'
  BY <1>1, <1>3, StaysPending
<1> QED
  BY <1>1, <1>2, <1>3, ReaderStepInv

LEMMA ReplicationInitInv ==
  ASSUME ReplicationInit
  PROVE  ReplicationInv
<1>1. /\ Init /\ db = [k \in Key |-> EmptyRow] /\ log = <<>>
      /\ read = [r \in Reader |-> 0] /\ last = [r \in Reader |-> None]
      /\ tasks = {} /\ rows = <<>>
  BY DEF ReplicationInit
<1>2. TableInv
  BY <1>1, InitInv
<1>3. log \in Seq(LogEntry) /\ DOMAIN log = {} /\ Len(log) = 0
  BY <1>1
<1>4. MaxTimestamp \in Nat /\ LogCopies \in Nat \ {0}
  BY ReplicationAssumption, TableAssumption
<1>5. Len(log) = LogCopies * 0 /\ 0 \in 0 .. MaxTimestamp
  BY <1>3, <1>4
<1>6. Now = 0
  BY <1>5, LogCounts DEF Now
<1>7. \A k : IsLastIn(log, k, 0) /\ LastTs(k) = 0
  BY <1>3, <1>5, LastTsUnique DEF IsLastIn, LastTs
<1>8. LogInv
  BY <1>3, <1>5, <1>6, <1>7 DEF LogInv, LogOK, LastTs
<1>9. NullCell \in Cell(Vector) /\ NullCell \in FilteringCell
  BY DEF NullCell, Cell, FilteringCell
<1>10. EmptyRow \in DbRow /\ EmptyRow.vector = NullCell /\ EmptyRow.filtering = NullCell
  BY <1>9 DEF EmptyRow, DbRow
<1>11. NullCell.ts = 0 /\ NullCell.value = None
  BY DEF NullCell
<1>12. DbInv
  BY <1>1, <1>3, <1>7, <1>10, <1>11 DEF DbInv
<1>13. ReadInv
  BY <1>1 DEF ReadInv
<1>14. WayInv
  BY <1>1 DEF WayInv
<1>15. \A k \in Key : primary_ids[k] = None
  BY <1>1 DEF Init
<1>16. PlacedInv
  <2>1. \A i \in PrimaryIdx : /\ values_timestamps[i].ts = 0 /\ values_timestamps[i].tombstone
                              /\ columns[i].filtering = NullCell
    BY <1>1 DEF Init, NewIndex
  <2> QED
    BY <1>15, <2>1 DEF PlacedInv
<1>17. InTableFits
  <2>1. ASSUME NEW k \in Key PROVE RowFits(k, VectorIn(k), FilteringIn(k))
    <3>1. VectorIn(k) = NullCell /\ FilteringIn(k) = NullCell
      BY <1>15 DEF VectorIn, FilteringIn
    <3>2. db[k].vector = NullCell /\ db[k].filtering = NullCell
      BY <1>1, <1>10
    <3> QED
      BY <1>7, <1>11, <3>1, <3>2 DEF RowFits, Fits
  <2> QED
    BY <2>1 DEF InTableFits
<1>18. NotMissed
  BY <1>7 DEF NotMissed
<1> QED
  BY <1>2, <1>8, <1>12, <1>13, <1>14, <1>16, <1>17, <1>18 DEF ReplicationInv

LEMMA ReplicationNextInv ==
  ASSUME ReplicationInv, Layout # "nonpk", [ReplicationNext]_replicationVars
  PROVE  ReplicationInv'
<1>1. CASE Write
  BY <1>1, WriteInv
<1>2. CASE \E r \in Reader : SkipEntry(r) \/ ConsumeEntry(r)
  BY <1>2, SkipEntryInv, ConsumeEntryInv
<1>3. CASE \E t \in tasks : FetchRow(t) \/ SendTask(t)
  BY <1>3, FetchRowInv, SendTaskInv
<1>4. CASE \E k \in Key : ScanRow(k)
  BY <1>4, ScanRowInv
<1>5. CASE ApplyRow
  BY <1>5, ApplyRowInv
<1>6. CASE SendOperations
  BY <1>6, SendOperationsInv
<1>7. CASE \E t \in tasks : FetchFails(t)
  BY <1>7, FetchFailsInv
<1>8. CASE Done
  BY <1>8, ReplicationUnchanged DEF Done
<1>9. CASE UNCHANGED replicationVars
  BY <1>9, ReplicationUnchanged
<1> QED
  BY <1>1, <1>2, <1>3, <1>4, <1>5, <1>6, <1>7, <1>8, <1>9 DEF ReplicationNext, Replicate

\* When the readers have caught up, the last write has come, unless it was
\* refused or no reader could fetch it.
LEMMA QuiescentDelivered ==
  ASSUME ReplicationInv, Quiescent, NEW k \in Key, LastTs(k) # 0,
         ~Refused(k), NEW s \in Reader, ~FetchFailed(s, k)
  PROVE  RowIsCurrent(k, VectorIn(k), FilteringIn(k))
<1>1. /\ LogInv /\ DbInv /\ ReadInv /\ NotMissed
  BY DEF ReplicationInv
<1>2. rows = <<>> /\ tasks = {} /\ \A r \in Reader : read[r] = Len(log)
  BY DEF Quiescent
<1>3. log \in Seq(LogEntry) /\ DOMAIN log = 1 .. Len(log) /\ Len(log) \in Nat
  BY <1>1 DEF LogInv, LogOK
<1>4. LastTs(k) \in Nat /\ IsLastIn(log, k, LastTs(k))
  BY <1>1, BaseFacts, TableAssumption DEF Timestamp
<1>5. PICK n \in DOMAIN log : log[n].key = k /\ log[n].ts = LastTs(k)
  BY <1>4 DEF IsLastIn
<1>6. n <= Len(log) /\ Len(log) \in DOMAIN log /\ Len(log) # 0
  BY <1>3
<1>7. log[n].ts <= log[Len(log)].ts
  BY <1>1, <1>6 DEF LogInv, LogOK
<1>8. log[Len(log)] \in LogEntry /\ log[Len(log)].ts \in Nat
  BY <1>3, <1>6, EntryTimes
<1>9. ASSUME NEW r \in Reader PROVE ~Pending(r, k)
  <2>1. last[r] = log[Len(log)]
    BY <1>1, <1>2, <1>6 DEF ReadInv
  <2>2. ActedOn(r) = log[Len(log)].ts
    BY <1>8, <2>1, NoneAssumption DEF ActedOn
  <2>3. ~(ActedOn(r) < LastTs(k))
    BY <1>4, <1>5, <1>7, <1>8, <2>2
  <2> QED
    BY <1>2, <2>3 DEF Pending
<1>10. Delivered(k)
  BY <1>1, <1>9 DEF NotMissed
<1> QED
  BY <1>2, <1>10 DEF Delivered

LEMMA QuiescentInSync ==
  ASSUME ReplicationInv, Layout # "nonpk", Quiescent, NEW k \in Key,
         ~Refused(k), NEW s \in Reader, ~FetchFailed(s, k)
  PROVE  InSync(k)
<1> DEFINE i == primary_ids[k]
           v == VectorIn(k)
           f == FilteringIn(k)
<1>1. /\ TableInv /\ LogInv /\ DbInv /\ PlacedInv /\ InTableFits
  BY DEF ReplicationInv
<1>2. /\ db[k].vector \in Cell(Vector) /\ db[k].filtering \in FilteringCell
      /\ db[k].vector.ts <= LastTs(k) /\ LastTs(k) \in Nat
      /\ db[k].vector.ts \in Nat
  BY <1>1, BaseFacts, TableAssumption DEF Timestamp, AnyTimed
<1>3. v \in AnyTimed /\ f \in FilteringCell /\ v.ts \in Nat
  BY <1>1, TableCells, TableAssumption DEF AnyTimed, Timestamp
<1>4. RowFits(k, v, f)
  BY <1>1 DEF InTableFits
<1>5. i # None => /\ i \in PrimaryIdx /\ v = RowCell(i) /\ f = columns[i].filtering
                  /\ values_timestamps[i].tombstone \/ indexed[i] # None
  BY <1>1 DEF VectorIn, FilteringIn, TableInv, TypeOK, PlacedInv
<1>6. i = None => v.value = None
  BY DEF VectorIn, NullCell
<1>7. LastTs(k) # 0 => RowIsCurrent(k, v, f)
  BY QuiescentDelivered
<1> HIDE DEF v, f
<1>8. PkPartition[k] \in PartitionKey /\ PkPartition[k] # None
  BY TableAssumption
<1>9. CASE db[k].vector.value = None
  <2>1. v.value = None
    <3>1. CASE LastTs(k) = 0
      BY <1>2, <1>3, <1>4, <1>9, <3>1 DEF RowFits, Fits
    <3>2. CASE LastTs(k) # 0
      BY <1>7, <1>9, <3>2 DEF RowIsCurrent, CellIsCurrent
    <3> QED
      BY <3>1, <3>2
  <2>2. i # None => values_timestamps[i].tombstone
    BY <1>5, <2>1 DEF RowCell
  <2> QED
    BY <1>9, <2>2 DEF InSync, DbPartitionKey
<1>10. CASE db[k].vector.value # None
  <2>1. LastTs(k) # 0
    BY <1>2, <1>10, TableAssumption DEF Cell
  <2>2. v = db[k].vector /\ RowIsCurrent(k, v, f)
    BY <1>7, <1>10, <2>1 DEF RowIsCurrent, CellIsCurrent
  <2>3. i # None /\ i \in PrimaryIdx /\ v = RowCell(i) /\ f = columns[i].filtering
    BY <1>5, <1>6, <1>10, <2>2
  <2>4. ~values_timestamps[i].tombstone /\ indexed[i] = db[k].vector.value
    BY <1>10, <2>2, <2>3 DEF RowCell
  <2>5. DbPartitionKey(k) = PkPartition[k]
    BY <1>10 DEF DbPartitionKey, PartitionKeyOf
  <2>6. Layout # "global" => ids[i] # None /\ keys[ids[i]] = PkPartition[k]
    <3>1. Layout # "global" => Layout = "pk"
      BY TableAssumption
    <3> QED
      BY <1>1, <2>3, <2>4, <3>1 DEF TableInv, RowsInPartitions, PlacedInv
  <2>7. columns[i].filtering.value = db[k].filtering.value
    <3>1. CASE FilterValue = {}
      BY <1>2, <1>3, <2>3, <3>1 DEF FilteringCell
    <3>2. CASE FilterValue # {}
      BY <2>2, <2>3, <3>2 DEF RowIsCurrent, CellIsCurrent
    <3> QED
      BY <3>1, <3>2
  <2> QED
    BY <1>8, <2>3, <2>4, <2>5, <2>6, <2>7 DEF InSync
<1> QED
  BY <1>9, <1>10

LEMMA QuiescentAccounted ==
  ASSUME ReplicationInv, Layout # "nonpk"
  PROVE  Accounted
<1> SUFFICES ASSUME Quiescent, NEW k \in Key, ~Refused(k), ~(\A r \in Reader : FetchFailed(r, k))
             PROVE  InSync(k)
  BY DEF Accounted, Settled
<1>1. PICK s \in Reader : ~FetchFailed(s, k)
  OBVIOUS
<1> QED
  BY <1>1, QuiescentInSync

\* The invariant of the replication holds in every state of it.
THEOREM ReplicationInvariant ==
  ASSUME Layout # "nonpk"
  PROVE  ReplicationSpec => []ReplicationInv
<1>1. ReplicationInit => ReplicationInv
  BY ReplicationInitInv
<1>2. ReplicationInv /\ [ReplicationNext]_replicationVars => ReplicationInv'
  BY ReplicationNextInv
<1> QED
  BY <1>1, <1>2, PTL DEF ReplicationSpec

\* Once the readers have caught up the table agrees with the base table, for
\* every number of keys, writes, readers, failures and row ids reserved at a
\* time, in whatever order the rows come that the readers and the scan read at
\* different times; but for a key whose last write was a delete that the table
\* refused, or could not be fetched by any reader.  The index is one whose rows
\* are partitioned by the primary key or not at all: with a regular partition
\* column, AddToExisting is no change of partitions (table/mod.rs:317).
THEOREM Convergence ==
  ASSUME Layout # "nonpk"
  PROVE  ReplicationSpec => []Accounted
<1>1. ReplicationInv => Accounted
  BY QuiescentAccounted
<1>2. ReplicationSpec => []ReplicationInv
  BY ReplicationInvariant
<1> QED
  BY <1>1, <1>2, PTL

\* The same of the index of MCReplicas that is partitioned by the primary key
\* (the property of its run).
THEOREM ReplicaConvergence ==
  ASSUME Layout # "nonpk"
  PROVE  ReplicasSpec => [](instance = "pk" => AllAccounted)
<1> DEFINE Inv == instance = "pk" => ReplicationInv
<1>1. ReplicasInit => Inv
  BY ReplicationInitInv DEF ReplicasInit
<1>2. Inv /\ [ReplicasNext]_<<replicationVars, instance>> => Inv'
  <2> SUFFICES ASSUME Inv, [ReplicasNext]_<<replicationVars, instance>>, instance' = "pk"
               PROVE  ReplicationInv'
    OBVIOUS
  <2>1. instance = "pk" /\ [ReplicationNext]_replicationVars
    BY DEF ReplicasNext
  <2> QED
    BY <2>1, ReplicationNextInv
<1>3. Inv => (instance = "pk" => AllAccounted)
  BY QuiescentAccounted DEF AllAccounted
<1> QED
  BY <1>1, <1>2, <1>3, PTL DEF ReplicasSpec
=============================================================================
