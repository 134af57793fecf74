----------------------------- MODULE TableProofs -----------------------------
(***************************************************************************)
(* Proofs about Table, for every set of keys, every layout and every size  *)
(* of the reservations: the types, the uniqueness of row ids, the          *)
(* consistency of the partitions and the monotony of rows.                 *)
(***************************************************************************)
EXTENDS Table, FiniteSetTheorems, TLAPS

-----------------------------------------------------------------------------
(* The inductive invariant.  RowIdsUnique and PartitionsConsistent are not *)
(* inductive: that the ids of a new reservation are not in use follows     *)
(* from counting.  Every id in use or queued is below the number of keys   *)
(* in use plus the length of the queue, so when the queue is empty every   *)
(* id in use is below the number of keys, where the reservation starts.    *)

Distinct(s) == \A m, n \in DOMAIN s : s[m] = s[n] => m = n

PrimaryQueueOK(free) ==
  /\ free \in Seq(PrimaryIdx)
  /\ \A n \in DOMAIN free :
       /\ primary_keys[free[n]] = None
       /\ free[n] < Cardinality(Assigned(primary_ids)) + Len(free)
  /\ Distinct(free)
  /\ \A i \in PrimaryIdx :
       primary_keys[i] # None => i < Cardinality(Assigned(primary_ids)) + Len(free)

RowIdsInv ==
  /\ PrimaryQueueOK(free_primary_ids)
  /\ \A k \in Key : primary_ids[k] # None => primary_keys[primary_ids[k]] = k
  /\ \A i \in PrimaryIdx :
       primary_keys[i] # None => primary_ids[primary_keys[i]] = i
  /\ \A i \in PrimaryIdx : primary_keys[i] = None => values_timestamps[i].epoch = 0

QueueOK(m, ks, free) ==
  /\ free \in Seq(PartitionIdx)
  /\ \A n \in DOMAIN free :
       /\ ks[free[n]] = None
       /\ free[n] < Cardinality(Assigned(m)) + Len(free)
  /\ Distinct(free)
  /\ \A p \in PartitionIdx :
       ks[p] # None => p < Cardinality(Assigned(m)) + Len(free)

PartitionQueueOK(free) ==
  IF Layout = "global" THEN free \in Seq(PartitionIdx) ELSE QueueOK(map, keys, free)

RowsInPartitions ==
  Layout # "global" =>
    /\ \A i \in PrimaryIdx : ids[i] = None <=> values_timestamps[i].tombstone
    /\ \A i \in PrimaryIdx : ids[i] # None => keys[ids[i]] # None
    /\ \A p \in PartitionIdx : sizes[p] = Cardinality(RowsIn(p))

KeysOfPartitions ==
  Layout # "global" =>
    /\ \A p \in PartitionIdx : keys[p] # None => sizes[p] > 0 /\ map[keys[p]] = p
    /\ \A k \in PartitionKey : map[k] # None => keys[map[k]] = k

TableInv ==
  /\ TypeOK
  /\ RowIdsInv
  /\ PartitionQueueOK(free_ids)
  /\ RowsInPartitions
  /\ KeysOfPartitions

-----------------------------------------------------------------------------
(* Sequences, sets and queues.                                             *)

LEMMA SeqElement ==
  ASSUME NEW S, NEW s \in Seq(S), NEW n \in DOMAIN s
  PROVE  s[n] \in S /\ n \in Nat /\ n >= 1 /\ n <= Len(s)
  OBVIOUS

\* The head and the tail of a queue without repetitions.
LEMMA TakeFromQueue ==
  ASSUME NEW S, NEW s \in Seq(S), s # <<>>, Distinct(s)
  PROVE  /\ Head(s) \in S /\ Head(s) = s[1] /\ 1 \in DOMAIN s
         /\ Tail(s) \in Seq(S) /\ Len(Tail(s)) = Len(s) - 1
         /\ \A n \in DOMAIN Tail(s) : /\ n + 1 \in DOMAIN s
                                      /\ Tail(s)[n] = s[n + 1]
                                      /\ Tail(s)[n] # Head(s)
         /\ Distinct(Tail(s))
  BY DEF Distinct

\* Returning an id that is not queued to a queue without repetitions.
LEMMA ReturnToQueue ==
  ASSUME NEW S, NEW s \in Seq(S), Distinct(s),
         NEW e \in S, \A n \in DOMAIN s : s[n] # e
  PROVE  /\ Append(s, e) \in Seq(S) /\ Len(Append(s, e)) = Len(s) + 1
         /\ \A n \in DOMAIN Append(s, e) :
              Append(s, e)[n] = e \/ (n \in DOMAIN s /\ Append(s, e)[n] = s[n])
         /\ Distinct(Append(s, e))
  BY DEF Distinct

\* Reservation returns the ids from start on, each once.
LEMMA ReservationFacts ==
  ASSUME NEW start \in Nat, NEW increment \in Nat \ {0}, NEW size \in Nat,
         start <= size
  PROVE  LET r == Reservation(start, increment)
         IN /\ r \in Seq(0 .. (size + increment - 1)) /\ r # <<>>
            /\ Len(r) = increment
            /\ \A n \in DOMAIN r : r[n] >= start /\ r[n] < start + increment
            /\ Distinct(r)
  BY DEF Reservation, Distinct

LEMMA IdSets ==
  /\ Cardinality(Key) \in Nat /\ Cardinality(PartitionKey) \in Nat
  /\ PrimaryIdx = 0 .. (Cardinality(Key) + PrimaryIncrement - 1)
  /\ PartitionIdx = 0 .. (Cardinality(PartitionKey) + PartitionIncrement - 1)
  /\ IsFiniteSet(PrimaryIdx)
  /\ None \notin PrimaryIdx /\ None \notin PartitionIdx
  /\ GlobalPartition # None /\ GlobalPartition \notin PartitionIdx
<1>1. Cardinality(Key) \in Nat /\ Cardinality(PartitionKey) \in Nat
  BY FS_CardinalityType, TableAssumption
<1>2. IsFiniteSet(PrimaryIdx)
  BY <1>1, FS_Interval, TableAssumption DEF PrimaryIdx
<1> QED
  BY <1>1, <1>2, TableAssumption DEF PrimaryIdx, PartitionIdx, GlobalPartition

\* How many keys a map holds, and how that changes.
LEMMA AssignedFacts ==
  ASSUME NEW f, IsFiniteSet(DOMAIN f)
  PROVE  /\ Assigned(f) \subseteq DOMAIN f /\ IsFiniteSet(Assigned(f))
         /\ Cardinality(Assigned(f)) \in Nat
         /\ Cardinality(Assigned(f)) <= Cardinality(DOMAIN f)
         /\ Cardinality(DOMAIN f) \in Nat
<1>1. Assigned(f) \subseteq DOMAIN f
  BY DEF Assigned
<1> QED
  BY <1>1, FS_Subset, FS_CardinalityType

LEMMA AssignNew ==
  ASSUME NEW f, NEW g, IsFiniteSet(DOMAIN f), DOMAIN g = DOMAIN f,
         NEW k \in DOMAIN f,
         f[k] = None, g[k] # None, \A x \in DOMAIN f \ {k} : g[x] = f[x]
  PROVE  Cardinality(Assigned(g)) = Cardinality(Assigned(f)) + 1
<1>1. Assigned(g) = Assigned(f) \union {k}
  BY DEF Assigned
<1>2. k \notin Assigned(f)
  BY DEF Assigned
<1> QED
  BY <1>1, <1>2, AssignedFacts, FS_AddElement

LEMMA Unassign ==
  ASSUME NEW f, NEW g, IsFiniteSet(DOMAIN f), DOMAIN g = DOMAIN f,
         NEW k \in DOMAIN f,
         f[k] # None, g[k] = None, \A x \in DOMAIN f \ {k} : g[x] = f[x]
  PROVE  Cardinality(Assigned(g)) = Cardinality(Assigned(f)) - 1
<1>1. Assigned(g) = Assigned(f) \ {k}
  BY DEF Assigned
<1>2. k \in Assigned(f)
  BY DEF Assigned
<1> QED
  BY <1>1, <1>2, AssignedFacts, FS_RemoveElement

\* reserve_primary_ids keeps the queue right, and leaves it with an id.
LEMMA PrimaryReservation ==
  ASSUME TypeOK, RowIdsInv
  PROVE  PrimaryQueueOK(ReservedPrimaryIds) /\ ReservedPrimaryIds # <<>>
<1> DEFINE n == Cardinality(Assigned(primary_ids))
           r == Reservation(n, PrimaryIncrement)
<1>1. CASE free_primary_ids # <<>>
  BY <1>1 DEF RowIdsInv, ReservedPrimaryIds
<1>2. CASE free_primary_ids = <<>>
  <2>1. n \in Nat /\ n <= Cardinality(Key) /\ Cardinality(Key) \in Nat
    BY AssignedFacts, TableAssumption DEF TypeOK
  <2>2. ReservedPrimaryIds = r
    BY <1>2 DEF ReservedPrimaryIds
  <2>3. /\ r \in Seq(PrimaryIdx) /\ r # <<>> /\ Len(r) = PrimaryIncrement
        /\ \A m \in DOMAIN r : r[m] >= n /\ r[m] < n + PrimaryIncrement
        /\ Distinct(r)
    BY <2>1, ReservationFacts, TableAssumption DEF PrimaryIdx
  <2>4. \A i \in PrimaryIdx : primary_keys[i] # None => i < n
    BY <1>2, <2>1 DEF RowIdsInv, PrimaryQueueOK
  <2>5. ASSUME NEW m \in DOMAIN r
        PROVE  r[m] \in PrimaryIdx /\ primary_keys[r[m]] = None
    <3>1. r[m] \in PrimaryIdx
      BY <2>3
    <3>2. ~(r[m] < n)
      BY <2>1, <2>3, <3>1, IdSets
    <3> QED
      BY <2>4, <3>1, <3>2
  <2>6. \A i \in PrimaryIdx : primary_keys[i] # None => i < n + Len(r)
    BY <2>1, <2>3, <2>4, IdSets, TableAssumption
  <2> QED
    BY <2>2, <2>3, <2>5, <2>6 DEF PrimaryQueueOK
<1> QED
  BY <1>1, <1>2

\* reserve_partition_ids does the same for the partition ids of a local index.
LEMMA PartitionReservation ==
  ASSUME TypeOK, PartitionQueueOK(free_ids)
  PROVE  /\ PartitionQueueOK(ReservedPartitionIds)
         /\ Layout # "global" => ReservedPartitionIds # <<>>
<1> DEFINE n == Cardinality(Assigned(map))
           r == Reservation(n, PartitionIncrement)
<1>1. CASE Layout = "global" \/ free_ids # <<>>
  BY <1>1 DEF ReservedPartitionIds
<1>2. CASE Layout # "global" /\ free_ids = <<>>
  <2>1. n \in Nat /\ n <= Cardinality(PartitionKey) /\ Cardinality(PartitionKey) \in Nat
    BY AssignedFacts, TableAssumption DEF TypeOK
  <2>2. ReservedPartitionIds = r
    BY <1>2 DEF ReservedPartitionIds
  <2>3. /\ r \in Seq(PartitionIdx) /\ r # <<>> /\ Len(r) = PartitionIncrement
        /\ \A m \in DOMAIN r : r[m] >= n /\ r[m] < n + PartitionIncrement
        /\ Distinct(r)
    BY <2>1, ReservationFacts, TableAssumption DEF PartitionIdx
  <2>4. \A p \in PartitionIdx : keys[p] # None => p < n
    BY <1>2, <2>1 DEF PartitionQueueOK, QueueOK
  <2>5. ASSUME NEW m \in DOMAIN r
        PROVE  r[m] \in PartitionIdx /\ keys[r[m]] = None
    <3>1. r[m] \in PartitionIdx
      BY <2>3
    <3>2. ~(r[m] < n)
      BY <2>1, <2>3, <3>1, IdSets
    <3> QED
      BY <2>4, <3>1, <3>2
  <2>6. \A p \in PartitionIdx : keys[p] # None => p < n + Len(r)
    BY <2>1, <2>3, <2>4, IdSets, TableAssumption
  <2> QED
    BY <1>2, <2>2, <2>3, <2>5, <2>6 DEF PartitionQueueOK, QueueOK
<1> QED
  BY <1>1, <1>2

-----------------------------------------------------------------------------
(* add_primary_key.                                                        *)

RowIdsTypeOK ==
  /\ primary_ids \in [Key -> PrimaryIdx \union {None}]
  /\ primary_keys \in [PrimaryIdx -> Key \union {None}]

\* The two directions of the map between keys and row ids agree.
RowIdsAgree ==
  /\ \A k \in Key : primary_ids[k] # None => primary_keys[primary_ids[k]] = k
  /\ \A i \in PrimaryIdx :
       primary_keys[i] # None => primary_ids[primary_keys[i]] = i

\* A key gets a row id that no other key has, and keeps it.
LEMMA AddPrimaryKeyFacts ==
  ASSUME RowIdsTypeOK, RowIdsAgree, NEW k \in Key, NEW free, PrimaryQueueOK(free),
         primary_ids[k] = None => free # <<>>, AddPrimaryKey(k, free)
  PROVE  /\ RowId(k, free) \in PrimaryIdx
         /\ primary_keys[RowId(k, free)] \in {k, None}
         /\ primary_ids[k] = None => primary_keys[RowId(k, free)] = None
         /\ \A i \in PrimaryIdx :
              primary_keys'[i] = None => primary_keys[i] = None /\ i # RowId(k, free)
         /\ RowIdsTypeOK' /\ RowIdsAgree' /\ PrimaryQueueOK(free_primary_ids)'
<1>0. None \notin PrimaryIdx
  BY IdSets
<1>1. CASE primary_ids[k] # None
  <2>1. /\ UNCHANGED <<primary_ids, primary_keys>> /\ free_primary_ids' = free
        /\ RowId(k, free) = primary_ids[k]
    BY <1>1 DEF AddPrimaryKey, RowId
  <2>2. primary_ids[k] \in PrimaryIdx /\ primary_keys[primary_ids[k]] = k
    BY <1>1 DEF RowIdsTypeOK, RowIdsAgree
  <2>3. RowIdsTypeOK' /\ RowIdsAgree' /\ PrimaryQueueOK(free_primary_ids)'
    BY <2>1 DEF RowIdsTypeOK, RowIdsAgree, PrimaryQueueOK
  <2> QED
    BY <1>1, <2>1, <2>2, <2>3, TableAssumption
<1>2. CASE primary_ids[k] = None
  <2> DEFINE h == Head(free)
  <2>1. /\ free # <<>> /\ RowId(k, free) = h
        /\ free_primary_ids' = Tail(free)
        /\ primary_ids' = [primary_ids EXCEPT ![k] = h]
        /\ primary_keys' = [primary_keys EXCEPT ![h] = k]
    BY <1>2 DEF AddPrimaryKey, RowId
  <2>2. /\ h \in PrimaryIdx /\ h = free[1] /\ 1 \in DOMAIN free
        /\ Tail(free) \in Seq(PrimaryIdx) /\ Len(Tail(free)) = Len(free) - 1
        /\ \A n \in DOMAIN Tail(free) : /\ n + 1 \in DOMAIN free
                                        /\ Tail(free)[n] = free[n + 1]
                                        /\ Tail(free)[n] # h
        /\ Distinct(Tail(free))
    BY <2>1, TakeFromQueue DEF PrimaryQueueOK
  <2>3. primary_keys[h] = None
    BY <2>2 DEF PrimaryQueueOK
  <2>4. k # None
    BY TableAssumption
  <2>5. RowIdsTypeOK'
    BY <2>1, <2>2 DEF RowIdsTypeOK
  <2>6. RowIdsAgree'
    <3>1. h \in PrimaryIdx
      BY <2>2
    <3> HIDE DEF h
    <3>2. ASSUME NEW x \in Key, primary_ids'[x] # None
          PROVE  primary_keys'[primary_ids'[x]] = x
      <4>1. CASE x = k
        BY <2>1, <3>1, <4>1 DEF RowIdsTypeOK
      <4>2. CASE x # k
        <5>1. primary_ids'[x] = primary_ids[x]
          BY <2>1, <4>2 DEF RowIdsTypeOK
        <5>2. primary_ids[x] # h /\ primary_ids[x] \in PrimaryIdx
          BY <2>3, <3>2, <5>1, TableAssumption DEF RowIdsAgree, RowIdsTypeOK
        <5> QED
          BY <2>1, <3>2, <5>1, <5>2 DEF RowIdsAgree, RowIdsTypeOK
      <4> QED
        BY <4>1, <4>2
    <3>3. ASSUME NEW i \in PrimaryIdx, primary_keys'[i] # None
          PROVE  primary_ids'[primary_keys'[i]] = i
      <4>1. CASE i = h
        BY <2>1, <3>1, <4>1 DEF RowIdsTypeOK
      <4>2. CASE i # h
        <5>1. primary_keys'[i] = primary_keys[i] /\ primary_keys[i] \in Key
          BY <2>1, <3>3, <4>2 DEF RowIdsTypeOK
        <5>2. primary_keys[i] # k
          BY <1>0, <1>2, <3>3, <5>1 DEF RowIdsAgree
        <5> QED
          BY <2>1, <3>3, <5>1, <5>2 DEF RowIdsAgree, RowIdsTypeOK
      <4> QED
        BY <4>1, <4>2
    <3> QED
      BY <3>2, <3>3 DEF RowIdsAgree
  <2>7. Cardinality(Assigned(primary_ids')) = Cardinality(Assigned(primary_ids)) + 1
    <3>1. primary_ids'[k] # None /\ \A x \in Key \ {k} : primary_ids'[x] = primary_ids[x]
      BY <1>0, <2>1, <2>2 DEF RowIdsTypeOK
    <3>2. DOMAIN primary_ids = Key /\ DOMAIN primary_ids' = Key /\ IsFiniteSet(Key)
      BY <2>5, TableAssumption DEF RowIdsTypeOK
    <3> QED
      BY <1>2, <3>1, <3>2, AssignNew
  <2>8. /\ Cardinality(Assigned(primary_ids)) \in Nat
        /\ Len(free) \in Nat
    <3>1. Cardinality(Assigned(primary_ids)) \in Nat
      BY AssignedFacts, TableAssumption DEF RowIdsTypeOK
    <3> QED
      BY <3>1 DEF PrimaryQueueOK
  <2>9. /\ Len(free_primary_ids') = Len(free) - 1
        /\ Cardinality(Assigned(primary_ids')) + Len(free_primary_ids')
             = Cardinality(Assigned(primary_ids)) + Len(free)
    BY <2>1, <2>2, <2>7, <2>8
  <2>10. ASSUME NEW n \in DOMAIN free_primary_ids'
         PROVE  /\ primary_keys'[free_primary_ids'[n]] = None
                /\ free_primary_ids'[n] < Cardinality(Assigned(primary_ids))
                                            + Len(free)
    <3>1. /\ n + 1 \in DOMAIN free
          /\ free_primary_ids'[n] = free[n + 1] /\ free_primary_ids'[n] # h
      BY <2>1, <2>2
    <3>2. free[n + 1] \in PrimaryIdx
      BY <3>1, SeqElement DEF PrimaryQueueOK
    <3> QED
      BY <2>1, <3>1, <3>2 DEF PrimaryQueueOK, RowIdsTypeOK
  <2>11. ASSUME NEW i \in PrimaryIdx, primary_keys'[i] # None
         PROVE  i < Cardinality(Assigned(primary_ids)) + Len(free)
    BY <2>1, <2>2, <2>11 DEF PrimaryQueueOK, RowIdsTypeOK
  <2>12. PrimaryQueueOK(free_primary_ids)'
    BY <2>1, <2>2, <2>9, <2>10, <2>11 DEF PrimaryQueueOK
  <2>13. \A i \in PrimaryIdx : primary_keys'[i] = None => primary_keys[i] = None /\ i # h
    BY <2>1, <2>2, <2>4 DEF RowIdsTypeOK
  <2> QED
    BY <2>1, <2>2, <2>3, <2>5, <2>6, <2>12, <2>13
<1> QED
  BY <1>1, <1>2

-----------------------------------------------------------------------------
(* The partitions.                                                         *)

RowsOf(f, p) == {i \in PrimaryIdx : f[i] = p}

\* The size of a partition when one row joins it, leaves it or does neither.
LEMMA RowsOfFinite ==
  ASSUME NEW f, NEW q
  PROVE  IsFiniteSet(RowsOf(f, q)) /\ Cardinality(RowsOf(f, q)) \in Nat
<1>1. RowsOf(f, q) \subseteq PrimaryIdx
  BY DEF RowsOf
<1> QED
  BY <1>1, IdSets, FS_Subset, FS_CardinalityType

LEMMA RowJoins ==
  ASSUME NEW S, NEW T, NEW i, IsFiniteSet(S), T = S \union {i}, i \notin S
  PROVE  Cardinality(T) = Cardinality(S) + 1
  BY FS_AddElement

LEMMA RowLeaves ==
  ASSUME NEW S, NEW T, NEW i, IsFiniteSet(S), T = S \ {i}, i \in S
  PROVE  Cardinality(T) = Cardinality(S) - 1
  BY FS_RemoveElement

LEMMA RowStays ==
  ASSUME NEW f, NEW g, NEW q, NEW i \in PrimaryIdx, f[i] # q, g[i] # q,
         \A j \in PrimaryIdx \ {i} : g[j] = f[j]
  PROVE  RowsOf(g, q) = RowsOf(f, q)
  BY DEF RowsOf

VersionType == [epoch : 0 .. MaxUpdates, ts : Timestamp, tombstone : BOOLEAN]

IndexTypeOK ==
  /\ values_timestamps \in [PrimaryIdx -> VersionType]
  /\ map \in [PartitionKey -> PartitionIdx \union {None}]
  /\ keys \in [PartitionIdx -> PartitionKey \union {None}]
  /\ ids \in [PrimaryIdx -> PartitionIdx \union {None}]
  /\ sizes \in [PartitionIdx -> Nat]
  /\ operations \in Seq(Operation)
  /\ indexed \in [PrimaryIdx -> Vector \union {None}]

IndexOK == IndexTypeOK /\ RowsInPartitions /\ KeysOfPartitions

\* set_epoch and update_timestamps.
LEMMA SetTimestampFacts ==
  ASSUME IndexTypeOK, NEW i \in PrimaryIdx, values_timestamps[i].epoch < MaxUpdates,
         NEW ts \in Timestamp, NEW b \in BOOLEAN, SetTimestamp(i, ts, b)
  PROVE  /\ values_timestamps' \in [PrimaryIdx -> VersionType]
         /\ values_timestamps'[i].tombstone = b /\ values_timestamps'[i].ts = ts
         /\ values_timestamps'[i].epoch = values_timestamps[i].epoch + 1
         /\ \A j \in PrimaryIdx \ {i} : values_timestamps'[j] = values_timestamps[j]
  BY TableAssumption DEF IndexTypeOK, VersionType, SetTimestamp

LEMMA OperationTypes ==
  ASSUME IndexTypeOK, NEW i \in PrimaryIdx, values_timestamps[i].epoch < MaxUpdates,
         NEW p \in PartitionIdx \union {GlobalPartition}
  PROVE  /\ \A v \in Vector : AddVector(p, i, v) \in Seq(Operation)
         /\ RemoveBeforeAdd(p, i) \in Seq(Operation)
         /\ RemoveValue(p, i) \in Seq(Operation)
         /\ RemovePartition(p) \in Seq(Operation)
<1>1. values_timestamps[i].epoch \in 0 .. MaxUpdates
  BY DEF IndexTypeOK, VersionType
<1>2. values_timestamps[i].epoch + 1 \in 0 .. MaxUpdates /\ 0 \in 0 .. MaxUpdates
  BY <1>1, TableAssumption
<1>3. 0 \in PrimaryIdx
  BY IdSets, TableAssumption
<1> QED
  BY <1>1, <1>2, <1>3 DEF AddVector, RemoveBeforeAdd, RemoveValue, RemovePartition, Op,
              Operation, PrimaryId

\* UpdateWork::None, for a row without a partition.
LEMMA TouchOK ==
  ASSUME IndexOK, NEW i \in PrimaryIdx, values_timestamps[i].epoch < MaxUpdates,
         NEW ts \in Timestamp, NEW free, PartitionQueueOK(free),
         Layout # "global" => ids[i] = None, Touch(i, ts, free)
  PROVE  IndexOK' /\ PartitionQueueOK(free_ids)'
<1>1. /\ values_timestamps' \in [PrimaryIdx -> VersionType]
      /\ values_timestamps'[i].tombstone = TRUE
      /\ \A j \in PrimaryIdx \ {i} : values_timestamps'[j] = values_timestamps[j]
  BY SetTimestampFacts DEF Touch, IndexOK
<1>2. /\ free_ids' = free /\ operations' = <<>>
      /\ UNCHANGED <<map, keys, ids, sizes, indexed>>
  BY DEF Touch
<1>3. IndexTypeOK'
  BY <1>1, <1>2 DEF IndexOK, IndexTypeOK
<1>4. RowsInPartitions'
  BY <1>1, <1>2 DEF IndexOK, RowsInPartitions, RowsIn
<1>5. KeysOfPartitions' /\ PartitionQueueOK(free_ids)'
  BY <1>2 DEF IndexOK, KeysOfPartitions, PartitionQueueOK
<1> QED
  BY <1>3, <1>4, <1>5 DEF IndexOK

\* UpdateWork::MoveInsidePartition
LEMMA MoveInsideOK ==
  ASSUME IndexOK, NEW i \in PrimaryIdx, values_timestamps[i].epoch < MaxUpdates,
         NEW cell, cell.ts \in Timestamp, cell.value \in Vector,
         NEW p \in PartitionIdx \union {GlobalPartition},
         NEW free, PartitionQueueOK(free),
         Layout # "global" => ids[i] # None, MoveInsidePartition(i, cell, p, free)
  PROVE  IndexOK' /\ PartitionQueueOK(free_ids)'
<1>1. /\ values_timestamps' \in [PrimaryIdx -> VersionType]
      /\ values_timestamps'[i].tombstone = FALSE
      /\ \A j \in PrimaryIdx \ {i} : values_timestamps'[j] = values_timestamps[j]
  BY SetTimestampFacts DEF MoveInsidePartition, IndexOK
<1>2. /\ free_ids' = free
      /\ operations' = RemoveBeforeAdd(p, i) \o AddVector(p, i, cell.value)
      /\ indexed' = [indexed EXCEPT ![i] = cell.value]
      /\ UNCHANGED <<map, keys, ids, sizes>>
  BY DEF MoveInsidePartition
<1>3. operations' \in Seq(Operation)
  BY <1>2, OperationTypes DEF IndexOK
<1>4. IndexTypeOK'
  BY <1>1, <1>2, <1>3 DEF IndexOK, IndexTypeOK
<1>5. RowsInPartitions'
  BY <1>1, <1>2 DEF IndexOK, RowsInPartitions, RowsIn
<1>6. KeysOfPartitions' /\ PartitionQueueOK(free_ids)'
  BY <1>2 DEF IndexOK, KeysOfPartitions, PartitionQueueOK
<1> QED
  BY <1>4, <1>5, <1>6 DEF IndexOK

\* A partition without a key has no rows, a partition with a row has a key.
LEMMA FreePartitionEmpty ==
  ASSUME IndexOK, Layout # "global", NEW p \in PartitionIdx, keys[p] = None
  PROVE  sizes[p] = 0
<1>1. RowsIn(p) = {}
  BY IdSets DEF IndexOK, RowsInPartitions, RowsIn
<1> QED
  BY <1>1, FS_EmptySet DEF IndexOK, RowsInPartitions

MapType == [PartitionKey -> PartitionIdx \union {None}]
KeysType == [PartitionIdx -> PartitionKey \union {None}]

LEMMA QueueSizes ==
  ASSUME NEW m \in MapType, NEW free \in Seq(PartitionIdx)
  PROVE  Cardinality(Assigned(m)) \in Nat /\ Len(free) \in Nat
<1>1. DOMAIN m = PartitionKey
  BY DEF MapType
<1>2. Len(free) \in Nat
  OBVIOUS
<1> QED
  BY <1>1, <1>2, AssignedFacts, TableAssumption

\* create_partition: the key gets the first id of the queue.
LEMMA CreatePartition ==
  ASSUME NEW m \in MapType, NEW ks \in KeysType, NEW free, free # <<>>,
         QueueOK(m, ks, free), NEW key \in PartitionKey, m[key] = None
  PROVE  LET h == Head(free)
         IN /\ h \in PartitionIdx /\ ks[h] = None
            /\ [m EXCEPT ![key] = h] \in MapType
            /\ [ks EXCEPT ![h] = key] \in KeysType
            /\ QueueOK([m EXCEPT ![key] = h], [ks EXCEPT ![h] = key], Tail(free))
<1> DEFINE h == Head(free)
           mm == [m EXCEPT ![key] = h]
           kk == [ks EXCEPT ![h] = key]
           t == Tail(free)
<1>1. /\ h \in PartitionIdx /\ h = free[1] /\ 1 \in DOMAIN free
      /\ t \in Seq(PartitionIdx) /\ Len(t) = Len(free) - 1
      /\ \A n \in DOMAIN t : /\ n + 1 \in DOMAIN free
                             /\ t[n] = free[n + 1]
                             /\ t[n] # h
      /\ Distinct(t)
  BY TakeFromQueue DEF QueueOK
<1>2. ks[h] = None
  BY <1>1 DEF QueueOK
<1>3. mm \in MapType /\ kk \in KeysType
  BY <1>1 DEF MapType, KeysType
<1>4. Cardinality(Assigned(mm)) = Cardinality(Assigned(m)) + 1
  <2>1. /\ mm[key] # None
        /\ \A k \in PartitionKey \ {key} : mm[k] = m[k]
        /\ DOMAIN m = PartitionKey /\ DOMAIN mm = PartitionKey
    BY <1>1, IdSets DEF MapType
  <2> HIDE DEF mm
  <2> QED
    BY <2>1, AssignNew, TableAssumption
<1>5. Cardinality(Assigned(m)) \in Nat /\ Len(free) \in Nat
  BY QueueSizes DEF QueueOK
<1> HIDE DEF mm, kk, t
<1>6. Cardinality(Assigned(mm)) + Len(t) = Cardinality(Assigned(m)) + Len(free)
  BY <1>1, <1>4, <1>5
<1>7. ASSUME NEW n \in DOMAIN t
      PROVE  kk[t[n]] = None /\ t[n] < Cardinality(Assigned(m)) + Len(free)
  <2>1. n + 1 \in DOMAIN free /\ t[n] = free[n + 1] /\ t[n] # h
    BY <1>1
  <2>2. free[n + 1] \in PartitionIdx
    BY <2>1, SeqElement DEF QueueOK
  <2> QED
    BY <2>1, <2>2 DEF QueueOK, KeysType, kk
<1>8. ASSUME NEW p \in PartitionIdx, kk[p] # None
      PROVE  p < Cardinality(Assigned(m)) + Len(free)
  BY <1>1, <1>8 DEF QueueOK, KeysType, kk
<1>9. QueueOK(mm, kk, t)
  BY <1>1, <1>6, <1>7, <1>8 DEF QueueOK
<1> QED
  BY <1>1, <1>2, <1>3, <1>9 DEF mm, kk, t

\* The end of remove_row_from_partition: the key of an empty partition is
\* forgotten and its id returned to the queue.
LEMMA DropPartition ==
  ASSUME NEW m \in MapType, NEW ks \in KeysType, NEW free, QueueOK(m, ks, free),
         NEW p \in PartitionIdx, ks[p] # None, m[ks[p]] = p
  PROVE  LET mm == [k \in PartitionKey |-> IF k = ks[p] THEN None ELSE m[k]]
             kk == [q \in PartitionIdx |-> IF q = p THEN None ELSE ks[q]]
         IN mm \in MapType /\ kk \in KeysType /\ QueueOK(mm, kk, Append(free, p))
<1> DEFINE mm == [k \in PartitionKey |-> IF k = ks[p] THEN None ELSE m[k]]
           kk == [q \in PartitionIdx |-> IF q = p THEN None ELSE ks[q]]
           t == Append(free, p)
<1>1. \A n \in DOMAIN free : free[n] # p
  BY DEF QueueOK
<1>2. /\ t \in Seq(PartitionIdx) /\ Len(t) = Len(free) + 1
      /\ \A n \in DOMAIN t : t[n] = p \/ (n \in DOMAIN free /\ t[n] = free[n])
      /\ Distinct(t)
  BY <1>1, ReturnToQueue DEF QueueOK
<1>3. mm \in MapType /\ kk \in KeysType
  BY DEF MapType, KeysType
<1>4. Cardinality(Assigned(mm)) = Cardinality(Assigned(m)) - 1
  <2>1. /\ ks[p] \in PartitionKey /\ m[ks[p]] # None /\ mm[ks[p]] = None
        /\ \A k \in PartitionKey \ {ks[p]} : mm[k] = m[k]
        /\ DOMAIN m = PartitionKey /\ DOMAIN mm = PartitionKey
    BY IdSets DEF MapType, KeysType
  <2> HIDE DEF mm
  <2> QED
    BY <2>1, Unassign, TableAssumption
<1>5. Cardinality(Assigned(m)) \in Nat /\ Len(free) \in Nat
  BY QueueSizes DEF QueueOK
<1> HIDE DEF mm, kk, t
<1>6. Cardinality(Assigned(mm)) + Len(t) = Cardinality(Assigned(m)) + Len(free)
  BY <1>2, <1>4, <1>5
<1>7. ASSUME NEW n \in DOMAIN t
      PROVE  kk[t[n]] = None /\ t[n] < Cardinality(Assigned(m)) + Len(free)
  <2>1. t[n] \in PartitionIdx
    BY <1>2, SeqElement
  <2> QED
    BY <1>2, <2>1 DEF QueueOK, KeysType, kk
<1>8. ASSUME NEW q \in PartitionIdx, kk[q] # None
      PROVE  q < Cardinality(Assigned(m)) + Len(free)
  BY <1>8 DEF QueueOK, KeysType, kk
<1>9. QueueOK(mm, kk, t)
  BY <1>2, <1>6, <1>7, <1>8 DEF QueueOK
<1> QED
  BY <1>3, <1>9 DEF mm, kk, t

\* UpdateWork::AddToPartition in a local index: the row has no partition yet.
LEMMA AddToPartitionOK ==
  ASSUME IndexOK, Layout # "global", NEW i \in PrimaryIdx,
         values_timestamps[i].epoch < MaxUpdates, ids[i] = None,
         NEW cell, cell.ts \in Timestamp, cell.value \in Vector,
         NEW key \in PartitionKey, NEW free, PartitionQueueOK(free),
         map[key] = None => free # <<>>,
         AddToPartition(i, cell, key, map[key], free)
  PROVE  IndexOK' /\ PartitionQueueOK(free_ids)'
<1> DEFINE p == IF map[key] = None THEN Head(free) ELSE map[key]
<1>1. /\ values_timestamps' \in [PrimaryIdx -> VersionType]
      /\ values_timestamps'[i].tombstone = FALSE
      /\ \A j \in PrimaryIdx \ {i} : values_timestamps'[j] = values_timestamps[j]
  BY SetTimestampFacts
     DEF AddToPartition, PartitionFor, TakeId, RowInserted, IndexOK
<1>2. /\ ids' = [ids EXCEPT ![i] = p]
      /\ sizes' = [sizes EXCEPT ![p] = IF map[key] = None THEN 1 ELSE @ + 1]
      /\ operations' = AddVector(p, i, cell.value)
      /\ indexed' = [indexed EXCEPT ![i] = cell.value]
  BY DEF AddToPartition, PartitionFor, TakeId, RowInserted
<1>3. /\ p \in PartitionIdx
      /\ map' \in [PartitionKey -> PartitionIdx \union {None}]
      /\ keys' \in [PartitionIdx -> PartitionKey \union {None}]
      /\ PartitionQueueOK(free_ids)'
      /\ map'[key] = p /\ \A k \in PartitionKey \ {key} : map'[k] = map[k]
      /\ keys'[p] = key /\ \A q \in PartitionIdx \ {p} : keys'[q] = keys[q]
      /\ keys[p] \in {None, key}
      /\ map[key] = None => sizes[p] = 0
  <2>1. CASE map[key] = None
    <3>1. /\ map' = [map EXCEPT ![key] = Head(free)]
          /\ keys' = [keys EXCEPT ![Head(free)] = key]
          /\ free_ids' = Tail(free)
          /\ p = Head(free)
      BY <2>1 DEF AddToPartition, PartitionFor, TakeId, RowInserted
    <3>2. /\ Head(free) \in PartitionIdx /\ keys[Head(free)] = None
          /\ map' \in [PartitionKey -> PartitionIdx \union {None}]
          /\ keys' \in [PartitionIdx -> PartitionKey \union {None}]
          /\ PartitionQueueOK(free_ids)'
      <4>1. map \in MapType /\ keys \in KeysType /\ QueueOK(map, keys, free)
        BY DEF IndexOK, IndexTypeOK, MapType, KeysType, PartitionQueueOK
      <4>2. /\ Head(free) \in PartitionIdx /\ keys[Head(free)] = None
            /\ map' \in MapType /\ keys' \in KeysType
            /\ QueueOK(map', keys', free_ids')
        BY <2>1, <3>1, <4>1, CreatePartition
      <4> QED
        BY <4>2 DEF MapType, KeysType, PartitionQueueOK
    <3>3. sizes[p] = 0
      BY <3>1, <3>2, FreePartitionEmpty
    <3> QED
      BY <3>1, <3>2, <3>3 DEF IndexOK, IndexTypeOK
  <2>2. CASE map[key] # None
    <3>1. UNCHANGED <<map, keys>> /\ free_ids' = free /\ p = map[key]
      BY <2>2 DEF AddToPartition, PartitionFor, TakeId, RowInserted
    <3>2. p \in PartitionIdx /\ keys[p] = key
      BY <2>2, <3>1 DEF IndexOK, IndexTypeOK, KeysOfPartitions
    <3>3. PartitionQueueOK(free_ids)'
      BY <3>1 DEF PartitionQueueOK
    <3> QED
      BY <2>2, <3>1, <3>2, <3>3 DEF IndexOK, IndexTypeOK
  <2> QED
    BY <2>1, <2>2
<1> HIDE DEF p
<1>4. p # None /\ key # None
  BY <1>3, IdSets, TableAssumption
<1>5. sizes' \in [PartitionIdx -> Nat] /\ ids' \in [PrimaryIdx -> PartitionIdx \union {None}]
  BY <1>2, <1>3 DEF IndexOK, IndexTypeOK
<1>6. IndexTypeOK'
  BY <1>1, <1>2, <1>3, <1>5, OperationTypes DEF IndexOK, IndexTypeOK
<1>7. \A q \in PartitionIdx : sizes'[q] = Cardinality(RowsIn(q))'
  <2> SUFFICES ASSUME NEW q \in PartitionIdx
               PROVE  sizes'[q] = Cardinality(RowsOf(ids', q))
    BY DEF RowsIn, RowsOf
  <2>1. sizes[q] = Cardinality(RowsOf(ids, q)) /\ sizes[q] \in Nat
    BY DEF IndexOK, IndexTypeOK, RowsInPartitions, RowsIn, RowsOf
  <2>2. /\ ids[i] # q /\ ids'[i] = p
        /\ \A j \in PrimaryIdx \ {i} : ids'[j] = ids[j]
    BY <1>2, IdSets DEF IndexOK, IndexTypeOK
  <2>3. sizes'[q] = IF q = p THEN sizes[q] + 1 ELSE sizes[q]
    BY <1>2, <1>3, <2>1 DEF IndexOK, IndexTypeOK
  <2>4. CASE q = p
    <3>1. Cardinality(RowsOf(ids', q)) = Cardinality(RowsOf(ids, q)) + 1
      <4>1. RowsOf(ids', q) = RowsOf(ids, q) \union {i} /\ i \notin RowsOf(ids, q)
        BY <2>2, <2>4 DEF RowsOf
      <4> QED
        BY <4>1, RowsOfFinite, RowJoins
    <3> QED
      BY <2>1, <2>3, <2>4, <3>1
  <2>5. CASE q # p
    BY <2>1, <2>2, <2>3, <2>5, RowStays
  <2> QED
    BY <2>4, <2>5
<1>8. RowsInPartitions'
  <2>1. ASSUME NEW j \in PrimaryIdx
        PROVE  /\ ids'[j] = None <=> values_timestamps'[j].tombstone
               /\ ids'[j] # None => keys'[ids'[j]] # None
    <3>1. CASE j = i
      BY <1>1, <1>2, <1>3, <1>4, <3>1 DEF IndexOK, IndexTypeOK
    <3>2. CASE j # i
      <4>1. ids'[j] = ids[j] /\ values_timestamps'[j] = values_timestamps[j]
        BY <1>1, <1>2, <3>2 DEF IndexOK, IndexTypeOK
      <4>2. ids[j] # None => ids[j] \in PartitionIdx /\ keys[ids[j]] # None
        BY DEF IndexOK, IndexTypeOK, RowsInPartitions
      <4> QED
        BY <1>3, <1>4, <4>1, <4>2 DEF IndexOK, RowsInPartitions
    <3> QED
      BY <3>1, <3>2
  <2> QED
    BY <1>7, <2>1 DEF RowsInPartitions
<1>9. KeysOfPartitions'
  <2>1. ASSUME NEW q \in PartitionIdx, keys'[q] # None
        PROVE  sizes'[q] > 0 /\ map'[keys'[q]] = q
    <3>1. CASE q = p
      BY <1>2, <1>3, <3>1 DEF IndexOK, IndexTypeOK
    <3>2. CASE q # p
      <4>1. keys'[q] = keys[q] /\ sizes'[q] = sizes[q]
        BY <1>2, <1>3, <3>2 DEF IndexOK, IndexTypeOK
      <4>2. /\ keys[q] \in PartitionKey /\ map[keys[q]] = q /\ sizes[q] > 0
        BY <2>1, <4>1 DEF IndexOK, IndexTypeOK, KeysOfPartitions
      <4>3. keys[q] # key
        BY <3>2, <4>2, IdSets DEF p
      <4> QED
        BY <1>3, <4>1, <4>2, <4>3
    <3> QED
      BY <3>1, <3>2
  <2>2. ASSUME NEW k \in PartitionKey, map'[k] # None
        PROVE  keys'[map'[k]] = k
    <3>1. CASE k = key
      BY <1>3, <3>1
    <3>2. CASE k # key
      <4>1. map'[k] = map[k] /\ map[k] \in PartitionIdx /\ keys[map[k]] = k
        BY <1>3, <2>2, <3>2 DEF IndexOK, IndexTypeOK, KeysOfPartitions
      <4>2. map[k] # p
        BY <1>3, <3>2, <4>1, TableAssumption
      <4> QED
        BY <1>3, <4>1, <4>2
    <3> QED
      BY <3>1, <3>2
  <2> QED
    BY <2>1, <2>2 DEF KeysOfPartitions
<1> QED
  BY <1>3, <1>6, <1>8, <1>9 DEF IndexOK

\* What is known of the partition of a row.
LEMMA PartitionOfRow ==
  ASSUME IndexOK, Layout # "global", NEW i \in PrimaryIdx, NEW c, c = ids[i], c # None
  PROVE  /\ c \in PartitionIdx /\ keys[c] \in PartitionKey /\ keys[c] # None
         /\ map[keys[c]] = c
         /\ \A q \in PartitionIdx : keys[q] = keys[c] => q = c
         /\ sizes[c] \in Nat /\ sizes[c] >= 1
         /\ Empties(c) => sizes[c] = 1 /\ \A j \in PrimaryIdx : ids[j] = c => j = i
<1>1. /\ c \in PartitionIdx /\ keys[c] \in PartitionKey /\ keys[c] # None
      /\ map[keys[c]] = c
  BY DEF IndexOK, IndexTypeOK, RowsInPartitions, KeysOfPartitions
<1>2. \A q \in PartitionIdx : keys[q] = keys[c] => q = c
  BY <1>1 DEF IndexOK, KeysOfPartitions
<1>3. sizes[c] \in Nat /\ sizes[c] = Cardinality(RowsOf(ids, c))
  BY <1>1 DEF IndexOK, IndexTypeOK, RowsInPartitions, RowsIn, RowsOf
<1>4. i \in RowsOf(ids, c) /\ IsFiniteSet(RowsOf(ids, c))
  BY RowsOfFinite DEF RowsOf
<1>5. /\ IsFiniteSet(RowsOf(ids, c) \ {i})
      /\ Cardinality(RowsOf(ids, c) \ {i}) = sizes[c] - 1
  BY <1>3, <1>4, FS_RemoveElement
<1>6. sizes[c] - 1 >= 0
  BY <1>5, FS_CardinalityType
<1>7. ASSUME Empties(c)
      PROVE  sizes[c] = 1 /\ \A j \in PrimaryIdx : ids[j] = c => j = i
  <2>1. sizes[c] = 1
    BY <1>3, <1>6, <1>7 DEF Empties
  <2>2. RowsOf(ids, c) \ {i} = {}
    BY <1>5, <2>1, FS_EmptySet
  <2> QED
    BY <2>1, <2>2 DEF RowsOf
<1> QED
  BY <1>1, <1>2, <1>3, <1>6, <1>7

\* UpdateWork::RemoveFromPartition in a local index.
LEMMA RemoveFromPartitionOK ==
  ASSUME IndexOK, Layout # "global", NEW i \in PrimaryIdx,
         values_timestamps[i].epoch < MaxUpdates,
         NEW c, c = ids[i], c # None, NEW ts \in Timestamp,
         NEW free, PartitionQueueOK(free), RemoveFromPartition(i, ts, c, free)
  PROVE  IndexOK' /\ PartitionQueueOK(free_ids)'
<1>1. /\ values_timestamps' \in [PrimaryIdx -> VersionType]
      /\ values_timestamps'[i].tombstone = TRUE
      /\ \A j \in PrimaryIdx \ {i} : values_timestamps'[j] = values_timestamps[j]
  BY SetTimestampFacts DEF RemoveFromPartition, ReturnId, IndexOK
<1>2. /\ c \in PartitionIdx /\ keys[c] \in PartitionKey /\ keys[c] # None
      /\ map[keys[c]] = c
      /\ \A q \in PartitionIdx : keys[q] = keys[c] => q = c
      /\ sizes[c] \in Nat /\ sizes[c] >= 1
      /\ Empties(c) => sizes[c] = 1 /\ \A j \in PrimaryIdx : ids[j] = c => j = i
  BY PartitionOfRow
<1>3. /\ ids' = [ids EXCEPT ![i] = None]
      /\ sizes' = [sizes EXCEPT ![c] = IF @ > 0 THEN @ - 1 ELSE 0]
      /\ operations' = RemoveValue(c, i)
                         \o (IF Empties(c) THEN RemovePartition(c) ELSE <<>>)
      /\ indexed' = [indexed EXCEPT ![i] = None]
  BY DEF RemoveFromPartition, ReturnId
<1>4. /\ map' \in MapType /\ keys' \in KeysType /\ PartitionQueueOK(free_ids)'
      /\ ~Empties(c) => map' = map /\ keys' = keys
      /\ Empties(c) =>
           /\ map' = [k \in PartitionKey |-> IF k = keys[c] THEN None ELSE map[k]]
           /\ keys' = [q \in PartitionIdx |-> IF q = c THEN None ELSE keys[q]]
  <2>1. map \in MapType /\ keys \in KeysType /\ QueueOK(map, keys, free)
    BY DEF IndexOK, IndexTypeOK, MapType, KeysType, PartitionQueueOK
  <2>2. CASE Empties(c)
    <3>1. /\ map' = [k \in PartitionKey |-> IF k = keys[c] THEN None ELSE map[k]]
          /\ keys' = [q \in PartitionIdx |-> IF q = c THEN None ELSE keys[q]]
          /\ free_ids' = Append(free, c)
      BY <1>2, <2>1, <2>2 DEF RemoveFromPartition, ReturnId, KeysType
    <3>2. map' \in MapType /\ keys' \in KeysType /\ QueueOK(map', keys', free_ids')
      BY <1>2, <2>1, <3>1, DropPartition
    <3> QED
      BY <2>2, <3>1, <3>2 DEF PartitionQueueOK
  <2>3. CASE ~Empties(c)
    <3>1. map' = map /\ keys' = keys /\ free_ids' = free
      BY <2>1, <2>3 DEF RemoveFromPartition, ReturnId, MapType
    <3> QED
      BY <2>1, <2>3, <3>1 DEF PartitionQueueOK
  <2> QED
    BY <2>2, <2>3
<1>5. sizes' \in [PartitionIdx -> Nat]
  BY <1>2, <1>3 DEF IndexOK, IndexTypeOK
<1>6. operations' \in Seq(Operation)
  BY <1>2, <1>3, OperationTypes DEF IndexOK
<1>7. IndexTypeOK'
  BY <1>1, <1>3, <1>4, <1>5, <1>6 DEF IndexOK, IndexTypeOK, MapType, KeysType
<1>8. \A q \in PartitionIdx : sizes'[q] = Cardinality(RowsIn(q))'
  <2> SUFFICES ASSUME NEW q \in PartitionIdx
               PROVE  sizes'[q] = Cardinality(RowsOf(ids', q))
    BY DEF RowsIn, RowsOf
  <2>1. sizes[q] = Cardinality(RowsOf(ids, q)) /\ sizes[q] \in Nat
    BY DEF IndexOK, IndexTypeOK, RowsInPartitions, RowsIn, RowsOf
  <2>2. /\ ids'[i] # q
        /\ \A j \in PrimaryIdx \ {i} : ids'[j] = ids[j]
    BY <1>3, IdSets DEF IndexOK, IndexTypeOK
  <2>3. sizes'[q] = IF q = c THEN sizes[q] - 1 ELSE sizes[q]
    BY <1>2, <1>3, <2>1 DEF IndexOK, IndexTypeOK
  <2>4. CASE q = c
    <3>1. RowsOf(ids', q) = RowsOf(ids, q) \ {i} /\ i \in RowsOf(ids, q)
      BY <2>2, <2>4 DEF RowsOf
    <3>2. Cardinality(RowsOf(ids', q)) = Cardinality(RowsOf(ids, q)) - 1
      BY <3>1, RowsOfFinite, RowLeaves
    <3> QED
      BY <2>1, <2>3, <2>4, <3>2
  <2>5. CASE q # c
    BY <2>1, <2>2, <2>3, <2>5, RowStays
  <2> QED
    BY <2>4, <2>5
<1>9. RowsInPartitions'
  <2>1. ASSUME NEW j \in PrimaryIdx
        PROVE  /\ ids'[j] = None <=> values_timestamps'[j].tombstone
               /\ ids'[j] # None => keys'[ids'[j]] # None
    <3>1. CASE j = i
      BY <1>1, <1>3, <3>1 DEF IndexOK, IndexTypeOK
    <3>2. CASE j # i
      <4>1. ids'[j] = ids[j] /\ values_timestamps'[j] = values_timestamps[j]
        BY <1>1, <1>3, <3>2 DEF IndexOK, IndexTypeOK
      <4>2. ids[j] # None => ids[j] \in PartitionIdx /\ keys[ids[j]] # None
        BY DEF IndexOK, IndexTypeOK, RowsInPartitions
      <4>3. ids[j] # None => keys'[ids[j]] # None
        BY <1>2, <1>4, <3>2, <4>2
      <4> QED
        BY <4>1, <4>3 DEF IndexOK, RowsInPartitions
    <3> QED
      BY <3>1, <3>2
  <2> QED
    BY <1>8, <2>1 DEF RowsInPartitions
<1>10. KeysOfPartitions'
  <2>1. ASSUME NEW q \in PartitionIdx, keys'[q] # None
        PROVE  sizes'[q] > 0 /\ map'[keys'[q]] = q
    <3>1. /\ keys'[q] = keys[q] /\ keys[q] # None
          /\ q = c => ~Empties(c)
      BY <1>4, <2>1
    <3>2. keys[q] \in PartitionKey /\ map[keys[q]] = q /\ sizes[q] > 0
      BY <3>1 DEF IndexOK, IndexTypeOK, KeysOfPartitions
    <3>3. sizes'[q] > 0
      BY <1>2, <1>3, <3>1, <3>2 DEF IndexOK, IndexTypeOK, Empties
    <3>4. map'[keys[q]] = q
      BY <1>2, <1>4, <3>1, <3>2
    <3> QED
      BY <3>1, <3>3, <3>4
  <2>2. ASSUME NEW k \in PartitionKey, map'[k] # None
        PROVE  keys'[map'[k]] = k
    <3>1. map'[k] = map[k] /\ map[k] # None /\ map[k] \in PartitionIdx
      BY <1>4, <2>2 DEF IndexOK, IndexTypeOK
    <3>2. keys[map[k]] = k
      BY <3>1 DEF IndexOK, KeysOfPartitions
    <3> QED
      BY <1>4, <2>2, <3>1, <3>2
  <2> QED
    BY <2>1, <2>2 DEF KeysOfPartitions
<1> QED
  BY <1>4, <1>7, <1>9, <1>10 DEF IndexOK

\* UpdateWork::MoveBetweenPartitions: to a partition that is there or that is
\* made for the key, out of one that may become empty.
LEMMA MoveBetweenPartitionsOK ==
  ASSUME IndexOK, Layout # "global", NEW i \in PrimaryIdx,
         values_timestamps[i].epoch < MaxUpdates, NEW c, c = ids[i], c # None,
         NEW cell, cell.ts \in Timestamp, cell.value \in Vector,
         NEW key \in PartitionKey, map[key] # c,
         NEW free, PartitionQueueOK(free), map[key] = None => free # <<>>,
         MoveBetweenPartitions(i, cell, key, c, map[key], free)
  PROVE  IndexOK' /\ PartitionQueueOK(free_ids)'
<1> DEFINE p == IF map[key] = None THEN Head(free) ELSE map[key]
           rest == IF map[key] = None THEN Tail(free) ELSE free
           m == [map EXCEPT ![key] = p]
           ks == [keys EXCEPT ![p] = key]
<1>1. /\ values_timestamps' \in [PrimaryIdx -> VersionType]
      /\ values_timestamps'[i].tombstone = FALSE
      /\ \A j \in PrimaryIdx \ {i} : values_timestamps'[j] = values_timestamps[j]
  BY SetTimestampFacts
     DEF MoveBetweenPartitions, PartitionFor, TakeId, RowInserted, ReturnId,
         IndexOK
<1>2. /\ c \in PartitionIdx /\ keys[c] \in PartitionKey /\ keys[c] # None
      /\ map[keys[c]] = c
      /\ \A q \in PartitionIdx : keys[q] = keys[c] => q = c
      /\ sizes[c] \in Nat /\ sizes[c] >= 1
      /\ Empties(c) => sizes[c] = 1 /\ \A j \in PrimaryIdx : ids[j] = c => j = i
  BY PartitionOfRow
<1>3. key # keys[c] /\ key # None
  BY <1>2, TableAssumption
<1>4. map \in MapType /\ keys \in KeysType /\ QueueOK(map, keys, free)
  BY DEF IndexOK, IndexTypeOK, MapType, KeysType, PartitionQueueOK
<1>5. /\ p \in PartitionIdx /\ p # c /\ keys[p] \in {None, key}
      /\ m \in MapType /\ ks \in KeysType /\ QueueOK(m, ks, rest)
      /\ map[key] = None => sizes[p] = 0
  <2>1. CASE map[key] = None
    <3>1. p = Head(free) /\ rest = Tail(free)
      BY <2>1
    <3>2. /\ Head(free) \in PartitionIdx /\ keys[Head(free)] = None
          /\ m \in MapType /\ ks \in KeysType /\ QueueOK(m, ks, rest)
      BY <1>4, <2>1, <3>1, CreatePartition
    <3>3. sizes[p] = 0
      BY <3>1, <3>2, FreePartitionEmpty
    <3> QED
      BY <1>2, <3>1, <3>2, <3>3
  <2>2. CASE map[key] # None
    <3>1. p = map[key] /\ rest = free
      BY <2>2
    <3>2. p \in PartitionIdx /\ keys[p] = key
      BY <2>2, <3>1 DEF IndexOK, IndexTypeOK, KeysOfPartitions
    <3>3. m = map /\ ks = keys
      BY <1>4, <3>1, <3>2 DEF MapType, KeysType
    <3> QED
      BY <1>4, <2>2, <3>1, <3>2, <3>3
  <2> QED
    BY <2>1, <2>2
<1>6. /\ ids' = [ids EXCEPT ![i] = p]
      /\ sizes' = [sizes EXCEPT ![c] = IF @ > 0 THEN @ - 1 ELSE 0,
                                ![p] = IF map[key] = None THEN 1 ELSE @ + 1]
      /\ operations' = RemoveBeforeAdd(c, i)
                         \o (IF Empties(c) THEN RemovePartition(c) ELSE <<>>)
                         \o AddVector(p, i, cell.value)
      /\ indexed' = [indexed EXCEPT ![i] = cell.value]
      /\ map' = [k \in PartitionKey |-> IF Empties(c) /\ k = keys[c] THEN None
                                        ELSE IF k = key THEN p ELSE map[k]]
      /\ keys' = [q \in PartitionIdx |-> IF Empties(c) /\ q = c THEN None
                                         ELSE IF q = p THEN key ELSE keys[q]]
      /\ free_ids' = IF Empties(c) THEN Append(rest, c) ELSE rest
  BY <1>2
     DEF MoveBetweenPartitions, PartitionFor, TakeId, RowInserted, ReturnId
<1>7. map' \in MapType /\ keys' \in KeysType /\ PartitionQueueOK(free_ids)'
  <2>1. CASE Empties(c)
    <3>1. ks[c] = keys[c] /\ m[ks[c]] = c
      BY <1>2, <1>3, <1>4, <1>5 DEF MapType, KeysType
    <3>2. /\ map' = [k \in PartitionKey |-> IF k = ks[c] THEN None ELSE m[k]]
          /\ keys' = [q \in PartitionIdx |-> IF q = c THEN None ELSE ks[q]]
          /\ free_ids' = Append(rest, c)
      BY <1>4, <1>6, <2>1, <3>1 DEF MapType, KeysType
    <3> HIDE DEF m, ks, rest
    <3>3. map' \in MapType /\ keys' \in KeysType /\ QueueOK(map', keys', free_ids')
      BY <1>2, <1>5, <3>1, <3>2, DropPartition
    <3> QED
      BY <3>3 DEF PartitionQueueOK
  <2>2. CASE ~Empties(c)
    <3>1. map' = m /\ keys' = ks /\ free_ids' = rest
      BY <1>4, <1>6, <2>2 DEF MapType, KeysType
    <3> QED
      BY <1>5, <3>1 DEF PartitionQueueOK
  <2> QED
    BY <2>1, <2>2
<1> HIDE DEF p, rest, m, ks
<1>8. p # None
  BY <1>5, IdSets
<1>9. sizes' \in [PartitionIdx -> Nat]
  BY <1>2, <1>5, <1>6 DEF IndexOK, IndexTypeOK
<1>10. operations' \in Seq(Operation)
  BY <1>2, <1>5, <1>6, OperationTypes DEF IndexOK
<1>11. IndexTypeOK'
  BY <1>1, <1>5, <1>6, <1>7, <1>9, <1>10 DEF IndexOK, IndexTypeOK, MapType, KeysType
<1>12. \A q \in PartitionIdx : /\ sizes'[q] = Cardinality(RowsIn(q))'
                               /\ sizes'[q] = IF q = p THEN sizes[q] + 1
                                              ELSE IF q = c THEN sizes[q] - 1
                                              ELSE sizes[q]
  <2> SUFFICES ASSUME NEW q \in PartitionIdx
               PROVE  /\ sizes'[q] = Cardinality(RowsOf(ids', q))
                      /\ sizes'[q] = IF q = p THEN sizes[q] + 1
                                     ELSE IF q = c THEN sizes[q] - 1
                                     ELSE sizes[q]
    BY DEF RowsIn, RowsOf
  <2>1. sizes[q] = Cardinality(RowsOf(ids, q)) /\ sizes[q] \in Nat
    BY DEF IndexOK, IndexTypeOK, RowsInPartitions, RowsIn, RowsOf
  <2>2. /\ ids'[i] = p
        /\ \A j \in PrimaryIdx \ {i} : ids'[j] = ids[j]
    BY <1>6 DEF IndexOK, IndexTypeOK
  <2>3. sizes'[q] = IF q = p THEN sizes[q] + 1
                    ELSE IF q = c THEN sizes[q] - 1 ELSE sizes[q]
    BY <1>2, <1>5, <1>6, <2>1 DEF IndexOK, IndexTypeOK
  <2>4. CASE q = p
    <3>1. RowsOf(ids', q) = RowsOf(ids, q) \union {i} /\ i \notin RowsOf(ids, q)
      BY <1>5, <2>2, <2>4 DEF RowsOf
    <3>2. Cardinality(RowsOf(ids', q)) = Cardinality(RowsOf(ids, q)) + 1
      BY <3>1, RowsOfFinite, RowJoins
    <3> QED
      BY <2>1, <2>3, <2>4, <3>2
  <2>5. CASE q # p /\ q = c
    <3>1. RowsOf(ids', q) = RowsOf(ids, q) \ {i} /\ i \in RowsOf(ids, q)
      BY <1>5, <2>2, <2>5 DEF RowsOf
    <3>2. Cardinality(RowsOf(ids', q)) = Cardinality(RowsOf(ids, q)) - 1
      BY <3>1, RowsOfFinite, RowLeaves
    <3> QED
      BY <2>1, <2>3, <2>5, <3>2
  <2>6. CASE q # p /\ q # c
    BY <2>1, <2>2, <2>3, <2>6, RowStays
  <2> QED
    BY <2>4, <2>5, <2>6
<1>13. RowsInPartitions'
  <2>1. ASSUME NEW j \in PrimaryIdx
        PROVE  /\ ids'[j] = None <=> values_timestamps'[j].tombstone
               /\ ids'[j] # None => keys'[ids'[j]] # None
    <3>1. CASE j = i
      <4>1. ids'[j] = p /\ values_timestamps'[j].tombstone = FALSE
        BY <1>1, <1>6, <3>1 DEF IndexOK, IndexTypeOK
      <4>2. keys'[p] = key
        BY <1>5, <1>6
      <4> QED
        BY <1>3, <1>8, <4>1, <4>2
    <3>2. CASE j # i
      <4>1. ids'[j] = ids[j] /\ values_timestamps'[j] = values_timestamps[j]
        BY <1>1, <1>6, <3>2 DEF IndexOK, IndexTypeOK
      <4>2. ids[j] # None => ids[j] \in PartitionIdx /\ keys[ids[j]] # None
        BY DEF IndexOK, IndexTypeOK, RowsInPartitions
      <4>3. ids[j] # None => keys'[ids[j]] # None
        BY <1>2, <1>3, <1>6, <3>2, <4>2
      <4> QED
        BY <4>1, <4>3 DEF IndexOK, RowsInPartitions
    <3> QED
      BY <3>1, <3>2
  <2> QED
    BY <1>12, <2>1 DEF RowsInPartitions
<1>14. KeysOfPartitions'
  <2>1. ASSUME NEW q \in PartitionIdx, keys'[q] # None
        PROVE  sizes'[q] > 0 /\ map'[keys'[q]] = q
    <3>0. sizes[q] \in Nat
      BY DEF IndexOK, IndexTypeOK
    <3>1. CASE q = p
      <4>1. keys'[q] = key /\ map'[key] = p
        BY <1>3, <1>5, <1>6, <3>1
      <4> QED
        BY <1>12, <3>0, <3>1, <4>1
    <3>2. CASE q # p
      <4>1. /\ keys'[q] = keys[q] /\ keys[q] # None
            /\ q = c => ~Empties(c)
        BY <1>6, <2>1, <3>2
      <4>2. keys[q] \in PartitionKey /\ map[keys[q]] = q /\ sizes[q] > 0
        BY <4>1 DEF IndexOK, IndexTypeOK, KeysOfPartitions
      <4>3. keys[q] # key
        BY <3>2, <4>2, IdSets DEF p
      <4>4. map'[keys[q]] = q
        BY <1>2, <1>6, <4>1, <4>2, <4>3
      <4>5. sizes'[q] > 0
        BY <1>12, <3>0, <3>2, <4>1, <4>2 DEF Empties
      <4> QED
        BY <4>1, <4>4, <4>5
    <3> QED
      BY <3>1, <3>2
  <2>2. ASSUME NEW k \in PartitionKey, map'[k] # None
        PROVE  keys'[map'[k]] = k
    <3>1. CASE k = key
      <4>1. map'[k] = p /\ keys'[p] = key
        BY <1>3, <1>5, <1>6, <3>1
      <4> QED
        BY <3>1, <4>1
    <3>2. CASE k # key
      <4>1. map'[k] = map[k] /\ map[k] # None /\ map[k] \in PartitionIdx
        BY <1>6, <2>2, <3>2 DEF IndexOK, IndexTypeOK
      <4>2. keys[map[k]] = k
        BY <4>1 DEF IndexOK, KeysOfPartitions
      <4>3. map[k] # p /\ ~(Empties(c) /\ map[k] = c)
        BY <1>5, <1>6, <2>2, <3>2, <4>2, TableAssumption
      <4> QED
        BY <1>6, <4>1, <4>2, <4>3
    <3> QED
      BY <3>1, <3>2
  <2> QED
    BY <2>1, <2>2 DEF KeysOfPartitions
<1> QED
  BY <1>7, <1>11, <1>13, <1>14 DEF IndexOK

-----------------------------------------------------------------------------
(* update_index.                                                           *)

\* What each alternative of update_index may assume.
LEMMA UpdateIndexCases ==
  ASSUME IndexOK, NEW i \in PrimaryIdx, NEW key \in PartitionKey \union {None},
         NEW cell \in Cell(Vector), NEW free, UpdateIndex(i, key, cell, free)
  PROVE  LET cur == CurPartition(i)
             target == TargetPartition(key)
             local == Layout # "global"
         IN \/ Skip(free)
            \/ /\ cell.ts >= values_timestamps[i].ts
               /\ \/ /\ Touch(i, cell.ts, free) /\ (local => cur = None)
                     /\ values_timestamps[i].tombstone
                  \/ /\ AddToPartition(i, cell, key, target, free)
                     /\ cell.value \in Vector /\ values_timestamps[i].tombstone
                     /\ local => cur = None /\ key \in PartitionKey
                  \/ /\ MoveInsidePartition(i, cell, cur, free)
                     /\ cell.value \in Vector /\ cur # None
                  \/ /\ MoveBetweenPartitions(i, cell, key, cur, target, free)
                     /\ cell.value \in Vector /\ local /\ cur # None
                     /\ key \in PartitionKey /\ target # cur
                  \/ RemoveFromPartition(i, cell.ts, cur, free) /\ cur # None
<1> DEFINE cur == CurPartition(i)
           found == TargetPartition(key)
           kind == ProcessingPartition(cur, key, found)
           target == IF kind = "Existing" THEN cur ELSE found
           isApplied == IsApplied(values_timestamps[i], cell.ts, kind)
           isCur == values_timestamps[i].tombstone
           work == UpdateWork(kind, isCur, cell.value = None)
           local == Layout # "global"
<1>1. cell.value \in Vector \union {None}
  BY DEF Cell
<1>2. CASE ~isApplied \/ kind = "Missing"
  BY <1>2 DEF UpdateIndex
<1>3. CASE isApplied /\ kind # "Missing"
  <2>1. \/ work = "None" /\ Touch(i, cell.ts, free)
        \/ work = "Add" /\ AddToPartition(i, cell, key, target, free)
        \/ work = "MoveInside" /\ MoveInsidePartition(i, cell, cur, free)
        \/ work = "MoveBetween" /\ MoveBetweenPartitions(i, cell, key, cur, target, free)
        \/ work = "Remove" /\ RemoveFromPartition(i, cell.ts, cur, free)
    BY <1>3 DEF UpdateIndex
  <2>2. local => (cur = None <=> isCur)
    BY DEF CurPartition, IndexOK, RowsInPartitions, IndexTypeOK, VersionType
  <2>3. ~local => cur = found /\ cur # None
    BY IdSets DEF CurPartition, TargetPartition
  <2>4. cell.ts >= values_timestamps[i].ts
    <3>1. cell.ts \in Nat /\ values_timestamps[i].ts \in Nat
      BY TableAssumption DEF IndexOK, IndexTypeOK, VersionType, Timestamp, Cell
    <3> QED
      BY <1>3, <3>1 DEF IsApplied
  <2>5. /\ kind = ProcessingPartition(cur, key, found)
        /\ work = UpdateWork(kind, isCur, cell.value = None)
        /\ target = IF kind = "Existing" THEN cur ELSE found
    OBVIOUS
  <2> HIDE DEF cur, found, kind, target, isCur, work, local
  <2>6. CASE local
    <3>1. /\ work = "None" => cur = None
          /\ work = "Add" => /\ cur = None /\ key # None
                             /\ cell.value # None /\ kind # "Existing"
          /\ work = "MoveInside" => cur # None /\ cell.value # None
          /\ work = "MoveBetween" => /\ cur # None /\ cur # found /\ key # None
                                     /\ cell.value # None /\ kind # "Existing"
          /\ work = "Remove" => cur # None
      BY <1>3, <2>2, <2>5, <2>6, Zenon DEF ProcessingPartition, UpdateWork
    <3>2. work \in {"Add", "MoveBetween"} => target = found
      BY <2>5, <3>1
    <3> QED
      BY <1>1, <2>1, <2>2, <2>4, <2>6, <3>1, <3>2 DEF cur, found, local, isCur
  <2>7. CASE ~local
    <3>1. kind = "Existing"
      BY <2>3, <2>5, <2>7 DEF ProcessingPartition
    <3>2. target = found
      BY <2>3, <2>5, <2>7
    <3>3. /\ work = "None" => isCur
          /\ work = "Add" => cell.value # None /\ isCur
          /\ work = "MoveInside" => cell.value # None
          /\ work # "MoveBetween"
      BY <2>5, <3>1, Zenon DEF UpdateWork
    <3> QED
      BY <1>1, <2>1, <2>3, <2>4, <2>7, <3>2, <3>3 DEF cur, found, local, isCur
  <2> QED
    BY <2>6, <2>7
<1> QED
  BY <1>2, <1>3

\* update_index keeps the invariant of the index.
LEMMA UpdateIndexOK ==
  ASSUME IndexOK, NEW i \in PrimaryIdx, values_timestamps[i].epoch < MaxUpdates,
         NEW key \in PartitionKey \union {None}, NEW cell \in Cell(Vector),
         NEW free, PartitionQueueOK(free),
         Layout # "global" /\ cell.value # None => free # <<>>,
         UpdateIndex(i, key, cell, free)
  PROVE  /\ IndexOK' /\ PartitionQueueOK(free_ids)'
         /\ \A j \in PrimaryIdx \ {i} : values_timestamps'[j] = values_timestamps[j]
<1> DEFINE cur == CurPartition(i)
           target == TargetPartition(key)
           local == Layout # "global"
<1>1. /\ local => cur = ids[i] /\ cur \in PartitionIdx \union {None}
      /\ local /\ key \in PartitionKey => target = map[key]
  BY TableAssumption DEF CurPartition, TargetPartition, IndexOK, IndexTypeOK
<1>2. ~local => cur = GlobalPartition /\ target = GlobalPartition
  BY DEF CurPartition, TargetPartition
<1>3. cell.ts \in Timestamp /\ cell.value \in Vector \union {None}
  BY TableAssumption DEF Cell, Timestamp
<1>4. None \notin Vector /\ GlobalPartition # None
  BY IdSets, TableAssumption
<1>5. CASE Skip(free)
  <2>1. /\ free_ids' = free /\ operations' = <<>>
        /\ UNCHANGED <<values_timestamps, map, keys, ids, sizes, indexed>>
    BY <1>5 DEF Skip
  <2>2. IndexTypeOK'
    BY <2>1 DEF IndexOK, IndexTypeOK
  <2>3. RowsInPartitions' /\ KeysOfPartitions' /\ PartitionQueueOK(free_ids)'
    BY <2>1 DEF IndexOK, RowsInPartitions, RowsIn, KeysOfPartitions,
                PartitionQueueOK, QueueOK
  <2> QED
    BY <2>1, <2>2, <2>3 DEF IndexOK
<1> HIDE DEF cur, target
<1>6. CASE \E ts, b : SetTimestamp(i, ts, b)
  <2>1. \A j \in PrimaryIdx \ {i} : values_timestamps'[j] = values_timestamps[j]
    BY <1>6 DEF SetTimestamp, IndexOK, IndexTypeOK
  <2>2. CASE Touch(i, cell.ts, free) /\ (local => cur = None)
    BY <1>1, <1>3, <2>1, <2>2, TouchOK
  <2>3. CASE /\ MoveInsidePartition(i, cell, cur, free)
             /\ cell.value \in Vector /\ cur # None
    BY <1>1, <1>2, <1>3, <2>1, <2>3, MoveInsideOK
  <2>4. CASE /\ AddToPartition(i, cell, key, target, free) /\ local
             /\ cell.value \in Vector /\ cur = None /\ key \in PartitionKey
    <3>1. ids[i] = None /\ target = map[key] /\ free # <<>>
      BY <1>1, <1>4, <2>4
    <3> QED
      BY <1>3, <2>1, <2>4, <3>1, AddToPartitionOK
  <2>5. CASE /\ MoveBetweenPartitions(i, cell, key, cur, target, free)
             /\ cell.value \in Vector /\ local /\ cur # None
             /\ key \in PartitionKey /\ target # cur
    <3>1. cur = ids[i] /\ target = map[key] /\ free # <<>>
      BY <1>1, <1>4, <2>5
    <3> QED
      BY <1>3, <2>1, <2>5, <3>1, MoveBetweenPartitionsOK
  <2>6. CASE RemoveFromPartition(i, cell.ts, cur, free) /\ cur # None /\ local
    BY <1>1, <1>3, <2>1, <2>6, RemoveFromPartitionOK
  <2>7. CASE AddToPartition(i, cell, key, target, free) /\ ~local /\ cell.value \in Vector
    <3>1. values_timestamps' \in [PrimaryIdx -> VersionType]
      BY <1>3, <2>7, SetTimestampFacts
         DEF AddToPartition, PartitionFor, TakeId, RowInserted, IndexOK
    <3>2. /\ free_ids' = free /\ UNCHANGED <<map, keys, ids, sizes>>
          /\ operations' = AddVector(GlobalPartition, i, cell.value)
          /\ indexed' = [indexed EXCEPT ![i] = cell.value]
      BY <1>2, <1>4, <2>7
         DEF AddToPartition, PartitionFor, TakeId, RowInserted
    <3>3. operations' \in Seq(Operation)
      BY <2>7, <3>2, OperationTypes DEF IndexOK
    <3>4. IndexTypeOK' /\ PartitionQueueOK(free_ids)'
      BY <2>7, <3>1, <3>2, <3>3 DEF IndexOK, IndexTypeOK, PartitionQueueOK
    <3> QED
      BY <2>1, <2>7, <3>4 DEF IndexOK, RowsInPartitions, KeysOfPartitions
  <2>8. CASE RemoveFromPartition(i, cell.ts, cur, free) /\ ~local
    <3>1. values_timestamps' \in [PrimaryIdx -> VersionType]
      BY <1>3, <2>8, SetTimestampFacts DEF RemoveFromPartition, ReturnId, IndexOK
    <3>2. ~Empties(cur)
      BY <2>8 DEF Empties
    <3>3. /\ free_ids' = free /\ UNCHANGED <<keys, ids, sizes>>
          /\ map' = [k \in PartitionKey |-> map[k]]
          /\ operations' = RemoveValue(GlobalPartition, i) \o <<>>
          /\ indexed' = [indexed EXCEPT ![i] = None]
      BY <1>2, <2>8, <3>2 DEF RemoveFromPartition, ReturnId
    <3>4. operations' \in Seq(Operation)
      BY <3>3, OperationTypes DEF IndexOK
    <3>5. IndexTypeOK' /\ PartitionQueueOK(free_ids)'
      BY <2>8, <3>1, <3>3, <3>4 DEF IndexOK, IndexTypeOK, PartitionQueueOK
    <3> QED
      BY <2>1, <2>8, <3>5 DEF IndexOK, RowsInPartitions, KeysOfPartitions
  <2> QED
    BY <1>5, <2>2, <2>3, <2>4, <2>5, <2>6, <2>7, <2>8, UpdateIndexCases DEF cur, target
<1> QED
  BY <1>5, <1>6, UpdateIndexCases DEF Touch, AddToPartition, MoveInsidePartition,
     MoveBetweenPartitions, PartitionFor, TakeId,
     RowInserted, ReturnId, RemoveFromPartition

-----------------------------------------------------------------------------
(* The invariant is inductive.                                             *)

LEMMA TableInvParts ==
  TableInv <=> /\ RowIdsTypeOK /\ RowIdsAgree /\ PrimaryQueueOK(free_primary_ids)
               /\ \A i \in PrimaryIdx :
                    primary_keys[i] = None => values_timestamps[i].epoch = 0
               /\ columns \in [PrimaryIdx -> [partition : PartitionCell,
                                              filtering : FilteringCell]]
               /\ IndexOK /\ PartitionQueueOK(free_ids)
  BY DEF TableInv, TypeOK, RowIdsInv, RowIdsTypeOK, RowIdsAgree, PrimaryQueueOK,
         IndexOK, IndexTypeOK, VersionType, PartitionQueueOK, QueueOK

LEMMA TableInvPartsNext ==
  TableInv' <=>
    /\ RowIdsTypeOK' /\ RowIdsAgree' /\ PrimaryQueueOK(free_primary_ids)'
    /\ \A i \in PrimaryIdx : primary_keys'[i] = None => values_timestamps'[i].epoch = 0
    /\ columns' \in [PrimaryIdx -> [partition : PartitionCell, filtering : FilteringCell]]
    /\ IndexOK' /\ PartitionQueueOK(free_ids)'
  BY DEF TableInv, TypeOK, RowIdsInv, RowIdsTypeOK, RowIdsAgree, PrimaryQueueOK,
         IndexOK, IndexTypeOK, VersionType, PartitionQueueOK, QueueOK

\* Table::new
LEMMA InitInv ==
  Init => TableInv
<1> SUFFICES ASSUME Init PROVE TableInv
  OBVIOUS
<1>1. Assigned(primary_ids) = {} /\ Assigned(map) = {}
  BY DEF Init, NewIndex, Assigned
<1>2. Cardinality(Assigned(primary_ids)) = 0 /\ Cardinality(Assigned(map)) = 0
  BY <1>1, FS_EmptySet
<1>3. /\ RowIdsTypeOK /\ RowIdsAgree
      /\ \A i \in PrimaryIdx :
           primary_keys[i] = None => values_timestamps[i].epoch = 0
  BY DEF Init, NewIndex, RowIdsTypeOK, RowIdsAgree
<1>4. PrimaryQueueOK(free_primary_ids)
  <2>1. /\ free_primary_ids \in Seq(PrimaryIdx)
        /\ Len(free_primary_ids) = PrimaryIncrement
        /\ \A n \in DOMAIN free_primary_ids : free_primary_ids[n] < PrimaryIncrement
        /\ Distinct(free_primary_ids)
    <3>1. /\ free_primary_ids = Reservation(0, PrimaryIncrement)
          /\ Cardinality(Key) \in Nat /\ 0 <= Cardinality(Key)
      BY IdSets DEF Init, NewIndex
    <3>2. /\ free_primary_ids \in Seq(0 .. (Cardinality(Key) + PrimaryIncrement - 1))
          /\ Len(free_primary_ids) = PrimaryIncrement
          /\ \A n \in DOMAIN free_primary_ids : free_primary_ids[n] >= 0 /\ free_primary_ids[n] < 0 + PrimaryIncrement
          /\ Distinct(free_primary_ids)
      BY <3>1, ReservationFacts, TableAssumption
    <3>3. 0 + PrimaryIncrement = PrimaryIncrement
      BY TableAssumption
    <3> QED
      BY <3>2, <3>3 DEF PrimaryIdx
  <2> QED
    BY <1>2, <2>1, SeqElement, TableAssumption DEF PrimaryQueueOK, Init, NewIndex
<1>5. PartitionQueueOK(free_ids)
  <2>1. CASE Layout = "global"
    BY <2>1 DEF Init, NewIndex, PartitionQueueOK
  <2>2. CASE Layout # "global"
    <3>1. /\ free_ids \in Seq(PartitionIdx)
          /\ Len(free_ids) = PartitionIncrement
          /\ \A n \in DOMAIN free_ids : free_ids[n] < PartitionIncrement
          /\ Distinct(free_ids)
      <4>1. /\ free_ids = Reservation(0, PartitionIncrement)
            /\ Cardinality(PartitionKey) \in Nat /\ 0 <= Cardinality(PartitionKey)
        BY <2>2, IdSets DEF Init, NewIndex
      <4>2. /\ free_ids \in Seq(0 .. (Cardinality(PartitionKey) + PartitionIncrement - 1))
            /\ Len(free_ids) = PartitionIncrement
            /\ \A n \in DOMAIN free_ids : free_ids[n] >= 0 /\ free_ids[n] < 0 + PartitionIncrement
            /\ Distinct(free_ids)
        BY <4>1, ReservationFacts, TableAssumption
      <4>3. 0 + PartitionIncrement = PartitionIncrement
        BY TableAssumption
      <4> QED
        BY <4>2, <4>3 DEF PartitionIdx
    <3> QED
      BY <1>2, <2>2, <3>1, SeqElement, TableAssumption
         DEF PartitionQueueOK, QueueOK, Init, NewIndex
  <2> QED
    BY <2>1, <2>2
<1>6. columns \in [PrimaryIdx -> [partition : PartitionCell, filtering : FilteringCell]]
  BY DEF Init, NewIndex, PartitionCell, FilteringCell, Cell, NullCell
<1>7. IndexTypeOK
  BY TableAssumption DEF Init, NewIndex, IndexTypeOK, VersionType, Timestamp
<1>8. RowsInPartitions
  <2>1. \A p \in PartitionIdx : RowsIn(p) = {}
    BY IdSets DEF Init, NewIndex, RowsIn
  <2> QED
    BY <2>1, FS_EmptySet DEF Init, NewIndex, RowsInPartitions
<1>9. KeysOfPartitions
  BY DEF Init, NewIndex, KeysOfPartitions
<1> QED
  BY <1>3, <1>4, <1>5, <1>6, <1>7, <1>8, <1>9, TableInvParts DEF IndexOK

\* The row a call is about has changes left within the bound.
LEMMA RowWithinBound ==
  ASSUME TableInv, NEW k \in Key, WithinBound(k), NEW i \in PrimaryIdx,
         IF primary_ids[k] # None THEN i = primary_ids[k] ELSE primary_keys[i] = None
  PROVE  values_timestamps[i].epoch < MaxUpdates
<1>1. CASE primary_ids[k] # None
  BY <1>1 DEF WithinBound
<1>2. CASE primary_ids[k] = None
  BY <1>2, TableAssumption DEF TableInv, RowIdsInv
<1> QED
  BY <1>1, <1>2

LEMMA UpsertInv ==
  ASSUME TableInv, NEW k \in Key, NEW cell \in Cell(Vector),
         NEW partition \in PartitionCell, NEW filtering \in FilteringCell,
         Upsert(k, cell, partition, filtering)
  PROVE  TableInv'
<1> DEFINE free == ReservedPrimaryIds
           i == RowId(k, free)
           column == Newest(columns[i].partition, partition)
           key == PartitionKeyOf(k, column)
<1>1. /\ RowIdsTypeOK /\ RowIdsAgree /\ PrimaryQueueOK(free_primary_ids)
      /\ \A j \in PrimaryIdx : primary_keys[j] = None => values_timestamps[j].epoch = 0
      /\ columns \in [PrimaryIdx -> [partition : PartitionCell, filtering : FilteringCell]]
      /\ IndexOK /\ PartitionQueueOK(free_ids) /\ TypeOK /\ RowIdsInv
  BY TableInvParts DEF TableInv
<1>2. /\ WithinBound(k) /\ AddPrimaryKey(k, free)
      /\ columns' = [columns EXCEPT ![i] =
           [partition |-> column, filtering |-> Newest(@.filtering, filtering)]]
      /\ UpdateIndex(i, key, cell, ReservedPartitionIds)
  BY DEF Upsert
<1>3. PrimaryQueueOK(free) /\ free # <<>>
  BY <1>1, PrimaryReservation
<1>4. /\ PartitionQueueOK(ReservedPartitionIds)
      /\ Layout # "global" => ReservedPartitionIds # <<>>
  BY <1>1, PartitionReservation
<1> HIDE DEF free
<1>5. /\ i \in PrimaryIdx
      /\ primary_ids[k] = None => primary_keys[i] = None
      /\ \A j \in PrimaryIdx : primary_keys'[j] = None => primary_keys[j] = None /\ j # i
      /\ RowIdsTypeOK' /\ RowIdsAgree' /\ PrimaryQueueOK(free_primary_ids)'
  BY <1>1, <1>2, <1>3, AddPrimaryKeyFacts
<1>6. i \in PrimaryIdx
  BY <1>1, <1>2, <1>3, AddPrimaryKeyFacts
<1>7. primary_ids[k] # None => i = primary_ids[k]
  BY DEF RowId
<1> HIDE DEF i
<1>8. values_timestamps[i].epoch < MaxUpdates
  BY <1>2, <1>5, <1>6, <1>7, RowWithinBound
<1>9. /\ column \in PartitionCell
      /\ Newest(columns[i].filtering, filtering) \in FilteringCell
  BY <1>1, <1>6 DEF Newest
<1>10. key \in PartitionKey \union {None}
  BY <1>9, TableAssumption DEF PartitionKeyOf, PartitionCell, Cell
<1> HIDE DEF column, key
<1>11. columns' \in [PrimaryIdx -> [partition : PartitionCell, filtering : FilteringCell]]
  BY <1>1, <1>2, <1>6, <1>9
<1>12. /\ IndexOK' /\ PartitionQueueOK(free_ids)'
       /\ \A j \in PrimaryIdx \ {i} : values_timestamps'[j] = values_timestamps[j]
  BY <1>1, <1>2, <1>4, <1>6, <1>8, <1>10, UpdateIndexOK
<1>13. \A j \in PrimaryIdx : primary_keys'[j] = None => values_timestamps'[j].epoch = 0
  BY <1>1, <1>5, <1>12
<1> QED
  BY <1>5, <1>6, <1>11, <1>12, <1>13, TableInvPartsNext

LEMMA DeleteInv ==
  ASSUME TableInv, NEW k \in Key, NEW ts \in 1 .. MaxTimestamp, Delete(k, ts)
  PROVE  TableInv'
<1> DEFINE free == free_primary_ids
           i == RowId(k, free)
           cell == [ts |-> ts, value |-> None]
           key == PartitionKeyOf(k, columns[i].partition)
<1>1. /\ RowIdsTypeOK /\ RowIdsAgree /\ PrimaryQueueOK(free_primary_ids)
      /\ \A j \in PrimaryIdx : primary_keys[j] = None => values_timestamps[j].epoch = 0
      /\ columns \in [PrimaryIdx -> [partition : PartitionCell, filtering : FilteringCell]]
      /\ IndexOK /\ PartitionQueueOK(free_ids)
  BY TableInvParts
<1>2. CASE primary_ids[k] = None /\ free_primary_ids = <<>>
  <2>1. UNCHANGED vars
    BY <1>2 DEF Delete
  <2> QED
    BY <2>1 DEF vars, tableVars, TableInv, TypeOK, RowIdsInv, PrimaryQueueOK,
                PartitionQueueOK, QueueOK, RowsInPartitions, RowsIn, KeysOfPartitions
<1>3. CASE ~(primary_ids[k] = None /\ free_primary_ids = <<>>)
  <2>1. /\ WithinBound(k) /\ AddPrimaryKey(k, free)
        /\ columns' = IF FilterValue = {} THEN columns
                      ELSE [columns EXCEPT ![i] =
                              [partition |-> @.partition,
                               filtering |-> Newest(@.filtering, cell)]]
        /\ UpdateIndex(i, key, cell, free_ids)
    BY <1>3 DEF Delete
  <2>2. /\ i \in PrimaryIdx
        /\ primary_ids[k] = None => primary_keys[i] = None
        /\ \A j \in PrimaryIdx : primary_keys'[j] = None => primary_keys[j] = None /\ j # i
        /\ RowIdsTypeOK' /\ RowIdsAgree' /\ PrimaryQueueOK(free_primary_ids)'
    BY <1>1, <1>3, <2>1, AddPrimaryKeyFacts
  <2>3. primary_ids[k] # None => i = primary_ids[k]
    BY DEF RowId
  <2> HIDE DEF i
  <2>4. values_timestamps[i].epoch < MaxUpdates
    BY <2>1, <2>2, <2>3, RowWithinBound
  <2>5. cell \in Cell(Vector) /\ cell.value = None
    BY DEF Cell
  <2>6. FilterValue # {} => Newest(columns[i].filtering, cell) \in FilteringCell
    <3>1. cell \in Cell(FilterValue)
      BY DEF Cell
    <3> QED
      BY <1>1, <2>2, <3>1 DEF Newest, FilteringCell
  <2>7. key \in PartitionKey \union {None}
    <3>1. columns[i].partition \in PartitionCell
      BY <1>1, <2>2
    <3> QED
      BY <3>1, TableAssumption DEF PartitionKeyOf, PartitionCell, Cell
  <2> HIDE DEF cell, key
  <2>8. columns' \in [PrimaryIdx -> [partition : PartitionCell, filtering : FilteringCell]]
    BY <1>1, <2>1, <2>2, <2>6
  <2>9. /\ IndexOK' /\ PartitionQueueOK(free_ids)'
        /\ \A j \in PrimaryIdx \ {i} : values_timestamps'[j] = values_timestamps[j]
    BY <1>1, <2>1, <2>2, <2>4, <2>5, <2>7, UpdateIndexOK
  <2>10. \A j \in PrimaryIdx : primary_keys'[j] = None => values_timestamps'[j].epoch = 0
    BY <1>1, <2>2, <2>9
  <2> QED
    BY <2>2, <2>8, <2>9, <2>10, TableInvPartsNext
<1> QED
  BY <1>2, <1>3

LEMMA NextInv ==
  TableInv /\ [Next]_vars => TableInv'
<1> SUFFICES ASSUME TableInv, [Next]_vars PROVE TableInv'
  OBVIOUS
<1>1. CASE Modify
  BY <1>1, UpsertInv, DeleteInv DEF Modify
<1>2. CASE TakeOperations
  BY <1>2 DEF TakeOperations, tableVars, TableInv, TypeOK, RowIdsInv, PrimaryQueueOK,
              PartitionQueueOK, QueueOK, RowsInPartitions, RowsIn, KeysOfPartitions
<1>3. CASE UNCHANGED vars
  BY <1>3 DEF vars, tableVars, TableInv, TypeOK, RowIdsInv, PrimaryQueueOK,
              PartitionQueueOK, QueueOK, RowsInPartitions, RowsIn, KeysOfPartitions
<1> QED
  BY <1>1, <1>2, <1>3 DEF Next

-----------------------------------------------------------------------------
(* Rows only advance.                                                      *)

\* Creating the partition of a key, or adding to it, changes no other key.
LEMMA KeptByAdd ==
  ASSUME IndexOK, Layout # "global", NEW key \in PartitionKey,
         NEW free, PartitionQueueOK(free), free # <<>>,
         NEW p, p = (IF map[key] = None THEN Head(free) ELSE map[key]),
         NEW j \in PrimaryIdx, ids[j] # None
  PROVE  /\ ids[j] \in PartitionIdx
         /\ TargetPartition(key) = map[key]
         /\ p = ids[j] => keys[ids[j]] = key
<1>1. keys \in KeysType /\ map \in MapType /\ QueueOK(map, keys, free)
  BY DEF IndexOK, IndexTypeOK, KeysType, MapType, PartitionQueueOK
<1>2. ids[j] \in PartitionIdx /\ keys[ids[j]] # None
  BY DEF IndexOK, IndexTypeOK, RowsInPartitions
<1>3. key # None
  BY TableAssumption
<1>4. CASE map[key] = None
  <2>1. keys[Head(free)] = None
    BY <1>1, <1>4, CreatePartition
  <2> QED
    BY <1>2, <1>3, <1>4, <2>1 DEF TargetPartition
<1>5. CASE map[key] # None
  BY <1>2, <1>3, <1>5 DEF TargetPartition, IndexOK, KeysOfPartitions
<1> QED
  BY <1>4, <1>5

\* Every applied change sets the timestamp and the next epoch of its row, and
\* no other row is touched.
LEMMA UpdateIndexAdvances ==
  ASSUME IndexOK, NEW i \in PrimaryIdx, NEW key \in PartitionKey \union {None},
         NEW cell \in Cell(Vector), NEW free, PartitionQueueOK(free),
         Layout # "global" /\ cell.value # None => free # <<>>,
         UpdateIndex(i, key, cell, free)
  PROVE  \A j \in PrimaryIdx : RowStep(j)
<1> DEFINE cur == CurPartition(i)
           target == TargetPartition(key)
           local == Layout # "global"
<1>1. \A j \in PrimaryIdx : /\ values_timestamps[j].ts \in Nat
                            /\ values_timestamps[j].epoch \in Nat
  BY TableAssumption DEF IndexOK, IndexTypeOK, VersionType, Timestamp
<1>2. CASE Skip(free)
  BY <1>1, <1>2 DEF Skip, RowStep
<1>3. CASE /\ cell.ts >= values_timestamps[i].ts
           /\ \/ Touch(i, cell.ts, free)
              \/ /\ AddToPartition(i, cell, key, target, free)
                 /\ local => /\ cur = None /\ key \in PartitionKey
                             /\ cell.value \in Vector
              \/ MoveInsidePartition(i, cell, cur, free)
              \/ /\ MoveBetweenPartitions(i, cell, key, cur, target, free)
                 /\ local /\ cur # None /\ key \in PartitionKey /\ cell.value \in Vector
              \/ RemoveFromPartition(i, cell.ts, cur, free) /\ cur # None
  <2>1. cell.ts \in Nat
    BY TableAssumption DEF Cell
  <2>2. \E b : SetTimestamp(i, cell.ts, b)
    BY <1>3 DEF Touch, AddToPartition, MoveInsidePartition,
                MoveBetweenPartitions, PartitionFor, TakeId,
                RowInserted, ReturnId, RemoveFromPartition
  <2>3. /\ values_timestamps'[i].ts = cell.ts
        /\ values_timestamps'[i].epoch = values_timestamps[i].epoch + 1
        /\ \A j \in PrimaryIdx \ {i} : values_timestamps'[j] = values_timestamps[j]
    BY <2>2 DEF SetTimestamp, IndexOK, IndexTypeOK, VersionType
  <2>4. /\ local => cur = ids[i]
        /\ ~local => target # None
    BY IdSets DEF CurPartition, TargetPartition
  <2> HIDE DEF cur, target
  <2>5. ASSUME NEW j \in PrimaryIdx, j # i
        PROVE  /\ ids'[j] = ids[j] /\ indexed'[j] = indexed[j]
               /\ ids[j] # None => keys'[ids[j]] = keys[ids[j]]
    <3>1. /\ ids \in [PrimaryIdx -> PartitionIdx \union {None}]
          /\ indexed \in [PrimaryIdx -> Vector \union {None}]
      BY DEF IndexOK, IndexTypeOK
    <3>2. CASE Touch(i, cell.ts, free)
      BY <3>2 DEF Touch
    <3>3. CASE MoveInsidePartition(i, cell, cur, free)
      BY <2>5, <3>1, <3>3 DEF MoveInsidePartition
    <3>4. CASE /\ AddToPartition(i, cell, key, target, free)
               /\ local => /\ cur = None /\ key \in PartitionKey
                           /\ cell.value \in Vector
      <4>1. ids'[j] = ids[j] /\ indexed'[j] = indexed[j]
        BY <2>5, <3>1, <3>4
           DEF AddToPartition, PartitionFor, TakeId, RowInserted
      <4>2. CASE ~local
        BY <2>4, <3>4, <4>1, <4>2
           DEF AddToPartition, PartitionFor, TakeId, RowInserted
      <4>3. CASE local
        <5> DEFINE p == IF map[key] = None THEN Head(free) ELSE map[key]
        <5>1. ASSUME ids[j] # None
              PROVE  /\ ids[j] \in PartitionIdx /\ target = map[key]
                     /\ p = ids[j] => keys[ids[j]] = key
          BY <3>4, <4>3, <5>1, KeptByAdd, TableAssumption DEF target
        <5>2. target = map[key] =>
                keys' = IF map[key] = None THEN [keys EXCEPT ![p] = key] ELSE keys
          BY <3>4 DEF AddToPartition, PartitionFor, TakeId, RowInserted
        <5>3. keys \in [PartitionIdx -> PartitionKey \union {None}]
          BY DEF IndexOK, IndexTypeOK
        <5> HIDE DEF p
        <5> QED
          BY <4>1, <5>1, <5>2, <5>3
      <4> QED
        BY <4>2, <4>3
    <3>5. CASE /\ MoveBetweenPartitions(i, cell, key, cur, target, free)
               /\ local /\ cur # None /\ key \in PartitionKey /\ cell.value \in Vector
      <4>1. ids'[j] = ids[j] /\ indexed'[j] = indexed[j]
        BY <2>5, <3>1, <3>5
           DEF MoveBetweenPartitions, PartitionFor, TakeId, RowInserted,
               ReturnId
      <4> QED
        <5> DEFINE p == IF map[key] = None THEN Head(free) ELSE map[key]
        <5>1. ASSUME ids[j] # None
              PROVE  /\ ids[j] \in PartitionIdx /\ target = map[key]
                     /\ p = ids[j] => keys[ids[j]] = key
          BY <3>5, <5>1, KeptByAdd, TableAssumption DEF target
        <5>2. Empties(cur) => ids[j] # cur
          BY <2>4, <2>5, <3>5, PartitionOfRow
        <5>3. target = map[key] =>
                keys' = [q \in PartitionIdx |-> IF Empties(cur) /\ q = cur THEN None
                                                ELSE IF q = p THEN key ELSE keys[q]]
          BY <3>5
             DEF MoveBetweenPartitions, PartitionFor, TakeId, RowInserted,
                 ReturnId
        <5> HIDE DEF p
        <5> QED
          BY <4>1, <5>1, <5>2, <5>3
    <3>6. CASE RemoveFromPartition(i, cell.ts, cur, free) /\ cur # None
      <4>1. ids'[j] = ids[j] /\ indexed'[j] = indexed[j]
        BY <2>5, <3>1, <3>6 DEF RemoveFromPartition, ReturnId
      <4>2. CASE ~local
        BY <3>6, <4>1, <4>2 DEF RemoveFromPartition, ReturnId, Empties
      <4>3. CASE local
        <5>1. Empties(cur) => ids[j] # cur
          BY <2>4, <2>5, <3>6, <4>3, PartitionOfRow
        <5>2. keys' = IF Empties(cur) THEN [keys EXCEPT ![cur] = None] ELSE keys
          BY <3>6 DEF RemoveFromPartition, ReturnId
        <5>3. keys \in [PartitionIdx -> PartitionKey \union {None}]
          BY DEF IndexOK, IndexTypeOK
        <5> QED
          BY <3>1, <4>1, <5>1, <5>2, <5>3
      <4> QED
        BY <4>2, <4>3
    <3> QED
      BY <1>3, <3>2, <3>3, <3>4, <3>5, <3>6
  <2>6. ASSUME NEW j \in PrimaryIdx PROVE RowStep(j)
    <3>1. CASE j = i
      BY <1>1, <1>3, <2>1, <2>3, <3>1 DEF RowStep
    <3>2. CASE j # i
      BY <1>1, <2>3, <2>5, <3>2 DEF RowStep
    <3> QED
      BY <3>1, <3>2
  <2> QED
    BY <2>6
<1> QED
  BY <1>2, <1>3, UpdateIndexCases

LEMMA NextAdvances ==
  ASSUME TableInv, [Next]_vars
  PROVE  \A i \in PrimaryIdx : RowStep(i)
<1>1. IndexOK /\ \A j \in PrimaryIdx : /\ values_timestamps[j].ts \in Nat
                                       /\ values_timestamps[j].epoch \in Nat
  BY TableInvParts, TableAssumption DEF IndexOK, IndexTypeOK, VersionType, Timestamp
<1>2. ASSUME UNCHANGED tableVars PROVE \A i \in PrimaryIdx : RowStep(i)
  BY <1>1, <1>2 DEF tableVars, RowStep
<1>3. ASSUME NEW k \in Key, NEW cell \in Cell(Vector),
             NEW partition \in PartitionCell, NEW filtering \in FilteringCell,
             Upsert(k, cell, partition, filtering)
      PROVE  \A i \in PrimaryIdx : RowStep(i)
  <2> DEFINE i == RowId(k, ReservedPrimaryIds)
  <2>1. PrimaryQueueOK(ReservedPrimaryIds) /\ ReservedPrimaryIds # <<>>
    BY PrimaryReservation DEF TableInv
  <2>2. AddPrimaryKey(k, ReservedPrimaryIds)
    BY <1>3 DEF Upsert
  <2>3. i \in PrimaryIdx
    BY <2>1, <2>2, AddPrimaryKeyFacts, TableInvParts
  <2>4. \E key \in PartitionKey \union {None} :
          UpdateIndex(i, key, cell, ReservedPartitionIds)
    <3>1. columns[i].partition \in PartitionCell
      BY <2>3, TableInvParts
    <3>2. Newest(columns[i].partition, partition) \in PartitionCell
      BY <3>1 DEF Newest
    <3>3. PartitionKeyOf(k, Newest(columns[i].partition, partition))
            \in PartitionKey \union {None}
      BY <3>2, TableAssumption DEF PartitionKeyOf, PartitionCell, Cell
    <3> QED
      BY <1>3, <3>3 DEF Upsert
  <2>5. /\ PartitionQueueOK(ReservedPartitionIds)
        /\ Layout # "global" => ReservedPartitionIds # <<>>
    BY PartitionReservation DEF TableInv
  <2> QED
    BY <1>1, <2>3, <2>4, <2>5, UpdateIndexAdvances
<1>4. ASSUME NEW k \in Key, NEW ts \in 1 .. MaxTimestamp, Delete(k, ts)
      PROVE  \A i \in PrimaryIdx : RowStep(i)
  <2> DEFINE i == RowId(k, free_primary_ids)
  <2>1. CASE primary_ids[k] = None /\ free_primary_ids = <<>>
    BY <1>2, <1>4, <2>1 DEF Delete, vars
  <2>2. CASE ~(primary_ids[k] = None /\ free_primary_ids = <<>>)
    <3>1. AddPrimaryKey(k, free_primary_ids)
      BY <1>4, <2>2 DEF Delete
    <3>2. i \in PrimaryIdx
      BY <2>2, <3>1, AddPrimaryKeyFacts, TableInvParts
    <3> DEFINE cell == [ts |-> ts, value |-> None]
    <3>3. \E key \in PartitionKey \union {None} : UpdateIndex(i, key, cell, free_ids)
      <4>1. columns[i].partition \in PartitionCell
        BY <3>2, TableInvParts
      <4>2. PartitionKeyOf(k, columns[i].partition) \in PartitionKey \union {None}
        BY <4>1, TableAssumption DEF PartitionKeyOf, PartitionCell, Cell
      <4> QED
        BY <1>4, <2>2, <4>2 DEF Delete
    <3>4. cell \in Cell(Vector) /\ cell.value = None
      BY DEF Cell
    <3>5. PartitionQueueOK(free_ids)
      BY DEF TableInv
    <3> HIDE DEF cell, i
    <3> QED
      BY <1>1, <3>2, <3>3, <3>4, <3>5, UpdateIndexAdvances
  <2> QED
    BY <2>1, <2>2
<1> QED
  BY <1>2, <1>3, <1>4 DEF Next, Modify, TakeOperations, vars

-----------------------------------------------------------------------------
(* The theorems.                                                           *)

\* The invariant holds in every state of the table, whatever the keys, the
\* layout and the sizes of the reservations.
THEOREM TableInvariant == Spec => []TableInv
<1> QED
  BY InitInv, NextInv, PTL DEF Spec

\* Every value the table stores keeps its type: in particular every row id
\* and every partition id that a reservation can hand out stays within the
\* vectors that the reservation resized, so no "index out of bounds" error of
\* table/mod.rs can occur.
THEOREM TypeCorrect == Spec => []TypeOK
<1>1. TableInv => TypeOK
  BY DEF TableInv
<1> QED
  BY <1>1, TableInvariant, PTL

\* No two primary keys ever share a row id.
THEOREM UniqueRowIds == Spec => []RowIdsUnique
<1>1. TableInv => RowIdsUnique
  BY DEF TableInv, RowIdsInv, PrimaryQueueOK, Distinct, RowIdsUnique
<1> QED
  BY <1>1, TableInvariant, PTL

\* The partition bookkeeping of a local index never diverges: the debug_asserts
\* of remove_row_from_partition and create_partition hold in every reachable
\* state.
THEOREM ConsistentPartitions == Spec => []PartitionsConsistent
<1>1. TableInv => PartitionsConsistent
  BY DEF TableInv, PartitionQueueOK, QueueOK, Distinct, RowsInPartitions,
         KeysOfPartitions, PartitionsConsistent
<1> QED
  BY <1>1, TableInvariant, PTL

\* Timestamps and epochs never go back, a row whose value, partition or
\* tombstone changes gets a new epoch, and the partition of a row that does
\* not change keeps its key.
THEOREM RowsAdvance == Spec => RowsOnlyAdvance
<1>1. TableInv /\ [Next]_vars => [\A i \in PrimaryIdx : RowStep(i)]_vars
  BY NextAdvances
<1> QED
  BY <1>1, TableInvariant, PTL DEF Spec, RowsOnlyAdvance
=============================================================================
