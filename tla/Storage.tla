------------------------------- MODULE Storage -----------------------------
(***************************************************************************)
(* How a table keeps its rows (table/column.rs, column_vec.rs,             *)
(* chunk_timestamps.rs, vec_chunks.rs, primary_id.rs): a vector per        *)
(* filtering column and, for an index, one vector of bytes that holds an   *)
(* epoch and the timestamps of the indexed values, chunk after chunk.      *)
(*                                                                         *)
(* A byte is a digit below BYTE.  An id packs the epoch of a row and its   *)
(* position in the vectors into one number.                                *)
(***************************************************************************)
EXTENDS Integers, FiniteSets, Sequences, SequencesExt

CONSTANTS
    BYTE,               \* values of a byte
    EPOCH_SIZE,         \* bytes of an epoch
    TIMESTAMPED_SIZE,   \* bytes of a timestamp and its flag
    INDEX_SIZE,         \* bytes of the position in an id
    Targets,            \* timestamps in a chunk
    ColumnTypes,        \* column -> its type; "key" for one of the primary key
    ValueTypes,         \* value that is written -> its type
    IncrementSize,      \* rows reserved at a time
    Filtering,          \* sets of columns that are written together, as sequences
    MaxWrites           \* bound: writes

ASSUME StorageAssumption ==
    /\ BYTE \in Nat \ {0, 1} /\ Targets \in Nat \ {0} /\ IncrementSize \in Nat \ {0}
    /\ {EPOCH_SIZE, TIMESTAMPED_SIZE, INDEX_SIZE} \subseteq Nat \ {0}
    /\ Filtering \subseteq Seq(DOMAIN ColumnTypes)

VARIABLES
    bytes,      \* values_timestamps of the index
    columns,    \* column -> its vector: a sequence of [ts, value]
    keys,       \* primary_keys
    writes      \* writes so far
storageVars == <<bytes, columns, keys, writes>>

-----------------------------------------------------------------------------
(* Bytes                                                                    *)

\* The number of values that so many bytes have.
Power(size) ==
    LET power[i \in 0..size] == IF i = 0 THEN 1 ELSE BYTE * power[i - 1]
    IN  power[size]

ToNeBytes(n, size) ==
    LET rest[i \in 0..size] == IF i = 0 THEN n ELSE rest[i - 1] \div BYTE
    IN  [i \in 1..size |-> rest[i - 1] % BYTE]
FromNeBytes(s) ==
    LET last[i \in 0..Len(s)] == IF i = 0 THEN 0 ELSE s[Len(s) - i + 1] + BYTE * last[i - 1]
    IN  last[Len(s)]

\* The highest bit of a timestamp says that there is no value.
DELETED_FLAG == Power(TIMESTAMPED_SIZE) \div 2
StampTimes == 0..DELETED_FLAG - 1
EncodeTimestamped(x) == ToNeBytes(IF x.valid THEN x.ts ELSE x.ts + DELETED_FLAG, TIMESTAMPED_SIZE)
DecodeTimestamped(s) ==
    [ts |-> FromNeBytes(s) % DELETED_FLAG, valid |-> FromNeBytes(s) < DELETED_FLAG]

MaxEpoch == Power(EPOCH_SIZE) - 1

-----------------------------------------------------------------------------
(* A chunk: an epoch and the timestamps; what may fail returns <<>>         *)

ChunkSize == EPOCH_SIZE + Targets * TIMESTAMPED_SIZE

\* The sequence with some of its elements replaced, from a position on.
Overwrite(s, offset, part) ==
    [i \in DOMAIN s |-> IF i - offset \in DOMAIN part THEN part[i - offset] ELSE s[i]]

EpochOf(chunk) == FromNeBytes(SubSeq(chunk, 1, EPOCH_SIZE))
SetEpoch(chunk, e) == Overwrite(chunk, 0, ToNeBytes(e, EPOCH_SIZE))

\* Bug: the epoch in front of the timestamps is not counted.
TimestampOffsetBare(idx) == idx * TIMESTAMPED_SIZE

TimestampOffset(idx) == EPOCH_SIZE + idx * TIMESTAMPED_SIZE

TimestampAt(chunk, idx) ==
    IF idx >= Targets THEN <<>>
    ELSE <<DecodeTimestamped(SubSeq(chunk, TimestampOffset(idx) + 1,
                                    TimestampOffset(idx) + TIMESTAMPED_SIZE))>>
SetTimestampAt(chunk, idx, x) == Overwrite(chunk, TimestampOffset(idx), EncodeTimestamped(x))

\* All timestamps, one after the other.
SetTimestamps(chunk, stamps) ==
    LET stamped[n \in 0..Targets] ==
            IF n = 0 THEN chunk ELSE SetTimestampAt(stamped[n - 1], n - 1, stamps[n - 1])
    IN  stamped[Targets]

\* Epoch 0 and tombstones of the oldest time.
FillDefault ==
    SetTimestamps(SetEpoch([i \in 1..ChunkSize |-> 0], 0),
                  [s \in 0..Targets - 1 |-> [ts |-> 0, valid |-> FALSE]])

-----------------------------------------------------------------------------
(* Chunks, one after the other                                              *)

ChunkCount == Len(bytes) \div ChunkSize

ResizeChunks(size) ==
    IF size <= ChunkCount THEN SubSeq(bytes, 1, size * ChunkSize)
    ELSE bytes \o [i \in 1..(size - ChunkCount) * ChunkSize |->
                       FillDefault[((i - 1) % ChunkSize) + 1]]

GetChunk(idx) ==
    IF idx >= ChunkCount THEN <<>>
    ELSE <<SubSeq(bytes, idx * ChunkSize + 1, (idx + 1) * ChunkSize)>>
PutChunk(idx, chunk) == Overwrite(bytes, idx * ChunkSize, chunk)

-----------------------------------------------------------------------------
(* An id: the epoch above, the position below                               *)

RESERVED == Power(INDEX_SIZE) - 1
PrimaryIdTryNew(idx, epoch) ==
    IF idx > RESERVED - 1 THEN <<>> ELSE <<epoch * Power(INDEX_SIZE) + idx>>
IdIdx(id) == id % Power(INDEX_SIZE)
IdEpoch(id) == id \div Power(INDEX_SIZE)
IdNewEpoch(id, e) == IdIdx(id) + e * Power(INDEX_SIZE)

NextEpoch(e) == IF e = MaxEpoch THEN 0 ELSE e + 1

-----------------------------------------------------------------------------
(* A column                                                                 *)

StoredTypes ==
    {"ascii", "bigint", "blob", "boolean", "date", "decimal", "double", "float", "inet", "int",
     "smallint", "text", "time", "timestamp", "timeuuid", "tinyint", "uuid", "varint"}
ColumnNew(type) == IF type \in StoredTypes \cup {"key"} THEN <<type>> ELSE <<>>

NoValue == "none"
Fits(cells, idx) == idx < Len(cells)
ColumnResize(c, size) ==
    IF ColumnTypes[c] = "key" THEN columns[c]
    ELSE [i \in 1..size |-> IF Fits(columns[c], i - 1) THEN columns[c][i]
                            ELSE [ts |-> 0, value |-> NoValue]]

\* ColumnVec::update: only a newer timestamp replaces what is there.
ColumnUpdate(cells, idx, new) ==
    IF ~ Fits(cells, idx) THEN <<>>
    ELSE <<[cells EXCEPT ![idx + 1] = IF new.ts > @.ts THEN new ELSE @]>>

\* A value of another type is refused, and so is a change of the primary key.
ColumnInsert(c, idx, new) ==
    IF ColumnTypes[c] # ValueTypes[new.value] THEN <<>> ELSE ColumnUpdate(columns[c], idx, new)
ColumnRemove(c, idx, new) ==
    IF ColumnTypes[c] = "key" THEN <<>> ELSE ColumnUpdate(columns[c], idx, new)

\* A column of the primary key is read from the key of the row.
ColumnGet(c, idx) ==
    CASE ColumnTypes[c] = "key" -> keys[idx + 1]
      [] Fits(columns[c], idx) -> columns[c][idx + 1].value
      [] OTHER -> NoValue

-----------------------------------------------------------------------------
(* The table                                                                *)

\* reserve_primary_ids: once all ids are given out the vectors grow together,
\* by as many rows as there are ids for.
NewIds == {idx \in Len(keys)..Len(keys) + IncrementSize - 1 : PrimaryIdTryNew(idx, 0) # <<>>}
ReserveRows ==
    LET size == Len(keys) + Cardinality(NewIds) IN
    /\ NoValue \notin Range(keys) /\ NewIds # {}
    /\ bytes' = ResizeChunks(size)
    /\ columns' = [c \in DOMAIN columns |-> ColumnResize(c, size)]
    /\ keys' = keys \o [i \in 1..Cardinality(NewIds) |-> NoValue]
    /\ UNCHANGED writes

\* The first row that is free is given a key.
AddKey ==
    /\ NoValue \in Range(keys)
    /\ keys' = [keys EXCEPT ![SelectInSeq(keys, LAMBDA k : k = NoValue)] = "key"]
    /\ UNCHANGED <<bytes, columns, writes>>

\* update_columns stops at the first column that refuses its value; the
\* columns before it keep theirs.
ColumnWrite(c, idx, new) ==
    IF new.value = NoValue THEN ColumnRemove(c, idx, new) ELSE ColumnInsert(c, idx, new)
UpdateColumns(idx, names, values) ==
    LET Written(i) == ColumnWrite(names[i], idx, values[i])
        done == {i \in DOMAIN names : \A r \in 1..i : Written(r) # <<>>}
    IN  [c \in DOMAIN columns |->
            IF \E i \in done : names[i] = c
            THEN Written(CHOOSE i \in done : names[i] = c)[1] ELSE columns[c]]

WriteRow(idx, names, values) ==
    /\ columns' = UpdateColumns(idx, names, values)
    /\ UNCHANGED <<bytes, keys>>

\* What is newer than the timestamps of the row, or as old as all of them and
\* moves the row to another partition, gives the row its next epoch and sets
\* its timestamps, one by one.
Stamp(chunk, idx) == TimestampAt(chunk, idx)[1]
RestampRow(idx, stamps) ==
    LET old == GetChunk(idx)[1]
        id == PrimaryIdTryNew(idx, 0)[1]
        new == IdNewEpoch(id, NextEpoch(EpochOf(old)))
        set == SetTimestamps(SetEpoch(old, IdEpoch(new)), stamps)
    IN  /\ \/ \E s \in DOMAIN stamps : Stamp(old, s).ts < stamps[s].ts
           \/ \A s \in DOMAIN stamps : Stamp(old, s).ts = stamps[s].ts
        /\ bytes' = PutChunk(IdIdx(new), set)
        /\ UNCHANGED <<columns, keys>>

-----------------------------------------------------------------------------
StorageInit ==
    /\ bytes = <<>> /\ keys = <<>> /\ writes = 0
    /\ columns = [c \in {n \in DOMAIN ColumnTypes : ColumnNew(ColumnTypes[n]) # <<>>} |-> <<>>]

Cells == [ts : StampTimes, value : DOMAIN ValueTypes \cup {NoValue}]
WriteSome ==
    /\ writes < MaxWrites /\ writes' = writes + 1
    /\ \E row \in DOMAIN keys :
        /\ keys[row] # NoValue
        /\ \/ \E stamps \in [0..Targets - 1 -> [ts : StampTimes, valid : BOOLEAN]] :
                  RestampRow(row - 1, stamps)
           \/ \E names \in Filtering : \E values \in [DOMAIN names -> Cells] :
                  WriteRow(row - 1, names, values)
StorageNext == ReserveRows \/ AddKey \/ WriteSome

-----------------------------------------------------------------------------
CellColumns == {c \in DOMAIN ColumnTypes : ColumnTypes[c] \in StoredTypes}

\* What is read back of every row.
RowsRead ==
    [idx \in 0..ChunkCount - 1 |->
        [key |-> keys[idx + 1], epoch |-> EpochOf(GetChunk(idx)[1]),
         stamps |-> [s \in 0..Targets - 1 |-> Stamp(GetChunk(idx)[1], s)],
         values |-> [c \in CellColumns |->
            [ts |-> columns[c][idx + 1].ts, value |-> ColumnGet(c, idx)]]]]

Store == INSTANCE RowStore WITH
    Epochs <- MaxEpoch + 1, Slots <- 0..Targets - 1, StoreColumns <- CellColumns,
    CellValues <- DOMAIN ValueTypes \cup {NoValue}, StoreTimes <- StampTimes,
    RowKeys <- {"key"}, RowLimit <- RESERVED, rows <- RowsRead

(* The bytes and the vectors behave like a store of rows: writing one row,  *)
(* one timestamp or one column disturbs no other, rows that are reserved    *)
(* start empty and leave the others alone, and a value that is refused      *)
(* leaves no trace (VecChunks, ChunkTimestamps, ColumnVec, update_columns). *)
ImplementsRowStore == Store!Spec
=============================================================================
