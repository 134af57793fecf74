-------------------------- MODULE CheckpointSaver --------------------------
(***************************************************************************)
(* The checkpoints of a CDC reader (db_cdc/checkpoint_saver.rs): they are  *)
(* not stored, but counted to report the earliest position of all streams  *)
(* in cdc_last_processed_timestamp_seconds.  The streams are read          *)
(* concurrently; the position is recorded under a lock and the gauge is    *)
(* set after the lock is released.                                         *)
(***************************************************************************)
EXTENDS Naturals, FiniteSetsExt, Functions

CONSTANTS
    LogStreams,     \* the streams of a generation
    MaxPosition     \* bound: positions of the streams

ASSUME SaverAssumption == IsFiniteSet(LogStreams) /\ MaxPosition \in Nat

VARIABLES
    positions,      \* stream -> the position recorded last
    counts,         \* position -> how many streams are at it
    saves,          \* stream -> the minimum a save has yet to report, or NoSave
    processed,      \* the gauge: [at, partial]
    floor           \* where the streams of this generation begin
saverVars == <<positions, counts, saves, processed, floor>>

\* partial: it was computed before every stream had a position.
NoSave == [at |-> 0, partial |-> TRUE]

-----------------------------------------------------------------------------
\* The counts after the stream has moved; a position that no stream is at is
\* removed.
Counted(known, stream, at) ==
    LET left == IF stream \in DOMAIN positions
                THEN [known EXCEPT ![positions[stream]] = @ - 1] ELSE known
        rest == Restrict(left, {t \in DOMAIN left : left[t] > 0})
    IN  [t \in DOMAIN rest \cup {at} |->
            (IF t \in DOMAIN rest THEN rest[t] ELSE 0) + (IF t = at THEN 1 ELSE 0)]

\* StreamProgress::record.  A stream is read on from where it is; a new one
\* starts no earlier than the generation before it ended.
Record(s, at) ==
    /\ saves[s] = NoSave
    /\ s \in DOMAIN positions => at > positions[s]
    /\ at >= floor
    /\ counts' = Counted(counts, s, at)
    /\ positions' = [t \in DOMAIN positions \cup {s} |-> IF t = s THEN at ELSE positions[t]]
    /\ saves' = [saves EXCEPT ![s] = [at |-> Min(DOMAIN counts'),
                                      partial |-> DOMAIN positions' # LogStreams]]
    /\ UNCHANGED <<processed, floor>>

\* record_stream_progress, after the lock
SetProcessed(s) ==
    /\ saves[s] # NoSave
    /\ processed' = saves[s]
    /\ saves' = [saves EXCEPT ![s] = NoSave]
    /\ UNCHANGED <<positions, counts, floor>>

\* save_new_generation: the library has stopped reading the old streams.
NewGeneration ==
    /\ DOMAIN positions # {} /\ \A s \in LogStreams : saves[s] = NoSave
    /\ positions' = << >> /\ counts' = << >>
    /\ floor' = Max(Range(positions))
    /\ UNCHANGED <<saves, processed>>

-----------------------------------------------------------------------------
SaverInit ==
    /\ positions = << >> /\ counts = << >> /\ floor = 0
    /\ saves = [s \in LogStreams |-> NoSave] /\ processed = NoSave
SaverNext ==
    \/ \E s \in LogStreams : SetProcessed(s) \/ \E at \in 1..MaxPosition : Record(s, at)
    \/ NewGeneration
SaverSpec == SaverInit /\ [][SaverNext]_saverVars

\* The counts are those of the positions.  Once every stream has a position,
\* what is reported is no later than any of them, in whatever order the
\* saves report.
SaverRight ==
    /\ counts = [t \in Range(positions) |->
                   Cardinality({s \in DOMAIN positions : positions[s] = t})]
    /\ processed.partial \/ \A s \in DOMAIN positions : processed.at <= positions[s]
=============================================================================
