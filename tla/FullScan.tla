----------------------------- MODULE FullScan ------------------------------
(***************************************************************************)
(* The initial scan of a table (db_index.rs): the token ring is cut into   *)
(* ranges, a limited number of which are read at a time; every row is sent *)
(* into the pipeline with a guard, and a range counts as scanned when all  *)
(* its guards have been dropped.  The progress is a 64-bit count of        *)
(* tokens; TOKEN_MAX stands for i64::MAX.                                  *)
(***************************************************************************)
EXTENDS IndexDefs, Integers, FiniteSets

CONSTANTS
    TOKEN_MAX,      \* i64::MAX
    Rings,          \* the token rings of a cluster: sorted sequences
    Rows,           \* the rows of the table: [token, key, cells, times]
    Meta,           \* the index, as GetIndex returns it
    ScanTable,      \* its table
    Concurrency,    \* ranges that are read at a time
    MaxErrors       \* bound on failures of the database

ASSUME FullScanAssumption ==
    /\ TOKEN_MAX \in Nat \ {0} /\ Concurrency \in Nat \ {0} /\ MaxErrors \in Nat
    /\ Rings \subseteq Seq((-TOKEN_MAX)..TOKEN_MAX)
    /\ \A r \in Rings : \A i, j \in DOMAIN r : i <= j => r[i] <= r[j]
    /\ \A r \in Rows : r.token \in (-TOKEN_MAX)..TOKEN_MAX

VARIABLES
    ring,
    nextRange,      \* the range to open next
    ranges,         \* the ranges that were opened: [state, rows, guards]
    indexed,        \* rows whose guard was dropped by the pipeline
    lost,           \* rows that were not decoded or not delivered
    completed,      \* completed_scan_length
    scan,           \* "scanning", "finished", "failed" or "cancelled"
    session,        \* there is a database session
    errors

scanVars == <<ring, nextRange, ranges, indexed, lost, completed, scan, session, errors>>

-----------------------------------------------------------------------------
(* Ranges of tokens                                                         *)

TOKEN_MIN == -TOKEN_MAX
Modulus == 2 * TOKEN_MAX + 2    \* 2^64
\* Token::new of the driver: i64::MIN is not a token.
TokenNew(v) == IF v = -TOKEN_MAX - 1 THEN TOKEN_MAX ELSE v

\* Bug: the last range ends before the highest token.
RangeOfExclusive(begin, end) ==
    IF begin > end THEN <<begin, TOKEN_MAX - 1>> ELSE <<begin, TokenNew(end - 1)>>

RangeOf(begin, end) ==
    IF begin > end THEN <<begin, TOKEN_MAX>> ELSE <<begin, TokenNew(end - 1)>>

FullscanRanges(r) ==
    LET tokens == <<TOKEN_MIN>> \o r IN
    [i \in DOMAIN tokens |-> RangeOf(tokens[i], tokens[(i % Len(tokens)) + 1])]

\* Bug: the first token of a range is not counted.
RangeLengthExclusive(range) == range[2] - range[1]

\* The distance between the end and the token before the beginning.
RangeLength(range) ==
    LET d == range[2] - (range[1] - 1) IN IF d < 0 THEN -d ELSE d

Progress(length) == IF length = Modulus - 1 THEN "Done" ELSE "InProgress"

-----------------------------------------------------------------------------
Error == errors < MaxErrors /\ errors' = errors + 1

\* Bug: a range keeps its permit when it is complete.
ReadingOrDone == DOMAIN ranges

Reading == {i \in DOMAIN ranges : ranges[i].state = "sending"}

Permit == Cardinality(Reading) < Concurrency

ScanInit ==
    /\ ring \in Rings
    /\ nextRange = 1 /\ ranges = <<>>
    /\ indexed = {} /\ lost = {} /\ completed = 0
    /\ scan = "scanning" /\ session = TRUE /\ errors = 0

\* scan_ranges takes a permit and opens the next range.  A range that fails to
\* open is tried again after a delay, and the scan waits for a session.
OpenRange ==
    /\ scan = "scanning" /\ session
    /\ nextRange <= Len(FullscanRanges(ring))
    /\ Permit
    /\ LET range == FullscanRanges(ring)[nextRange] IN
       ranges' = Append(ranges, [state |-> "sending", guards |-> {},
                                 rows |-> {r \in Rows : /\ r.token >= range[1]
                                                        /\ r.token <= range[2]}])
    /\ nextRange' = nextRange + 1
    /\ UNCHANGED <<ring, indexed, lost, completed, scan, session, errors>>

\* The answer cannot be read at all, or the db actor is gone: the scan ends.
FailScan ==
    /\ scan = "scanning"
    /\ nextRange <= Len(FullscanRanges(ring))
    /\ Error
    /\ scan' = "failed"
    /\ UNCHANGED <<ring, nextRange, ranges, indexed, lost, completed, session>>

\* A row is decoded and sent with a guard, or dropped.
SendRow(i, r) ==
    /\ scan = "scanning"
    /\ r \in ranges[i].rows
    /\ \/ /\ ParseRow(Meta, ScanTable, r) # <<>>
          /\ ranges' = [ranges EXCEPT ![i].rows = @ \ {r}, ![i].guards = @ \cup {r}]
          /\ UNCHANGED lost
       \/ /\ ParseRow(Meta, ScanTable, r) = <<>>
          /\ ranges' = [ranges EXCEPT ![i].rows = @ \ {r}]
          /\ lost' = lost \cup {r}
    /\ UNCHANGED <<ring, nextRange, indexed, completed, scan, session, errors>>

\* An error in the middle of a stream ends it: the rest of the rows are not
\* read, and the range goes on as if it had no more.
StreamError(i) ==
    /\ scan = "scanning"
    /\ ranges[i].rows # {}
    /\ Error
    /\ lost' = lost \cup ranges[i].rows
    /\ ranges' = [ranges EXCEPT ![i].rows = {}]
    /\ UNCHANGED <<ring, nextRange, indexed, completed, scan, session>>

\* All rows are sent: the permit is returned, the guards are waited for.
EndRange(i) ==
    /\ scan = "scanning"
    /\ ranges[i].state = "sending" /\ ranges[i].rows = {}
    /\ ranges' = [ranges EXCEPT ![i].state = "draining"]
    /\ UNCHANGED <<ring, nextRange, indexed, lost, completed, scan, session, errors>>

\* The pipeline has applied a row and drops its guard.
DropGuard(i, r) ==
    /\ r \in ranges[i].guards
    /\ ranges' = [ranges EXCEPT ![i].guards = @ \ {r}]
    /\ indexed' = indexed \cup {r}
    /\ UNCHANGED <<ring, nextRange, lost, completed, scan, session, errors>>

Acknowledged(i) == ranges[i].state = "draining" /\ ranges[i].guards = {}

CompleteRange(i) ==
    /\ scan = "scanning"
    /\ Acknowledged(i)
    /\ ranges' = [ranges EXCEPT ![i].state = "done"]
    /\ completed' = (completed + RangeLength(FullscanRanges(ring)[i])) % Modulus
    /\ UNCHANGED <<ring, nextRange, indexed, lost, scan, session, errors>>

FinishFullScan ==
    /\ scan = "scanning"
    /\ nextRange > Len(FullscanRanges(ring))
    /\ \A i \in DOMAIN ranges : ranges[i].state = "done"
    /\ scan' = "finished"
    /\ UNCHANGED <<ring, nextRange, ranges, indexed, lost, completed, session, errors>>

\* The index is dropped: the tasks of its ranges are aborted.
CancelFullScan ==
    /\ scan = "scanning"
    /\ Error
    /\ scan' = "cancelled"
    /\ UNCHANGED <<ring, nextRange, ranges, indexed, lost, completed, session>>

LoseSession ==
    /\ session /\ Error /\ session' = FALSE
    /\ UNCHANGED <<ring, nextRange, ranges, indexed, lost, completed, scan>>
GetSession ==
    /\ ~session /\ session' = TRUE
    /\ UNCHANGED <<ring, nextRange, ranges, indexed, lost, completed, scan, errors>>

RangeStep(i) ==
    \/ \E r \in Rows : SendRow(i, r) \/ DropGuard(i, r)
    \/ EndRange(i)
    \/ CompleteRange(i)

ScanNext ==
    \/ OpenRange
    \/ FailScan
    \/ \E i \in DOMAIN ranges : RangeStep(i) \/ StreamError(i)
    \/ FinishFullScan
    \/ CancelFullScan
    \/ LoseSession
    \/ GetSession

\* The db actor reconnects, the tasks of the ranges and the pipeline run.
ScanFairness ==
    /\ WF_scanVars(OpenRange)
    /\ WF_scanVars(\E i \in DOMAIN ranges : RangeStep(i))
    /\ WF_scanVars(FinishFullScan)
    /\ WF_scanVars(GetSession)

ScanSpec == ScanInit /\ [][ScanNext]_scanVars /\ ScanFairness

-----------------------------------------------------------------------------
(* Every row of the table belongs to a range and is indexed before the scan *)
(* is reported as finished, or before the progress is 100%; only rows that  *)
(* could not be read are missing (scan_ranges, Progress::from).  A scan     *)
(* that is finished reports 100%: the lengths of the ranges add up to       *)
(* 2^64 - 1, unless the ring contains the lowest token, whose range would   *)
(* be all tokens a second time (fullscan_ranges, range_length).             *)
DoneMeansIndexed ==
    /\ scan = "finished" \/ Progress(completed) = "Done" => Rows = indexed \cup lost
    /\ scan = "finished" /\ TOKEN_MIN \notin ToSet(ring) => Progress(completed) = "Done"

(* The scan comes to an end whatever the session does and however rows are  *)
(* acknowledged: permits are returned before the guards are waited for.     *)
ScanEnds == <>(scan # "scanning")
=============================================================================
