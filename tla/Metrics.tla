------------------------------ MODULE Metrics ------------------------------
(***************************************************************************)
(* What a node reports of itself: the series of an index (metrics.rs), the *)
(* checkpoints of its CDC readers and the internal counters.               *)
(*                                                                         *)
(* One index is modelled, with rows that are only added.  monitor_items    *)
(* sends a row to the index, counts it and marks the index dirty; GET      *)
(* /metrics asks the indexes that are marked for their sizes, each over a  *)
(* channel other than the one the rows take.  Any number of requests may   *)
(* be in progress at once, and a count may fail.                           *)
(***************************************************************************)
EXTENDS CheckpointSaver, Internals

CONSTANTS
    IndexKinds,     \* the kinds of the index: "vs", "opensearch" or "fts"
    MaxRows,        \* bound: rows that are sent to the index
    Scrapers,       \* requests for the metrics that may be in progress at once
    MaxScrapes,     \* bound: requests for the metrics that find the mark
    MaxDrops        \* bound: times the index is dropped

VARIABLES
    kind,
    engine,         \* the engine has the index
    rowsSent,       \* rows in the channel of the index
    items,          \* rows the index has
    sender,         \* monitor_items: "idle", "sent" or "counted"
    series,         \* the families with a series of the index -> its value
    dirty,          \* the index is marked
    scrape,         \* request -> [pc, n, old], old: the index it asks is gone
    marked,         \* rows the index had when it was marked last
    refreshed,      \* since then: "no", "failed" (every count) or "counted"
    newest,         \* the latest count of the index that was set
    overtaken,      \* the request that set the size last asked before another that
                    \* has set it, or asked an index that is gone
    scrapes, drops
requestVars == <<scrape, scrapes>>
historyVars == <<marked, refreshed, newest, overtaken>>
seriesVars == <<kind, engine, rowsSent, items, sender, series, dirty, requestVars, historyVars, drops>>

\* The families that have a series for every index; those of the readers are
\* in CdcReader and CheckpointSaver.
IndexFamilies == {"latency", "size", "modified", "indexing_lag", "fts_index_size_bytes",
                  "fts_segment_count"}

SetTo(families, value) ==
    [f \in DOMAIN series \cup families |-> IF f \in families THEN value ELSE series[f]]
ValueOf(family) == IF family \in DOMAIN series THEN series[family] ELSE 0
NoScrape == [pc |-> "idle", n |-> 0, old |-> FALSE]

\* The families a full-text index has besides the size are set with it.
Refreshed == {"size"} \cup (IF kind = "fts" THEN {"fts_index_size_bytes", "fts_segment_count"} ELSE {})

-----------------------------------------------------------------------------
(* monitor_items and a search                                               *)

\* process_operations: to the index, ...
SendRow ==
    /\ engine /\ sender = "idle" /\ items + rowsSent < MaxRows
    /\ rowsSent' = rowsSent + 1 /\ sender' = "sent"
    /\ UNCHANGED <<kind, engine, items, series, dirty, requestVars, historyVars, drops>>

CountModified ==
    /\ sender = "sent"
    /\ series' = SetTo({"modified"}, ValueOf("modified") + 1) /\ sender' = "counted"
    /\ UNCHANGED <<kind, engine, rowsSent, items, dirty, requestVars, historyVars, drops>>

\* ... and the mark last.
MarkDirty ==
    /\ sender = "counted"
    /\ dirty' = TRUE /\ sender' = "idle" /\ marked' = items /\ refreshed' = "no"
    /\ UNCHANGED <<kind, engine, rowsSent, items, series, requestVars, newest, overtaken, drops>>

ApplyRow ==
    /\ rowsSent > 0
    /\ rowsSent' = rowsSent - 1 /\ items' = items + 1
    /\ UNCHANGED <<kind, engine, sender, series, dirty, requestVars, historyVars, drops>>

\* A search is timed whether or not it finds its index.
TimeSearch ==
    /\ "latency" \notin DOMAIN series
    /\ series' = SetTo({"latency"}, 1)
    /\ UNCHANGED <<kind, engine, rowsSent, items, sender, dirty, requestVars, historyVars, drops>>

-----------------------------------------------------------------------------
(* get_metrics                                                              *)

Asks(g, from, to) == scrape[g].pc = from /\ scrape' = [scrape EXCEPT ![g].pc = to]

\* take_dirty_indexes collects first, ...
CollectDirty(g) ==
    /\ dirty /\ scrapes < MaxScrapes
    /\ Asks(g, "idle", "collected") /\ scrapes' = scrapes + 1
    /\ UNCHANGED <<kind, engine, rowsSent, items, sender, series, dirty, historyVars, drops>>

\* ... and removes then: a mark that was set between is gone too.
RemoveDirty(g) ==
    /\ Asks(g, "collected", "asking") /\ dirty' = FALSE
    /\ UNCHANGED <<kind, engine, rowsSent, items, sender, series, scrapes, historyVars, drops>>

\* refresh_index_metrics: an index that is not there leaves the series as
\* they are.
FindIndex(g) ==
    /\ IF engine THEN Asks(g, "asking", "found")
                 ELSE scrape[g].pc = "asking" /\ scrape' = [scrape EXCEPT ![g] = NoScrape]
    /\ UNCHANGED <<kind, engine, rowsSent, items, sender, series, dirty, scrapes, historyVars, drops>>

\* What an index answers that is asked for its size.  An index that was
\* dropped meanwhile may have got more rows; OpenSearch answers 0 for a
\* count that failed.
Answers(g) ==
    (IF scrape[g].old THEN scrape[g].n..MaxRows ELSE {items})
        \cup (IF kind = "opensearch" THEN {0} ELSE {})

\* A count since the last mark that did not fail, or the first that did.
Noted(success) == refreshed' = IF success THEN "counted"
                               ELSE IF refreshed = "no" THEN "failed" ELSE refreshed

CountItems(g) ==
    /\ scrape[g].pc = "found"
    /\ \E n \in Answers(g) :
          /\ scrape' = [scrape EXCEPT ![g].pc = "counted", ![g].n = n]
          /\ IF scrape[g].old THEN UNCHANGED refreshed ELSE Noted(n = items)
    /\ UNCHANGED <<kind, engine, rowsSent, items, sender, series, dirty, scrapes, marked, newest, overtaken,
                   drops>>

\* A count that fails leaves the series as they are, and the mark is gone.
CountFails(g) ==
    /\ scrape[g].pc = "found"
    /\ scrape' = [scrape EXCEPT ![g] = NoScrape]
    /\ IF scrape[g].old THEN UNCHANGED refreshed ELSE Noted(FALSE)
    /\ UNCHANGED <<kind, engine, rowsSent, items, sender, series, dirty, scrapes, marked, newest, overtaken,
                   drops>>

\* Whether the size that is set is of a request that was overtaken.
Overtakes(request) ==
    /\ overtaken' = (request.old \/ request.n < newest)
    /\ newest' = IF overtaken' THEN newest ELSE request.n

\* Bug: the mark is removed when the size was set.
SetSizeUnmarks(g) ==
    /\ scrape[g].pc = "counted"
    /\ series' = SetTo(Refreshed, scrape[g].n) /\ scrape' = [scrape EXCEPT ![g] = NoScrape]
    /\ dirty' = FALSE
    /\ Overtakes(scrape[g])
    /\ UNCHANGED <<kind, engine, rowsSent, items, sender, marked, refreshed, scrapes, drops>>

SetSize(g) ==
    /\ scrape[g].pc = "counted"
    /\ series' = SetTo(Refreshed, scrape[g].n) /\ scrape' = [scrape EXCEPT ![g] = NoScrape]
    /\ Overtakes(scrape[g])
    /\ UNCHANGED <<kind, engine, rowsSent, items, sender, dirty, marked, refreshed, scrapes, drops>>

\* A request that finds no mark changes nothing; the encoding is left out.
GetMetrics(g) ==
    CollectDirty(g) \/ RemoveDirty(g) \/ FindIndex(g) \/ CountItems(g) \/ CountFails(g) \/ SetSize(g)

-----------------------------------------------------------------------------
(* The engine                                                               *)

\* The series of the index, of all families, and its mark.
RemoveIndexLabels == series' = Restrict(series, DOMAIN series \ IndexFamilies) /\ dirty' = FALSE

\* A request that has found the index keeps it until it is answered.
Outdated(request) ==
    IF request.pc = "found" /\ ~request.old THEN [request EXCEPT !.old = TRUE, !.n = items]
    ELSE IF request.pc = "counted" THEN [request EXCEPT !.old = TRUE] ELSE request

DropSeries ==
    /\ engine /\ drops < MaxDrops
    /\ engine' = FALSE /\ RemoveIndexLabels
    /\ rowsSent' = 0 /\ items' = 0 /\ drops' = drops + 1
    /\ marked' = 0 /\ refreshed' = "no" /\ newest' = 0 /\ overtaken' = FALSE
    /\ scrape' = [g \in Scrapers |-> Outdated(scrape[g])]
    /\ UNCHANGED <<kind, sender, scrapes>>

CreateAgain ==
    /\ ~engine /\ engine' = TRUE
    /\ UNCHANGED <<kind, rowsSent, items, sender, series, dirty, requestVars, historyVars, drops>>

-----------------------------------------------------------------------------
SeriesInit ==
    /\ kind \in IndexKinds /\ engine = TRUE /\ rowsSent = 0 /\ items = 0 /\ sender = "idle"
    /\ series = << >> /\ dirty = FALSE /\ scrape = [g \in Scrapers |-> NoScrape]
    /\ marked = 0 /\ refreshed = "no" /\ newest = 0 /\ overtaken = FALSE /\ scrapes = 0 /\ drops = 0
SeriesNext ==
    \/ SendRow \/ CountModified \/ MarkDirty \/ ApplyRow \/ TimeSearch
    \/ \E g \in Scrapers : GetMetrics(g)
    \/ DropSeries \/ CreateAgain
SeriesSpec == SeriesInit /\ [][SeriesNext]_seriesVars

\* The size is never ahead of the index and, once no mark and no request is
\* left, counts the rows that were in the index when it was marked, unless
\* every count since then failed.
SeriesRight ==
    engine /\ ~overtaken =>
        /\ ValueOf("size") <= items
        /\ ~dirty /\ (\A g \in Scrapers : scrape[g].pc = "idle") =>
              ValueOf("size") >= marked \/ refreshed = "failed"

(* What the node reports is right however its tasks interleave.  A mark    *)
(* that is set while take_dirty_indexes collects and removes is not lost,  *)
(* whatever other requests do: the size that is set afterwards counts the  *)
(* rows that were in the index when it was marked, unless every count      *)
(* since then failed, or a request that had counted earlier, or had asked  *)
(* an index that is gone, wrote last.  cdc_last_processed_timestamp_seconds *)
(* is never later than the position of any stream once all have one        *)
(* (record_stream_progress sets it outside the lock).  An increment that   *)
(* is sent after start_counter has returned is counted once, though every  *)
(* message has a task of its own (process_counters).                       *)
ReportsRight == SeriesRight /\ SaverRight /\ InternalsRight
=============================================================================
