----------------------------- MODULE CdcReader -----------------------------
(***************************************************************************)
(* The life cycle of one CDC reader of an index (db_cdc/actor.rs): an      *)
(* actor that creates a log reader when a database session is there, stops *)
(* it when the session goes away or the index is dropped, and restarts it  *)
(* after a pause when it fails.  A reader does not continue where its      *)
(* predecessor stopped: it starts at the time at which the predecessor's   *)
(* task ended, less CHECKPOINT_TIMESTAMP_OFFSET.                           *)
(*                                                                         *)
(* Every stream of the log has an entry at every tick of the clock, so     *)
(* that every interval that is skipped is an entry that is lost.           *)
(***************************************************************************)
EXTENDS Integers, FiniteSetsExt

CONSTANTS
    Streams,        \* the streams of the change log
    Offset,         \* CHECKPOINT_TIMESTAMP_OFFSET in ticks
    SafetyIntervals, \* how far behind the clock the log may be configured to
                    \* be read
    MaxTime,        \* bound on the clock
    MaxFaults,      \* bound on failures of readers and of their creation
    MaxSessions     \* bound on the changes of the session

ASSUME CdcReaderAssumption ==
    /\ Offset \in Nat /\ SafetyIntervals \subseteq Nat
    /\ MaxTime \in Nat /\ MaxFaults \in Nat /\ MaxSessions \in Nat

VARIABLES
    now,      \* the clock
    session,  \* the value of the session watch: is there a session?
    changed,  \* the actor has not seen the latest value of the watch
    alive,    \* the index has not been dropped
    pc,       \* the actor: "select", "stopping", "creating" or "finished"
    after,    \* what follows the stop: "creating", "select" or "finished"
    start,    \* CdcReaderState.start
    handler,  \* the handler task: "none", "running" or "ended"
    ended,    \* the time at which the handler task ended
    position, \* position[s]: the next tick of s the running reader reads
    safety,   \* the safety interval of the running reader
    shutdown, \* a permit of shutdown_notify
    failed,   \* a permit of error_notify
    backoff,  \* the pause before a restart runs
    up,       \* the gauge cdc_reader_up
    series,   \* the metrics the registry has a series of this reader for
    high,     \* high[s]: one more than the latest tick of s ever delivered
    lost,     \* lost[s]: the ticks of s that a reader left undelivered when it
              \* ended more than Offset behind the clock
    faults,   \* failures so far
    sessions  \* changes of the session so far

env == <<now, session, alive, sessions>>
gauges == <<up, series>>
task == <<handler, ended, position, safety, high, lost>>
vars == <<now, session, changed, alive, pc, after, start, handler, ended,
          position, safety, shutdown, failed, backoff, up, series, high, lost,
          faults, sessions>>

Created == Offset

-----------------------------------------------------------------------------
(* The environment: the clock, the session of the database actor, the index *)

Tick ==
    /\ now < MaxTime
    /\ now' = now + 1
    /\ UNCHANGED <<session, changed, alive, pc, after, start, task, shutdown,
                   failed, backoff, gauges, faults, sessions>>

\* Sessions come and go.  A session that is replaced by another one is a
\* change too; the watch keeps the latest value only.
ChangeSession ==
    /\ sessions < MaxSessions
    /\ session' \in BOOLEAN
    /\ session \/ session'
    /\ changed' = TRUE
    /\ sessions' = sessions + 1
    /\ UNCHANGED <<now, alive, pc, after, start, task, shutdown, failed,
                   backoff, gauges, faults>>

DropIndex ==
    /\ alive
    /\ alive' = FALSE
    /\ UNCHANGED <<now, session, changed, pc, after, start, task, shutdown,
                   failed, backoff, gauges, faults, sessions>>

-----------------------------------------------------------------------------
(* The metrics of the reader.  An update creates the series it is for.      *)

SetReaderMetricUp == up' = TRUE /\ series' = series \union {"up"}
SetReaderMetricDown == up' = FALSE /\ series' = series \union {"up"}
RecordHandlerError == series' = series \union {"errors"}
RecordReaderRestart == series' = series \union {"restarts"}
RemoveReaderLabels == series \ {"up", "errors", "restarts"}
RemoveMetrics == up' = FALSE /\ series' = RemoveReaderLabels

-----------------------------------------------------------------------------
(* The handler task and the log reader it drives                            *)

\* The reader delivers the next entry of a stream.
Poll(s) ==
    /\ handler = "running"
    /\ position[s] + safety < now
    /\ position' = [position EXCEPT ![s] = @ + 1]
    /\ high' = [high EXCEPT ![s] = Max({@, position[s] + 1})]
    /\ UNCHANGED <<env, changed, pc, after, start, handler, ended, safety, lost, shutdown,
                   failed, backoff, gauges, faults>>

\* The task returns the time at which it ends, and no later reader goes back
\* further than Offset from there.
EndHandler ==
    /\ handler = "running"
    /\ handler' = "ended"
    /\ ended' = now
    /\ lost' = [s \in Streams |-> lost[s] \cup high[s]..(now - Offset - 1)]
    /\ UNCHANGED <<env, changed, pc, after, start, position, safety, high,
                   backoff, up>>

\* The reader fails: the task tells the actor and ends.
FailHandler ==
    /\ faults < MaxFaults
    /\ EndHandler
    /\ faults' = faults + 1
    /\ RecordHandlerError
    /\ failed' = TRUE
    /\ UNCHANGED shutdown

ShutdownHandler ==
    /\ shutdown
    /\ EndHandler
    /\ shutdown' = FALSE
    /\ UNCHANGED <<failed, series, faults>>

-----------------------------------------------------------------------------
(* The actor                                                                *)

\* stop() takes the reader and asks the handler task to end.
Stop(next) ==
    /\ pc' = "stopping"
    /\ after' = next
    /\ shutdown' = (shutdown \/ handler # "none")

\* A new session drains error_notify: what failed before does not matter.
HandleSessionChange ==
    /\ pc = "select"
    /\ alive
    /\ changed
    /\ changed' = FALSE
    /\ Stop(IF session THEN "creating" ELSE "select")
    /\ failed' = (failed /\ ~session)
    /\ backoff' = FALSE
    /\ UNCHANGED <<env, start, task, gauges, faults>>

HandleError ==
    /\ pc = "select"
    /\ failed
    /\ failed' = FALSE
    /\ backoff' = TRUE
    /\ SetReaderMetricDown
    /\ UNCHANGED <<env, changed, pc, after, start, task, shutdown, faults>>

RestartAfterBackoff ==
    /\ pc = "select"
    /\ backoff
    /\ backoff' = FALSE
    /\ \/ /\ alive /\ session
          /\ RecordReaderRestart
          /\ Stop("creating")
       \/ /\ alive /\ ~session
          /\ UNCHANGED <<pc, after, shutdown, series>>
       \/ /\ ~alive
          /\ Stop("finished")
          /\ UNCHANGED series
    /\ UNCHANGED <<env, changed, start, task, failed, up, faults>>

\* Bug: the end of the index is noticed with the next session only.
LeaveLoopLate ==
    /\ pc = "select"
    /\ ~alive /\ changed
    /\ Stop("finished")
    /\ UNCHANGED <<env, changed, start, task, failed, backoff, gauges, faults>>

\* The watch of the index's life ends the loop.
LeaveLoop ==
    /\ pc = "select"
    /\ ~alive
    /\ Stop("finished")
    /\ UNCHANGED <<env, changed, start, task, failed, backoff, gauges, faults>>

\* Bug: a stop that finds no task forgets where the last one ended.
StartAfterNow == IF handler = "ended" THEN ended ELSE now

StartAfter == IF handler = "ended" THEN ended ELSE start

\* stop() ends with the gauge at zero; the clean-up after the loop removes the
\* series.
EndOfStop == IF after = "finished" THEN RemoveMetrics ELSE SetReaderMetricDown

\* Bug: the permit of an earlier shutdown is not drained.
FinishStopUndrained ==
    /\ pc = "stopping"
    /\ handler # "running"
    /\ start' = StartAfter
    /\ handler' = "none"
    /\ EndOfStop
    /\ pc' = after
    /\ UNCHANGED <<env, changed, after, ended, position, safety, high, lost, shutdown, failed,
                   backoff, faults>>

\* stop() has waited for the task; what the task returned becomes the start.
\* A restart drains the permit of a shutdown the task did not wait for.
FinishStop ==
    /\ pc = "stopping"
    /\ handler # "running"
    /\ start' = StartAfter
    /\ handler' = "none"
    /\ EndOfStop
    /\ pc' = after
    /\ shutdown' = (shutdown /\ after # "creating")
    /\ UNCHANGED <<env, changed, after, ended, position, safety, high, lost, failed,
                   backoff, faults>>

\* Bug: the offset is left out.
CdcStartWithoutOffset == start

CdcStart == start - Offset

\* A reader that is built to start at t has read everything before it.
LogReader(t) == [s \in Streams |-> t]

\* CdcReaderParams: what the configuration says when the actor decides to
\* restart; a reader that runs keeps what it was created with.
ReaderParams == SafetyIntervals

CreateReader ==
    /\ pc = "creating"
    /\ handler' = "running"
    /\ position' = LogReader(CdcStart)
    /\ safety' \in ReaderParams
    /\ SetReaderMetricUp
    /\ pc' = "select"
    /\ UNCHANGED <<env, changed, after, start, ended, high, lost, shutdown, failed,
                   backoff, faults>>

\* CdcConsumerFactory::new: the driver does not know the table, or the
\* statement that fetches rows is not prepared.
ConsumerFactoryFails ==
    /\ faults < MaxFaults
    /\ faults' = faults + 1

FailToCreateReader ==
    /\ pc = "creating"
    /\ ConsumerFactoryFails
    /\ SetReaderMetricDown
    /\ failed' = TRUE
    /\ pc' = "select"
    /\ UNCHANGED <<env, changed, after, start, task, shutdown, backoff>>

-----------------------------------------------------------------------------
Init ==
    /\ now = Created
    /\ session \in BOOLEAN
    /\ changed = TRUE              \* mark_changed
    /\ alive = TRUE
    /\ pc = "select" /\ after = "select"
    /\ start = Created
    /\ handler = "none" /\ ended = Created
    /\ position = [s \in Streams |-> Created]
    /\ safety = Min(SafetyIntervals)
    /\ shutdown = FALSE /\ failed = FALSE /\ backoff = FALSE
    /\ up = FALSE /\ series = {"up"}
    /\ high = [s \in Streams |-> Created] /\ lost = [s \in Streams |-> {}]
    /\ faults = 0 /\ sessions = 0

Actor ==
    \/ HandleSessionChange
    \/ HandleError
    \/ RestartAfterBackoff
    \/ LeaveLoop
    \/ FinishStop
    \/ CreateReader
    \/ FailToCreateReader

Next ==
    \/ Tick
    \/ ChangeSession
    \/ DropIndex
    \/ \E s \in Streams : Poll(s)
    \/ FailHandler
    \/ ShutdownHandler
    \/ Actor

Spec == Init /\ [][Next]_vars

\* The runtime polls the actor and the handler task, a reader that runs makes
\* progress on every stream, and the timer of the pause fires.  Failures and
\* changes of the session are never owed.
Fairness ==
    /\ WF_vars(Actor)
    /\ WF_vars(ShutdownHandler)
    /\ \A s \in Streams : WF_vars(Poll(s))

FairSpec == Spec /\ Fairness
-----------------------------------------------------------------------------
(* No reader is about to read an entry while an earlier one, younger than   *)
(* the index, has never been delivered.  This is what the comments of       *)
(* CdcReaderState promise of a restart; it fails when a reader ends further *)
(* behind the clock than Offset.                                            *)
NoGap ==
    handler = "running" => \A s \in Streams : position[s] <= high[s]

(* Only what a reader left more than Offset behind the clock when it ended  *)
(* is ever skipped: whatever sequence of failures, failed creations, pauses *)
(* and changes of the session followed, the next reader goes back to Offset *)
(* before that end (CdcReaderState::restart, create_cdc_reader).            *)
OnlyLateLost ==
    handler = "running" => \A s \in Streams : high[s]..(position[s] - 1) \subseteq lost[s]

Feed == INSTANCE LogFeed WITH upto <- high
(* The readers of an index implement the promise of LogFeed: entries come   *)
(* in the order of their stream, only repetitions come twice, and only what *)
(* was late when a reader ended is left out.                                *)
ImplementsFeed == Feed!Spec

(* Once sessions stop changing and there is one, everything in the log that *)
(* was not late when a reader ended is delivered and the gauge says so: no  *)
(* failure, stale permit or lost pause leaves an index that nobody feeds    *)
(* (error_notify, backoff_duration, drain_pending_notifications,            *)
(* cdc_reader_up).                                                          *)
EverythingDelivered ==
    <>[](session /\ alive) =>
        <>[](up /\ \A s \in Streams : high[s]..(now - safety - 1) \subseteq lost[s])

(* After the index was dropped, its reader and its actor come to an end,    *)
(* and the metrics of the reader go for good: no task that is still there   *)
(* updates one after remove_metrics and brings it back (SessionGuard, the   *)
(* clean-up at the end of the actor).                                       *)
DropEndsReader ==
    ~alive ~> [](pc = "finished" /\ handler = "none" /\ series = {})
=============================================================================
