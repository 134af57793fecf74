----------------------------- MODULE Lifecycle -----------------------------
(***************************************************************************)
(* How indexes come and go on a node: the db actor connects to the         *)
(* database (db.rs), monitor_indexes compares the schema with the indexes  *)
(* it knows (monitor_indexes.rs), the engine creates and drops them        *)
(* (engine.rs), the task of every index scans its table (db_index.rs), and *)
(* node_state collects their events.  The actors talk through channels;    *)
(* every channel is a sequence.                                            *)
(***************************************************************************)
EXTENDS NodeState, Indexes, SequencesExt

CONSTANTS
    InitialSchema,   \* the indexes in the database at the start
    InitialFlags,    \* [simulator, fulltext]: the configuration at the start
    MaxDisturbances  \* bound on changes of the schema and of the flags, losses
                     \* of the session and failures of queries and creations

\* The schema at the start holds descriptions that exist.
ASSUME LifecycleAssumption == InitialSchema \subseteq Metas

MaxTasks == MaxDisturbances + 1

VARIABLES
    schema,     \* the indexes in the database
    schemaVersion,
    session,    \* the db actor has a session
    nodeCh,     \* messages to node_state
    known,      \* SchemaVersion of monitor_indexes; 0 is Uuid::nil
    monitor,    \* the step of monitor_indexes
    flags,      \* its alter_index_simulator and fulltext_indexes
    found,      \* what get_indexes returned
    indexes,    \* the indexes monitor_indexes has added
    adding,     \* descriptions it still has to add in this round
    awaited,    \* history: the indexes of the first list it announced that
                \* were on every list since; a set in a sequence
    failures,   \* has_failures of this round
    engineCh,   \* messages to the engine
    added,      \* answer to AddIndex: <<>>, <<TRUE>> or <<FALSE>>
    engine,     \* the step of the engine
    current,    \* the description the engine works on
    asking,     \* keys update_indexes still has to ask about
    answer,     \* answer to GetIndexStatus
    tasks,      \* the tasks of indexes, in order of creation:
                \* [meta, state, held]
    early,      \* history: the tasks that had begun to scan when the scan of
                \* another index of the same name finished
    disturbances    \* counts them

dbVars == <<schema, schemaVersion>>
monitorVars == <<known, monitor, found, indexes, adding, failures, awaited>>
engineVars == <<engine, current, asking, answer>>
vars == <<nodeVars, indexesVars, dbVars, session, nodeCh, monitorVars, flags,
          engineCh, added, engineVars, tasks, early, disturbances>>

Tell(msg) == nodeCh' = Append(nodeCh, msg)
Event(t, x) == [type |-> t, of |-> x]

\* Something that happens to the node: a query or a creation fails, too.
Disturbance == disturbances < MaxDisturbances /\ disturbances' = disturbances + 1

-----------------------------------------------------------------------------
(* The database: indexes are created, dropped and created again             *)

ChangeSchema(S) ==
    /\ Disturbance
    /\ schema' = S
    /\ schemaVersion' = schemaVersion + 1
    /\ UNCHANGED <<nodeVars, indexesVars, session, nodeCh, monitorVars, flags,
                   engineCh, added, engineVars, tasks, early>>

\* A version that was replaced or dropped does not come back.
CreateIndex(m) ==
    /\ \A n \in schema : n.key # m.key
    /\ m.version = schemaVersion + 1
    /\ ChangeSchema(schema \cup {m})
DropIndex(m) == ChangeSchema(schema \ {m})

-----------------------------------------------------------------------------
(* The db actor                                                             *)

Connect ==
    /\ ~session
    /\ \/ /\ session' = TRUE
          /\ UNCHANGED disturbances
       \/ Disturbance /\ UNCHANGED session
    /\ Tell(Event("ConnectingToDb", {}))
    /\ UNCHANGED <<nodeVars, indexesVars, dbVars, monitorVars, flags, engineCh,
                   added, engineVars, tasks, early>>

\* A new configuration, or the end of a CDC actor, cancels the session.
CancelSession ==
    /\ session
    /\ Disturbance
    /\ session' = FALSE
    /\ UNCHANGED <<nodeVars, indexesVars, dbVars, nodeCh, monitorVars, flags,
                   engineCh, added, engineVars, tasks, early>>

-----------------------------------------------------------------------------
(* monitor_indexes                                                          *)

IsDisabled(m) == m.kind = "fts" /\ ~flags.fulltext

DiscardVersion(m) == [m EXCEPT !.version = 0]

ShouldDeleteSimulator(m, S) ==
    \E n \in S : n.key = m.key /\ DiscardVersion(n) # DiscardVersion(m)
ShouldAddSimulator(m, S) ==
    \A n \in S : DiscardVersion(n) # DiscardVersion(m)

ShouldDelete(m, S) ==
    IF flags.simulator THEN ShouldDeleteSimulator(m, S) ELSE m \notin S
ShouldAdd(m, S) ==
    IF flags.simulator THEN ShouldAddSimulator(m, S) ELSE m \notin S

DiscoveredIndexes ==
    IF flags.simulator
    THEN {m \in indexes : ~ShouldDelete(m, found)} \cup
         {m \in found : ShouldAdd(m, indexes)}
    ELSE found

MonitorTick ==
    /\ monitor = "idle"
    /\ session
    /\ schemaVersion # known
    /\ known' = schemaVersion
    /\ Tell(Event("DiscoveringIndexes", {}))
    /\ monitor' = "reading"
    /\ UNCHANGED <<nodeVars, indexesVars, dbVars, session, found, indexes, adding,
                   failures, awaited, flags, engineCh, added, engineVars, tasks, early, disturbances>>

GetIndexes ==
    /\ monitor = "reading"
    /\ session
    /\ found' = {m \in schema : ~IsDisabled(m)}
    /\ monitor' = "validating"
    /\ UNCHANGED <<nodeVars, indexesVars, dbVars, session, nodeCh, known, indexes,
                   adding, failures, awaited, flags, engineCh, added, engineVars, tasks, early, disturbances>>

\* The list is not to be had, or not of the version it was asked for: the
\* version is forgotten and the next tick tries again.
FailToGetIndexes ==
    /\ monitor \in {"reading", "validating"}
    /\ \/ (~session \/ schemaVersion # known) /\ UNCHANGED disturbances
       \/ Disturbance
    /\ known' = 0
    /\ monitor' = "idle"
    /\ UNCHANGED <<nodeVars, indexesVars, dbVars, session, nodeCh, found, indexes,
                   adding, failures, awaited, flags, engineCh, added, engineVars, tasks, early>>

IsValidSchema == session /\ schemaVersion = known

\* A list of this version is announced and del_indexes sends what is gone.
AnnounceIndexes ==
    LET gone == {m \in indexes : ShouldDelete(m, found)}
        left == indexes \ gone
    IN  /\ monitor = "validating"
        /\ IsValidSchema
        /\ Tell(Event("IndexesDiscovered", DiscoveredIndexes))
        /\ awaited' = IF awaited = <<>> THEN <<DiscoveredIndexes>>
                      ELSE <<awaited[1] \cap DiscoveredIndexes>>
        /\ engineCh' = engineCh \o
              SetToSeq({[type |-> "DelIndex", meta |-> m] : m \in gone})
        /\ indexes' = left
        /\ adding' = {m \in found : ShouldAdd(m, left)}
        /\ failures' = FALSE
        /\ monitor' = "adding"
        /\ UNCHANGED <<nodeVars, indexesVars, dbVars, session, known, found, flags,
                       added, engineVars, tasks, early, disturbances>>

AddIndex(m) ==
    /\ monitor = "adding"
    /\ m \in adding
    /\ engineCh' = Append(engineCh, [type |-> "AddIndex", meta |-> m])
    /\ monitor' = "waiting"
    /\ adding' = adding \ {m}
    /\ found' = {m}
    /\ UNCHANGED <<nodeVars, indexesVars, dbVars, session, nodeCh, known, indexes,
                   failures, awaited, flags, added, engineVars, tasks, early, disturbances>>

IndexAdded ==
    /\ monitor = "waiting"
    /\ added # <<>>
    /\ added' = <<>>
    /\ indexes' = IF added[1] THEN indexes \cup found ELSE indexes
    /\ failures' = (failures \/ ~added[1])
    /\ monitor' = "adding"
    /\ UNCHANGED <<nodeVars, indexesVars, dbVars, session, nodeCh, known, found,
                   adding, awaited, flags, engineCh, engineVars, tasks, early, disturbances>>

\* Bug: an index that could not be added is not tried again.
KnownAfterRoundKept == known

KnownAfterRound == IF failures THEN 0 ELSE known

FinishRound ==
    /\ monitor = "adding"
    /\ adding = {}
    /\ known' = KnownAfterRound
    /\ found' = {}
    /\ monitor' = "idle"
    /\ UNCHANGED <<nodeVars, indexesVars, dbVars, session, nodeCh, indexes, adding,
                   failures, awaited, flags, engineCh, added, engineVars, tasks, early, disturbances>>

\* The flags follow the configuration between two rounds.
ReloadFlags ==
    /\ monitor = "idle"
    /\ Disturbance
    /\ flags' \in [simulator : BOOLEAN, fulltext : BOOLEAN]
    /\ UNCHANGED <<nodeVars, indexesVars, dbVars, session, nodeCh, monitorVars,
                   engineCh, added, engineVars, tasks, early>>

-----------------------------------------------------------------------------
(* The engine                                                               *)

\* Dropping the last channel to the task of an index ends its scan.  The
\* actor of a dropped index keeps one until its own queue is empty; the
\* queue of an index that could not be created is empty.
Release(i, holder) == [tasks EXCEPT ![i].held = holder]

TakeDelIndex ==
    /\ engine = "idle"
    /\ engineCh # <<>> /\ Head(engineCh).type = "DelIndex"
    /\ LET k == Head(engineCh).meta.key IN
       /\ RemoveKey(k)
       /\ tasks' = IF ContainsKey(k)
                   THEN Release(entries[k].instance, "queue") ELSE tasks
    /\ engineCh' = Tail(engineCh)
    /\ UNCHANGED <<nodeVars, dbVars, session, nodeCh, monitorVars, flags, added,
                   engineVars, early, disturbances>>

TakeAddIndex ==
    /\ engine = "idle"
    /\ engineCh # <<>> /\ Head(engineCh).type = "AddIndex"
    /\ engineCh' = Tail(engineCh)
    /\ \/ /\ ContainsKey(Head(engineCh).meta.key)
          /\ added' = <<TRUE>>
          /\ UNCHANGED <<engine, current>>
       \/ /\ ~ContainsKey(Head(engineCh).meta.key)
          /\ engine' = "opening"
          /\ current' = <<Head(engineCh).meta>>
          /\ UNCHANGED added
    /\ UNCHANGED <<nodeVars, indexesVars, dbVars, session, nodeCh, monitorVars,
                   flags, asking, answer, tasks, early, disturbances>>

\* db_index::new prepares its statements and starts the task of the index.
GetDbIndex ==
    /\ engine = "opening"
    /\ session
    /\ tasks' = Append(tasks, [meta |-> current[1], state |-> "starting", held |-> "entry"])
    /\ engine' = "table"
    /\ UNCHANGED <<nodeVars, indexesVars, dbVars, session, nodeCh, monitorVars,
                   flags, engineCh, added, current, asking, answer, early,
                   disturbances>>

FailToGetDbIndex ==
    /\ engine = "opening"
    /\ \/ ~session /\ UNCHANGED disturbances
       \/ Disturbance
    /\ added' = <<FALSE>>
    /\ engine' = "idle"
    /\ current' = <<>>
    /\ UNCHANGED <<nodeVars, indexesVars, dbVars, session, nodeCh, monitorVars,
                   flags, engineCh, asking, answer, tasks, early>>

\* Bug: the entry is inserted without having heard from the task.
TaskAnswersEarly(i) == TRUE

\* get_table_columns is answered by the task once it has announced its scan.
TaskAnswers(i) == tasks[i].state # "starting"

\* Table, index, monitor_items and the entry are made; each may fail.
InsertIndex ==
    /\ engine = "table"
    /\ TaskAnswers(Len(tasks))
    /\ \/ /\ Insert([meta |-> current[1], instance |-> Len(tasks),
                     status |-> "Initializing"])
          /\ added' = <<TRUE>>
          /\ UNCHANGED <<tasks, early, disturbances>>
       \/ /\ Disturbance
          /\ added' = <<FALSE>>
          /\ tasks' = Release(Len(tasks), "none")
          /\ UNCHANGED indexesVars
    /\ engine' = "idle"
    /\ current' = <<>>
    /\ UNCHANGED <<nodeVars, dbVars, session, nodeCh, monitorVars, flags, engineCh,
                   asking, answer, early>>

\* Does a round of update_indexes change anything?  (A round that does not
\* is left out.)
OutOfDate == {k \in DOMAIN entries :
                 k \in DOMAIN idxs /\ idxs[k] # entries[k].status}

\* Asks node_state about one of the keys, or ends the round.
AskNext(keys) ==
    \/ /\ keys = {}
       /\ engine' = "idle" /\ current' = <<>> /\ asking' = {}
       /\ UNCHANGED nodeCh
    \/ \E k \in keys :
          /\ Tell(Event("GetIndexStatus", k))
          /\ engine' = "asked" /\ current' = <<k>> /\ asking' = keys \ {k}

UpdateTick ==
    /\ engine = "idle"
    /\ OutOfDate # {}
    /\ AskNext(DOMAIN entries)
    /\ UNCHANGED <<nodeVars, indexesVars, dbVars, session, monitorVars, flags,
                   engineCh, added, answer, tasks, early, disturbances>>

StatusAnswered ==
    /\ engine = "asked"
    /\ answer # <<>>
    /\ IF answer[1] \in IndexStatus THEN SetStatus(current[1], answer[1])
                                    ELSE UNCHANGED indexesVars
    /\ answer' = <<>>
    /\ AskNext(asking)
    /\ UNCHANGED <<nodeVars, dbVars, session, monitorVars, flags, engineCh, added,
                   tasks, early, disturbances>>

-----------------------------------------------------------------------------
(* The task of an index                                                     *)

TaskStep(i, from, to) ==
    /\ tasks[i].state = from
    /\ tasks' = [tasks EXCEPT ![i].state = to]
    /\ UNCHANGED <<nodeVars, indexesVars, dbVars, session, monitorVars, flags,
                   engineCh, added, engineVars, disturbances>>

StartScan(i) ==
    /\ TaskStep(i, "starting", "scanning")
    /\ Tell(Event("FullScanStarted", tasks[i].meta))
    /\ UNCHANGED early

\* The scan waits for a session; the scan of a pattern index never ends.
FinishScan(i) ==
    /\ session
    /\ tasks[i].held # "none"
    /\ tasks[i].meta.kind # "pattern"
    /\ TaskStep(i, "scanning", "finished")
    /\ Tell(Event("FullScanFinished", tasks[i].meta))
    /\ early' = early \cup {j \in DOMAIN tasks \ {i} :
          tasks[j].meta.key = tasks[i].meta.key /\ tasks[j].state # "starting"}

CancelScan(i) ==
    /\ tasks[i].held # "entry"
    /\ TaskStep(i, "scanning", "cancelled")
    /\ UNCHANGED <<nodeCh, early>>

-----------------------------------------------------------------------------
(* node_state                                                               *)

NodeStep ==
    /\ nodeCh # <<>>
    /\ LET e == Head(nodeCh) IN
       /\ \/ e.type = "ConnectingToDb" /\ OnConnectingToDb
          \/ e.type = "DiscoveringIndexes" /\ OnDiscoveringIndexes
          \/ e.type = "IndexesDiscovered" /\ OnIndexesDiscovered(e.of)
          \/ e.type = "FullScanStarted" /\ OnFullScanStarted(e.of)
          \/ e.type = "FullScanFinished" /\ OnFullScanFinished(e.of)
          \/ e.type = "GetIndexStatus" /\ UNCHANGED nodeVars
       /\ answer' = IF e.type # "GetIndexStatus" THEN answer
                    ELSE IF e.of \in DOMAIN idxs THEN <<idxs[e.of]>> ELSE <<"None">>
    /\ nodeCh' = Tail(nodeCh)
    /\ UNCHANGED <<indexesVars, dbVars, session, monitorVars, flags, engineCh, added,
                   engine, current, asking, tasks, early, disturbances>>

-----------------------------------------------------------------------------
LifecycleInit ==
    /\ NodeInit
    /\ IndexesInit
    /\ schema = InitialSchema /\ schemaVersion = 1
    /\ session = FALSE
    /\ nodeCh = <<>> /\ engineCh = <<>>
    /\ known = 0 /\ monitor = "idle" /\ found = {} /\ indexes = {} /\ adding = {}
    /\ failures = FALSE /\ awaited = <<>>
    /\ flags \in InitialFlags
    /\ added = <<>>
    /\ engine = "idle" /\ current = <<>> /\ asking = {} /\ answer = <<>>
    /\ tasks = <<>> /\ early = {}
    /\ disturbances = 0

Monitor ==
    \/ MonitorTick
    \/ GetIndexes
    \/ FailToGetIndexes
    \/ AnnounceIndexes
    \/ \E m \in Metas : AddIndex(m)
    \/ IndexAdded
    \/ FinishRound

Engine ==
    \/ TakeDelIndex
    \/ TakeAddIndex
    \/ GetDbIndex
    \/ FailToGetDbIndex
    \/ InsertIndex
    \/ UpdateTick
    \/ StatusAnswered

Tasks ==
    \E i \in DOMAIN tasks : StartScan(i) \/ FinishScan(i) \/ CancelScan(i)

LifecycleNext ==
    \/ \E m \in Metas : CreateIndex(m)
    \/ \E m \in schema : DropIndex(m)
    \/ Connect
    \/ CancelSession
    \/ ReloadFlags
    \/ Monitor
    \/ Engine
    \/ Tasks
    \/ NodeStep

LifecycleSpec == LifecycleInit /\ [][LifecycleNext]_vars

\* Every actor keeps running: the timers of the db actor, of monitor_indexes
\* and of the engine tick, scans come to an end while there is a session.
LifecycleFairness ==
    /\ WF_vars(Connect)
    /\ WF_vars(Monitor)
    /\ WF_vars(Engine)
    /\ WF_vars(NodeStep)
    /\ \A i \in 1..MaxTasks : WF_vars(i \in DOMAIN tasks /\ (StartScan(i) \/ FinishScan(i)))

-----------------------------------------------------------------------------
(* An index answers queries only after its own scan has finished, whatever  *)
(* happened to indexes of the same name before it (best_index takes only    *)
(* indexes whose status is Serving).                                        *)
ServedIndexScanned ==
    \A k \in DOMAIN entries : entries[k].status = "Serving" =>
        tasks[entries[k].instance].state = "finished"

(* What node_state, which knows a scan by the name of its index, does keep: *)
(* an index answers queries only after its own scan has finished or, while  *)
(* that scan went on, one that a dropped index of the same name had left    *)
(* behind.  Nothing that finished before its scan began makes it serve,     *)
(* however late the event is handled or the answer is read.                 *)
ServedAfterScan ==
    \A k \in DOMAIN entries : entries[k].status = "Serving" =>
        \/ tasks[entries[k].instance].state = "finished"
        \/ entries[k].instance \in early

(* The node reports that it serves only when every index it found at the    *)
(* start has been scanned to the end, or has left the schema since          *)
(* (initial_idxs of node_state.rs).                                         *)
ServingMeansBuilt ==
    status = "Serving" =>
        /\ awaited # <<>>
        /\ \A m \in awaited[1] :
              \E i \in DOMAIN tasks : tasks[i].meta = m /\ tasks[i].state = "finished"

(* Once the schema and the session stop changing, the node serves exactly   *)
(* the indexes of the database, in their present version: no failure, stale *)
(* list or lost message leaves one out, and none that was dropped stays     *)
(* (monitor_indexes.rs, engine.rs).  A change of the configuration is       *)
(* followed only at the next change of the schema.                          *)
IndexesFollowSchema ==
    (<>[]session /\ [](flags \in InitialFlags /\ ~flags.simulator)) =>
        <>[](/\ {entries[k].meta : k \in DOMAIN entries} =
                {m \in schema : ~IsDisabled(m)}
             /\ \A k \in DOMAIN entries : entries[k].status = "Serving")

=============================================================================
