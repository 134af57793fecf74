-------------------------- MODULE FollowingProofs --------------------------
(***************************************************************************)
(* Proofs about how a node follows the schema, for every set of indexes,   *)
(* every sequence of schemas and every number of disturbances: an index    *)
(* serves, and the node reports that it serves, only after the scans that  *)
(* this stands for, and the lists of indexes are whole.                    *)
(***************************************************************************)
EXTENDS MCFollowing, FiniteSetTheorems, InductionLemmas, TLAPS

-----------------------------------------------------------------------------
(* Types                                                                    *)

Events ==
    [type : {"ConnectingToDb", "DiscoveringIndexes"}, of : {{}}] \cup
    [type : {"IndexesDiscovered"}, of : SUBSET Metas] \cup
    [type : {"FullScanStarted", "FullScanFinished"}, of : Metas] \cup
    [type : {"GetIndexStatus"}, of : Keys]
Orders == [type : {"DelIndex", "AddIndex"}, meta : Metas]
TaskTypes ==
    [meta : Metas, state : {"starting", "scanning", "finished", "cancelled"},
     held : {"entry", "queue", "none"}]
EntryTypes == [meta : Metas, instance : Nat, status : IndexStatus]
Answers == IndexStatus \cup {"None"}

NodeTypes ==
    /\ status \in NodeStatus
    /\ initial = <<>> \/ \E S \in SUBSET Metas : initial = <<S>>
    /\ idxs \in [DOMAIN idxs -> IndexStatus]
    /\ answer = <<>> \/ \E a \in Answers : answer = <<a>>
    /\ nodeCh \in Seq(Events)

\* del_indexes makes a sequence of what is gone, so there must be finitely
\* many indexes at any time.
MonitorTypes ==
    /\ schema \subseteq Metas /\ found \subseteq Metas /\ adding \subseteq Metas
    /\ indexes \subseteq Metas /\ IsFiniteSet(indexes)
    /\ monitor = "waiting" => IsFiniteSet(found)
    /\ awaited = <<>> \/ \E S \in SUBSET Metas : awaited = <<S>>
    /\ engineCh \in Seq(Orders)

EngineTypes ==
    /\ engine \in {"idle", "opening", "table", "asked"}
    /\ engine \in {"opening", "table"} => \E m \in Metas : current = <<m>>
    /\ engine = "asked" => \E k \in Keys : current = <<k>>
    /\ asking \subseteq Keys
    /\ entries \in [DOMAIN entries -> EntryTypes] /\ DOMAIN entries \subseteq Keys
    /\ tasks \in Seq(TaskTypes)

LifecycleTypes == NodeTypes /\ MonitorTypes /\ EngineTypes

\* A finite set is listed by a sequence of its elements (SetToSeq).
LEMMA SetToSeqType ==
    ASSUME NEW S, IsFiniteSet(S)
    PROVE  SetToSeq(S) \in Seq(S)
<1>1. Cardinality(S) \in Nat /\ ExistsBijection(1..Cardinality(S), S)
  BY FS_CardinalityType
<1>2. PICK f \in [1..Cardinality(S) -> S] : IsInjective(f)
  BY <1>1 DEF ExistsBijection, Bijection, Injection, Surjection, IsInjective
<1>3. SetToSeq(S) \in [1..Cardinality(S) -> S]
  BY <1>2 DEF SetToSeq
<1> QED
  BY <1>1, <1>3

\* What del_indexes sends.
LEMMA OrdersType ==
    ASSUME NEW S, IsFiniteSet(S), S \subseteq Metas
    PROVE  SetToSeq({[type |-> "DelIndex", meta |-> m] : m \in S}) \in Seq(Orders)
<1> DEFINE T == {[type |-> "DelIndex", meta |-> m] : m \in S}
           f == [m \in S |-> [type |-> "DelIndex", meta |-> m]]
<1>1. f \in Surjection(S, T)
  BY DEF Surjection
<1>2. IsFiniteSet(T)
  BY <1>1, FS_Surjection
<1>3. T \subseteq Orders
  BY DEF Orders
<1> HIDE DEF T
<1>4. SetToSeq(T) \in Seq(T)
  BY <1>2, SetToSeqType
<1> QED
  BY <1>3, <1>4 DEF T

\* The indexes monitor_indexes announces.
LEMMA DiscoveredType ==
    ASSUME LifecycleTypes
    PROVE  DiscoveredIndexes \subseteq Metas
BY DEF LifecycleTypes, MonitorTypes, DiscoveredIndexes

\* The initial state has its types.
LEMMA TypesInit == LifecycleInit => LifecycleTypes
<1> SUFFICES ASSUME LifecycleInit PROVE LifecycleTypes
  OBVIOUS
<1> USE LifecycleAssumption DEF LifecycleInit
<1>1. NodeTypes
  BY DEF NodeTypes, NodeInit, NodeStatus
<1>2. MonitorTypes
  BY FS_EmptySet DEF MonitorTypes
<1>3. EngineTypes
  BY DEF EngineTypes, IndexesInit
<1> QED
  BY <1>1, <1>2, <1>3 DEF LifecycleTypes

\* A message to node_state.
LEMMA TellType ==
    ASSUME LifecycleTypes, NEW e \in Events, Tell(e)
    PROVE  nodeCh' \in Seq(Events)
BY DEF LifecycleTypes, NodeTypes, Tell

\* Functions with one key more, and one key less.
LEMMA WithType ==
    ASSUME NEW f, NEW T, f \in [DOMAIN f -> T], NEW x, NEW v \in T
    PROVE  /\ With(f, x, v) \in [DOMAIN With(f, x, v) -> T]
           /\ DOMAIN With(f, x, v) = DOMAIN f \cup {x}
           /\ With(f, x, v)[x] = v
           /\ \A y \in DOMAIN f \ {x} : With(f, x, v)[y] = f[y]
           /\ Without(f, x) \in [DOMAIN Without(f, x) -> T]
           /\ DOMAIN Without(f, x) = DOMAIN f \ {x}
           /\ \A y \in DOMAIN f \ {x} : Without(f, x)[y] = f[y]
BY DEF With, Without

\* The engine asks about a key, or ends the round.
LEMMA AskType ==
    ASSUME LifecycleTypes, NEW keys \in SUBSET Keys, AskNext(keys)
    PROVE  /\ nodeCh' \in Seq(Events)
           /\ engine' \in {"idle", "asked"} /\ asking' \subseteq Keys
           /\ engine' = "asked" => \E k \in Keys : current' = <<k>>
<1>1. CASE keys = {} /\ engine' = "idle" /\ asking' = {} /\ UNCHANGED nodeCh
  BY <1>1 DEF LifecycleTypes, NodeTypes
<1>2. ASSUME NEW k \in keys, Tell(Event("GetIndexStatus", k)), engine' = "asked",
             current' = <<k>>, asking' = keys \ {k}
      PROVE  /\ nodeCh' \in Seq(Events)
             /\ engine' \in {"idle", "asked"} /\ asking' \subseteq Keys
             /\ engine' = "asked" => \E j \in Keys : current' = <<j>>
  <2>1. nodeCh' \in Seq(Events)
    BY <1>2, TellType DEF Event, Events
  <2> QED
    BY <1>2, <2>1
<1> QED
  BY <1>1, <1>2 DEF AskNext

\* A task of the vector of tasks is a task.
LEMMA TaskType ==
    ASSUME LifecycleTypes, NEW i \in DOMAIN tasks
    PROVE  tasks[i] \in TaskTypes /\ tasks[i].meta \in Metas
<1>1. tasks[i] \in TaskTypes
  BY DEF LifecycleTypes, EngineTypes
<1> QED
  BY <1>1 DEF TaskTypes

\* A task that moves on, or is released.
LEMMA TasksType ==
    ASSUME LifecycleTypes, NEW i
    PROVE  /\ \A to \in {"starting", "scanning", "finished", "cancelled"} :
                 [tasks EXCEPT ![i].state = to] \in Seq(TaskTypes)
           /\ \A holder \in {"entry", "queue", "none"} : Release(i, holder) \in Seq(TaskTypes)
<1>0. tasks \in Seq(TaskTypes) /\ DOMAIN tasks = 1..Len(tasks)
  BY DEF LifecycleTypes, EngineTypes
<1>1. ASSUME NEW to \in {"starting", "scanning", "finished", "cancelled"}
      PROVE  [tasks EXCEPT ![i].state = to] \in Seq(TaskTypes)
  <2>1. \A t \in TaskTypes : [t EXCEPT !.state = to] \in TaskTypes
    BY DEF TaskTypes
  <2>2. \A j \in 1..Len(tasks) : [tasks EXCEPT ![i].state = to][j] \in TaskTypes
    BY <1>0, <2>1
  <2>3. [tasks EXCEPT ![i].state = to] \in [1..Len(tasks) -> TaskTypes]
    BY <1>0, <2>2
  <2> QED
    BY <1>0, <2>3
<1>2. ASSUME NEW holder \in {"entry", "queue", "none"}
      PROVE  Release(i, holder) \in Seq(TaskTypes)
  <2>1. \A t \in TaskTypes : [t EXCEPT !.held = holder] \in TaskTypes
    BY DEF TaskTypes
  <2>2. \A j \in 1..Len(tasks) : Release(i, holder)[j] \in TaskTypes
    BY <1>0, <2>1 DEF Release
  <2>3. Release(i, holder) \in [1..Len(tasks) -> TaskTypes]
    BY <1>0, <2>2 DEF Release
  <2> QED
    BY <1>0, <2>3
<1> QED
  BY <1>1, <1>2

\* One step per action, and under it one per group of variables.
LEMMA TypesNext ==
    ASSUME LifecycleTypes, [LifecycleNext]_vars
    PROVE  LifecycleTypes'
<1> USE DEF nodeVars, indexesVars, dbVars, monitorVars, engineVars
<1>1. ASSUME NEW m \in Metas, CreateIndex(m) PROVE LifecycleTypes'
  <2>1. NodeTypes'
    BY <1>1 DEF CreateIndex, ChangeSchema, LifecycleTypes, NodeTypes
  <2>2. MonitorTypes'
    BY <1>1 DEF CreateIndex, ChangeSchema, LifecycleTypes, MonitorTypes
  <2>3. EngineTypes'
    BY <1>1 DEF CreateIndex, ChangeSchema, LifecycleTypes, EngineTypes
  <2> QED
    BY <2>1, <2>2, <2>3 DEF LifecycleTypes
<1>2. ASSUME NEW m \in schema, DropIndex(m) PROVE LifecycleTypes'
  <2>1. NodeTypes'
    BY <1>2 DEF DropIndex, ChangeSchema, LifecycleTypes, NodeTypes
  <2>2. MonitorTypes'
    BY <1>2 DEF DropIndex, ChangeSchema, LifecycleTypes, MonitorTypes
  <2>3. EngineTypes'
    BY <1>2 DEF DropIndex, ChangeSchema, LifecycleTypes, EngineTypes
  <2> QED
    BY <2>1, <2>2, <2>3 DEF LifecycleTypes
<1>3. ASSUME Connect PROVE LifecycleTypes'
  <2>1. NodeTypes'
    <3>1. nodeCh' \in Seq(Events)
      BY <1>3, TellType DEF Connect, Event, Events
    <3> QED
      BY <1>3, <3>1 DEF Connect, LifecycleTypes, NodeTypes
  <2>2. MonitorTypes'
    BY <1>3 DEF Connect, LifecycleTypes, MonitorTypes
  <2>3. EngineTypes'
    BY <1>3 DEF Connect, LifecycleTypes, EngineTypes
  <2> QED
    BY <2>1, <2>2, <2>3 DEF LifecycleTypes
<1>4. ASSUME CancelSession PROVE LifecycleTypes'
  <2>1. NodeTypes'
    BY <1>4 DEF CancelSession, LifecycleTypes, NodeTypes
  <2>2. MonitorTypes'
    BY <1>4 DEF CancelSession, LifecycleTypes, MonitorTypes
  <2>3. EngineTypes'
    BY <1>4 DEF CancelSession, LifecycleTypes, EngineTypes
  <2> QED
    BY <2>1, <2>2, <2>3 DEF LifecycleTypes
<1>5. ASSUME ReloadFlags PROVE LifecycleTypes'
  <2>1. NodeTypes'
    BY <1>5 DEF ReloadFlags, LifecycleTypes, NodeTypes
  <2>2. MonitorTypes'
    BY <1>5 DEF ReloadFlags, LifecycleTypes, MonitorTypes
  <2>3. EngineTypes'
    BY <1>5 DEF ReloadFlags, LifecycleTypes, EngineTypes
  <2> QED
    BY <2>1, <2>2, <2>3 DEF LifecycleTypes
<1>6. ASSUME MonitorTick PROVE LifecycleTypes'
  <2>1. NodeTypes'
    <3>1. nodeCh' \in Seq(Events)
      BY <1>6, TellType DEF MonitorTick, Event, Events
    <3> QED
      BY <1>6, <3>1 DEF MonitorTick, LifecycleTypes, NodeTypes
  <2>2. MonitorTypes'
    BY <1>6 DEF MonitorTick, LifecycleTypes, MonitorTypes
  <2>3. EngineTypes'
    BY <1>6 DEF MonitorTick, LifecycleTypes, EngineTypes
  <2> QED
    BY <2>1, <2>2, <2>3 DEF LifecycleTypes
<1>7. ASSUME GetIndexes PROVE LifecycleTypes'
  <2>1. NodeTypes'
    BY <1>7 DEF GetIndexes, LifecycleTypes, NodeTypes
  <2>2. MonitorTypes'
    BY <1>7 DEF GetIndexes, LifecycleTypes, MonitorTypes
  <2>3. EngineTypes'
    BY <1>7 DEF GetIndexes, LifecycleTypes, EngineTypes
  <2> QED
    BY <2>1, <2>2, <2>3 DEF LifecycleTypes
<1>8. ASSUME FailToGetIndexes PROVE LifecycleTypes'
  <2>1. NodeTypes'
    BY <1>8 DEF FailToGetIndexes, LifecycleTypes, NodeTypes
  <2>2. MonitorTypes'
    BY <1>8 DEF FailToGetIndexes, LifecycleTypes, MonitorTypes
  <2>3. EngineTypes'
    BY <1>8 DEF FailToGetIndexes, LifecycleTypes, EngineTypes
  <2> QED
    BY <2>1, <2>2, <2>3 DEF LifecycleTypes
<1>9. ASSUME AnnounceIndexes PROVE LifecycleTypes'
  <2>1. NodeTypes'
    <3>1. nodeCh' \in Seq(Events)
      BY <1>9, DiscoveredType, TellType DEF AnnounceIndexes, Event, Events
    <3> QED
      BY <1>9, <3>1 DEF AnnounceIndexes, LifecycleTypes, NodeTypes
  <2>2. MonitorTypes'
    <3> DEFINE gone == {m \in indexes : ShouldDelete(m, found)}
    <3>1. gone \subseteq Metas /\ IsFiniteSet(gone) /\ IsFiniteSet(indexes \ gone)
      BY FS_Subset DEF LifecycleTypes, MonitorTypes
    <3>2. engineCh' \in Seq(Orders)
      BY <1>9, <3>1, OrdersType DEF AnnounceIndexes, LifecycleTypes, MonitorTypes
    <3>3. awaited' = <<>> \/ \E S \in SUBSET Metas : awaited' = <<S>>
      BY <1>9, DiscoveredType DEF AnnounceIndexes, LifecycleTypes, MonitorTypes
    <3> QED
      BY <1>9, <3>1, <3>2, <3>3 DEF AnnounceIndexes, LifecycleTypes, MonitorTypes
  <2>3. EngineTypes'
    BY <1>9 DEF AnnounceIndexes, LifecycleTypes, EngineTypes
  <2> QED
    BY <2>1, <2>2, <2>3 DEF LifecycleTypes
<1>10. ASSUME NEW m \in Metas, AddIndex(m) PROVE LifecycleTypes'
  <2>1. NodeTypes'
    BY <1>10 DEF AddIndex, LifecycleTypes, NodeTypes
  <2>2. MonitorTypes'
    <3>1. [type |-> "AddIndex", meta |-> m] \in Orders
      BY DEF Orders
    <3>2. IsFiniteSet({m})
      BY FS_Singleton
    <3> QED
      BY <1>10, <3>1, <3>2 DEF AddIndex, LifecycleTypes, MonitorTypes
  <2>3. EngineTypes'
    BY <1>10 DEF AddIndex, LifecycleTypes, EngineTypes
  <2> QED
    BY <2>1, <2>2, <2>3 DEF LifecycleTypes
<1>11. ASSUME IndexAdded PROVE LifecycleTypes'
  <2>1. NodeTypes'
    BY <1>11 DEF IndexAdded, LifecycleTypes, NodeTypes
  <2>2. MonitorTypes'
    <3>1. IsFiniteSet(indexes \cup found)
      BY <1>11, FS_Union DEF IndexAdded, LifecycleTypes, MonitorTypes
    <3> QED
      BY <1>11, <3>1 DEF IndexAdded, LifecycleTypes, MonitorTypes
  <2>3. EngineTypes'
    BY <1>11 DEF IndexAdded, LifecycleTypes, EngineTypes
  <2> QED
    BY <2>1, <2>2, <2>3 DEF LifecycleTypes
<1>12. ASSUME FinishRound PROVE LifecycleTypes'
  <2>1. NodeTypes'
    BY <1>12 DEF FinishRound, LifecycleTypes, NodeTypes
  <2>2. MonitorTypes'
    BY <1>12 DEF FinishRound, LifecycleTypes, MonitorTypes
  <2>3. EngineTypes'
    BY <1>12 DEF FinishRound, LifecycleTypes, EngineTypes
  <2> QED
    BY <2>1, <2>2, <2>3 DEF LifecycleTypes
<1>13. ASSUME TakeDelIndex PROVE LifecycleTypes'
  <2>1. NodeTypes'
    BY <1>13 DEF TakeDelIndex, LifecycleTypes, NodeTypes
  <2>2. MonitorTypes'
    BY <1>13 DEF TakeDelIndex, LifecycleTypes, MonitorTypes
  <2>3. EngineTypes'
    <3> DEFINE k == Head(engineCh).meta.key
    <3>1. tasks' \in Seq(TaskTypes)
      BY <1>13, TasksType DEF TakeDelIndex, LifecycleTypes, EngineTypes
    <3>2. entries' \in [DOMAIN entries' -> EntryTypes] /\ DOMAIN entries' \subseteq Keys
      <4>1. CASE ContainsKey(k)
        <5>1. entries' = Without(entries, k)
          BY <1>13, <4>1 DEF TakeDelIndex, RemoveKey
        <5> QED
          BY <5>1 DEF LifecycleTypes, EngineTypes, Without
      <4>2. CASE ~ContainsKey(k)
        BY <1>13, <4>2 DEF TakeDelIndex, RemoveKey, LifecycleTypes, EngineTypes
      <4> QED
        BY <4>1, <4>2
    <3> QED
      BY <1>13, <3>1, <3>2 DEF TakeDelIndex, LifecycleTypes, EngineTypes
  <2> QED
    BY <2>1, <2>2, <2>3 DEF LifecycleTypes
<1>14. ASSUME TakeAddIndex PROVE LifecycleTypes'
  <2>1. NodeTypes'
    BY <1>14 DEF TakeAddIndex, LifecycleTypes, NodeTypes
  <2>2. MonitorTypes'
    BY <1>14 DEF TakeAddIndex, LifecycleTypes, MonitorTypes
  <2>3. EngineTypes'
    <3>1. Head(engineCh) \in Orders
      BY <1>14 DEF TakeAddIndex, LifecycleTypes, MonitorTypes
    <3>2. Head(engineCh).meta \in Metas
      BY <3>1 DEF Orders
    <3> QED
      BY <1>14, <3>2 DEF TakeAddIndex, LifecycleTypes, EngineTypes
  <2> QED
    BY <2>1, <2>2, <2>3 DEF LifecycleTypes
<1>15. ASSUME GetDbIndex PROVE LifecycleTypes'
  <2>1. NodeTypes'
    BY <1>15 DEF GetDbIndex, LifecycleTypes, NodeTypes
  <2>2. MonitorTypes'
    BY <1>15 DEF GetDbIndex, LifecycleTypes, MonitorTypes
  <2>3. EngineTypes'
    <3>1. [meta |-> current[1], state |-> "starting", held |-> "entry"] \in TaskTypes
      BY <1>15 DEF GetDbIndex, LifecycleTypes, EngineTypes, TaskTypes
    <3> QED
      BY <1>15, <3>1 DEF GetDbIndex, LifecycleTypes, EngineTypes
  <2> QED
    BY <2>1, <2>2, <2>3 DEF LifecycleTypes
<1>16. ASSUME FailToGetDbIndex PROVE LifecycleTypes'
  <2>1. NodeTypes'
    BY <1>16 DEF FailToGetDbIndex, LifecycleTypes, NodeTypes
  <2>2. MonitorTypes'
    BY <1>16 DEF FailToGetDbIndex, LifecycleTypes, MonitorTypes
  <2>3. EngineTypes'
    BY <1>16 DEF FailToGetDbIndex, LifecycleTypes, EngineTypes
  <2> QED
    BY <2>1, <2>2, <2>3 DEF LifecycleTypes
<1>17. ASSUME InsertIndex PROVE LifecycleTypes'
  <2>1. NodeTypes'
    BY <1>17 DEF InsertIndex, LifecycleTypes, NodeTypes
  <2>2. MonitorTypes'
    BY <1>17 DEF InsertIndex, LifecycleTypes, MonitorTypes
  <2>3. EngineTypes'
    <3> DEFINE e == [meta |-> current[1], instance |-> Len(tasks), status |-> "Initializing"]
    <3>1. e \in EntryTypes /\ e.meta.key \in Keys
      BY <1>17 DEF InsertIndex, LifecycleTypes, EngineTypes, EntryTypes, IndexStatus, Keys
    <3>2. CASE Insert(e) /\ UNCHANGED tasks
      <4>1. entries' = With(entries, e.meta.key, e)
        BY <3>2 DEF Insert
      <4> HIDE DEF e
      <4>2. entries' \in [DOMAIN entries' -> EntryTypes] /\ DOMAIN entries' \subseteq Keys
        BY <4>1, <3>1 DEF LifecycleTypes, EngineTypes, With
      <4> QED
        BY <1>17, <3>2, <4>2 DEF InsertIndex, LifecycleTypes, EngineTypes
    <3>3. CASE tasks' = Release(Len(tasks), "none") /\ UNCHANGED indexesVars
      <4>1. tasks' \in Seq(TaskTypes)
        BY <3>3, TasksType
      <4> QED
        BY <1>17, <3>3, <4>1 DEF InsertIndex, LifecycleTypes, EngineTypes
    <3> QED
      BY <1>17, <3>2, <3>3 DEF InsertIndex
  <2> QED
    BY <2>1, <2>2, <2>3 DEF LifecycleTypes
<1>18. ASSUME UpdateTick PROVE LifecycleTypes'
  <2>1. NodeTypes'
    <3>1. nodeCh' \in Seq(Events)
      BY <1>18, AskType DEF UpdateTick, LifecycleTypes, EngineTypes
    <3> QED
      BY <1>18, <3>1 DEF UpdateTick, LifecycleTypes, NodeTypes
  <2>2. MonitorTypes'
    BY <1>18 DEF UpdateTick, LifecycleTypes, MonitorTypes
  <2>3. EngineTypes'
    <3>1. /\ engine' \in {"idle", "asked"} /\ asking' \subseteq Keys
          /\ engine' = "asked" => \E k \in Keys : current' = <<k>>
      BY <1>18, AskType DEF UpdateTick, LifecycleTypes, EngineTypes
    <3> QED
      BY <1>18, <3>1 DEF UpdateTick, LifecycleTypes, EngineTypes
  <2> QED
    BY <2>1, <2>2, <2>3 DEF LifecycleTypes
<1>19. ASSUME StatusAnswered PROVE LifecycleTypes'
  <2>1. NodeTypes'
    <3>1. nodeCh' \in Seq(Events)
      BY <1>19, AskType DEF StatusAnswered, LifecycleTypes, EngineTypes
    <3> QED
      BY <1>19, <3>1 DEF StatusAnswered, LifecycleTypes, NodeTypes
  <2>2. MonitorTypes'
    BY <1>19 DEF StatusAnswered, LifecycleTypes, MonitorTypes
  <2>3. EngineTypes'
    <3>1. /\ engine' \in {"idle", "asked"} /\ asking' \subseteq Keys
          /\ engine' = "asked" => \E k \in Keys : current' = <<k>>
      BY <1>19, AskType DEF StatusAnswered, LifecycleTypes, EngineTypes
    <3>2. entries' \in [DOMAIN entries' -> EntryTypes] /\ DOMAIN entries' \subseteq Keys
      BY <1>19 DEF StatusAnswered, SetStatus, LifecycleTypes, EngineTypes, EntryTypes
    <3> QED
      BY <1>19, <3>1, <3>2 DEF StatusAnswered, LifecycleTypes, EngineTypes
  <2> QED
    BY <2>1, <2>2, <2>3 DEF LifecycleTypes
<1>20. ASSUME NEW i \in DOMAIN tasks, StartScan(i) PROVE LifecycleTypes'
  <2>1. NodeTypes'
    <3>0. tasks[i].meta \in Metas
      BY TaskType
    <3>1. nodeCh' \in Seq(Events)
      BY <1>20, <3>0, TellType DEF StartScan, TaskStep, Event, Events
    <3> QED
      BY <1>20, <3>1 DEF StartScan, TaskStep, LifecycleTypes, NodeTypes
  <2>2. MonitorTypes'
    BY <1>20 DEF StartScan, TaskStep, LifecycleTypes, MonitorTypes
  <2>3. EngineTypes'
    <3>1. tasks' \in Seq(TaskTypes)
      BY <1>20, TasksType DEF StartScan, TaskStep
    <3> QED
      BY <1>20, <3>1 DEF StartScan, TaskStep, LifecycleTypes, EngineTypes
  <2> QED
    BY <2>1, <2>2, <2>3 DEF LifecycleTypes
<1>21. ASSUME NEW i \in DOMAIN tasks, FinishScan(i) PROVE LifecycleTypes'
  <2>1. NodeTypes'
    <3>0. tasks[i].meta \in Metas
      BY TaskType
    <3>1. nodeCh' \in Seq(Events)
      BY <1>21, <3>0, TellType DEF FinishScan, TaskStep, Event, Events
    <3> QED
      BY <1>21, <3>1 DEF FinishScan, TaskStep, LifecycleTypes, NodeTypes
  <2>2. MonitorTypes'
    BY <1>21 DEF FinishScan, TaskStep, LifecycleTypes, MonitorTypes
  <2>3. EngineTypes'
    <3>1. tasks' \in Seq(TaskTypes)
      BY <1>21, TasksType DEF FinishScan, TaskStep
    <3> QED
      BY <1>21, <3>1 DEF FinishScan, TaskStep, LifecycleTypes, EngineTypes
  <2> QED
    BY <2>1, <2>2, <2>3 DEF LifecycleTypes
<1>22. ASSUME NEW i \in DOMAIN tasks, CancelScan(i) PROVE LifecycleTypes'
  <2>1. NodeTypes'
    BY <1>22 DEF CancelScan, TaskStep, LifecycleTypes, NodeTypes
  <2>2. MonitorTypes'
    BY <1>22 DEF CancelScan, TaskStep, LifecycleTypes, MonitorTypes
  <2>3. EngineTypes'
    <3>1. tasks' \in Seq(TaskTypes)
      BY <1>22, TasksType DEF CancelScan, TaskStep
    <3> QED
      BY <1>22, <3>1 DEF CancelScan, TaskStep, LifecycleTypes, EngineTypes
  <2> QED
    BY <2>1, <2>2, <2>3 DEF LifecycleTypes
<1>23. ASSUME NodeStep PROVE LifecycleTypes'
  <2>1. NodeTypes'
    <3> DEFINE e == Head(nodeCh)
    <3>1. e \in Events /\ nodeCh' \in Seq(Events)
      BY <1>23 DEF NodeStep, LifecycleTypes, NodeTypes
    <3>2. answer' = <<>> \/ \E a \in Answers : answer' = <<a>>
      BY <1>23 DEF NodeStep, LifecycleTypes, NodeTypes, Answers
    <3>3. CASE e.type \in {"ConnectingToDb", "DiscoveringIndexes", "GetIndexStatus"}
      BY <1>23, <3>1, <3>2, <3>3 DEF NodeStep, LifecycleTypes, NodeTypes, NodeStatus,
         OnConnectingToDb, OnDiscoveringIndexes, ResumedStatus
    <3>4. CASE e.type = "IndexesDiscovered"
      <4>1. OnIndexesDiscovered(e.of)
        BY <1>23, <3>4 DEF NodeStep
      <4>2. initial' = <<StillInitial(e.of)>> /\ StillInitial(e.of) \subseteq Metas
        BY <3>1, <3>4, <4>1 DEF OnIndexesDiscovered, StillInitial, Events, LifecycleTypes, NodeTypes
      <4>3. idxs' \in [DOMAIN idxs' -> IndexStatus]
        BY <4>1 DEF OnIndexesDiscovered, UpdateIndexes, LifecycleTypes, NodeTypes, IndexStatus
      <4> QED
        BY <3>1, <3>2, <4>1, <4>2, <4>3 DEF OnIndexesDiscovered, NodeTypes, NodeStatus
    <3>5. CASE e.type = "FullScanStarted"
      BY <1>23, <3>1, <3>2, <3>5 DEF NodeStep, LifecycleTypes, NodeTypes, OnFullScanStarted, IndexStatus
    <3>6. CASE e.type = "FullScanFinished"
      BY <1>23, <3>1, <3>2, <3>6 DEF NodeStep, LifecycleTypes, NodeTypes, NodeStatus,
         OnFullScanFinished, IndexStatus
    <3> QED
      BY <3>1, <3>3, <3>4, <3>5, <3>6 DEF Events
  <2>2. MonitorTypes'
    BY <1>23 DEF NodeStep, LifecycleTypes, MonitorTypes
  <2>3. EngineTypes'
    BY <1>23 DEF NodeStep, LifecycleTypes, EngineTypes
  <2> QED
    BY <2>1, <2>2, <2>3 DEF LifecycleTypes
<1>24. ASSUME UNCHANGED vars PROVE LifecycleTypes'
  BY <1>24 DEF vars, LifecycleTypes, NodeTypes, MonitorTypes, EngineTypes
<1> QED
  BY <1>1, <1>2, <1>3, <1>4, <1>5, <1>6, <1>7, <1>8, <1>9, <1>10, <1>11, <1>12,
     <1>13, <1>14, <1>15, <1>16, <1>17, <1>18, <1>19, <1>20, <1>21, <1>22, <1>23, <1>24
     DEF LifecycleNext, Monitor, Engine, Tasks

-----------------------------------------------------------------------------
(* The node serves                                                          *)

Built(ts, m) == \E i \in DOMAIN ts : ts[i].meta = m /\ ts[i].state = "finished"

\* ServingMeansBuilt is not inductive: what node_state waits for trails what
\* was announced by the messages that are still in its channel.  An index that
\* is awaited is on every list in the channel, and is waited for or built; an
\* end of a scan in the channel is that of an index that is built.
BuiltInv ==
    /\ status = "Serving" => initial # <<>> /\ initial[1] = {}
    /\ initial # <<>> =>
          awaited # <<>> /\ \A m \in awaited[1] : m \in initial[1] \/ Built(tasks, m)
    /\ \A j \in DOMAIN nodeCh :
          /\ nodeCh[j].type = "IndexesDiscovered" =>
                awaited # <<>> /\ awaited[1] \subseteq nodeCh[j].of
          /\ nodeCh[j].type = "FullScanFinished" => Built(tasks, nodeCh[j].of)

\* Tasks are only added, keep their index, and a scan that has finished stays
\* finished.
TasksKept ==
    /\ DOMAIN tasks \subseteq DOMAIN tasks'
    /\ \A i \in DOMAIN tasks :
          /\ tasks'[i].meta = tasks[i].meta
          /\ tasks[i].state = "finished" => tasks'[i].state = "finished"

\* A release keeps every task at its place.
LEMMA ReleaseKeeps ==
    ASSUME LifecycleTypes, NEW i, NEW holder, tasks' = Release(i, holder)
    PROVE  /\ TasksKept /\ DOMAIN tasks' = DOMAIN tasks
           /\ \A j \in DOMAIN tasks :
                 /\ tasks'[j].state = tasks[j].state
                 /\ tasks'[j].held = IF j = i THEN holder ELSE tasks[j].held
<1>1. DOMAIN tasks' = DOMAIN tasks
  BY DEF Release, LifecycleTypes, EngineTypes
<1>2. ASSUME NEW j \in DOMAIN tasks
      PROVE  /\ tasks'[j].meta = tasks[j].meta /\ tasks'[j].state = tasks[j].state
             /\ tasks'[j].held = IF j = i THEN holder ELSE tasks[j].held
  <2>1. tasks[j] \in TaskTypes
    BY TaskType
  <2>2. CASE j = i
    <3>1. tasks'[j] = [tasks[j] EXCEPT !.held = holder]
      BY <2>2 DEF Release, LifecycleTypes, EngineTypes
    <3> QED
      BY <2>1, <2>2, <3>1 DEF TaskTypes
  <2>3. CASE j # i
    BY <2>3 DEF Release, LifecycleTypes, EngineTypes
  <2> QED
    BY <2>2, <2>3
<1> QED
  BY <1>1, <1>2 DEF TasksKept

\* So does a step of a task.
LEMMA StepKeeps ==
    ASSUME LifecycleTypes, NEW i \in DOMAIN tasks, NEW from \in {"starting", "scanning"}, NEW to,
           TaskStep(i, from, to)
    PROVE  /\ TasksKept /\ DOMAIN tasks' = DOMAIN tasks
           /\ \A j \in DOMAIN tasks :
                 /\ tasks'[j].held = tasks[j].held
                 /\ tasks'[j].state = IF j = i THEN to ELSE tasks[j].state
<1>1. DOMAIN tasks' = DOMAIN tasks
  BY DEF TaskStep, LifecycleTypes, EngineTypes
<1>2. ASSUME NEW j \in DOMAIN tasks
      PROVE  /\ tasks'[j].meta = tasks[j].meta /\ tasks'[j].held = tasks[j].held
             /\ tasks'[j].state = IF j = i THEN to ELSE tasks[j].state
  <2>1. tasks[j] \in TaskTypes
    BY TaskType
  <2>2. CASE j = i
    <3>1. tasks'[j] = [tasks[j] EXCEPT !.state = to]
      BY <2>2 DEF TaskStep, LifecycleTypes, EngineTypes
    <3> QED
      BY <2>1, <2>2, <3>1 DEF TaskTypes
  <2>3. CASE j # i
    BY <2>3 DEF TaskStep, LifecycleTypes, EngineTypes
  <2> QED
    BY <2>2, <2>3
<1>3. tasks[i].state # "finished"
  BY DEF TaskStep
<1> QED
  BY <1>1, <1>2, <1>3 DEF TasksKept

\* No step removes a task or changes what it is for.
LEMMA NextKeepsTasks ==
    ASSUME LifecycleTypes, [LifecycleNext]_vars
    PROVE  TasksKept
<1>1. CASE UNCHANGED tasks
  BY <1>1 DEF TasksKept
<1>2. CASE TakeDelIndex
  BY <1>1, <1>2, ReleaseKeeps DEF TakeDelIndex
<1>3. CASE InsertIndex
  BY <1>1, <1>3, ReleaseKeeps DEF InsertIndex
<1>4. CASE GetDbIndex
  BY <1>4 DEF GetDbIndex, TasksKept, LifecycleTypes, EngineTypes
<1>5. ASSUME NEW i \in DOMAIN tasks, StartScan(i) PROVE TasksKept
  BY <1>5, StepKeeps DEF StartScan
<1>6. ASSUME NEW i \in DOMAIN tasks, FinishScan(i) PROVE TasksKept
  BY <1>6, StepKeeps DEF FinishScan
<1>7. ASSUME NEW i \in DOMAIN tasks, CancelScan(i) PROVE TasksKept
  BY <1>7, StepKeeps DEF CancelScan
<1> QED
  BY <1>1, <1>2, <1>3, <1>4, <1>5, <1>6, <1>7
     DEF LifecycleNext, Monitor, Engine, Tasks, vars, CreateIndex, DropIndex, ChangeSchema, Connect,
         CancelSession, ReloadFlags, MonitorTick, GetIndexes, FailToGetIndexes, AnnounceIndexes,
         AddIndex, IndexAdded, FinishRound, TakeAddIndex, FailToGetDbIndex, UpdateTick,
         StatusAnswered, NodeStep

\* What was built is still built when the tasks are kept.
LEMMA BuiltStays ==
    ASSUME TasksKept, NEW m, Built(tasks, m)
    PROVE  Built(tasks', m)
BY DEF TasksKept, Built

\* At the start nothing serves.
LEMMA BuiltInit == LifecycleInit => BuiltInv
BY DEF LifecycleInit, NodeInit, BuiltInv

\* A step that tells node_state nothing, or something other than a list.
LEMMA BuiltKept ==
    ASSUME LifecycleTypes, BuiltInv, TasksKept, UNCHANGED <<status, initial, awaited>>,
           \/ UNCHANGED nodeCh
           \/ \E e \in Events :
                 /\ nodeCh' = Append(nodeCh, e) /\ e.type # "IndexesDiscovered"
                 /\ e.type = "FullScanFinished" => Built(tasks', e.of)
    PROVE  BuiltInv'
<1>1. \A m \in awaited[1] : m \in initial[1] \/ Built(tasks, m) => m \in initial[1] \/ Built(tasks', m)
  BY BuiltStays
<1>2. ASSUME NEW j \in DOMAIN nodeCh'
      PROVE  /\ nodeCh'[j].type = "IndexesDiscovered" =>
                   awaited # <<>> /\ awaited[1] \subseteq nodeCh'[j].of
             /\ nodeCh'[j].type = "FullScanFinished" => Built(tasks', nodeCh'[j].of)
  <2>1. CASE j \in DOMAIN nodeCh /\ nodeCh'[j] = nodeCh[j]
    BY <2>1, BuiltStays DEF BuiltInv
  <2>2. ASSUME NEW e \in Events, nodeCh'[j] = e, e.type # "IndexesDiscovered",
               e.type = "FullScanFinished" => Built(tasks', e.of)
        PROVE  /\ nodeCh'[j].type # "IndexesDiscovered"
               /\ nodeCh'[j].type = "FullScanFinished" => Built(tasks', nodeCh'[j].of)
    BY <2>2
  <2>3. nodeCh \in Seq(Events)
    BY DEF LifecycleTypes, NodeTypes
  <2>4. \A e : nodeCh' = Append(nodeCh, e) =>
           \/ j \in DOMAIN nodeCh /\ nodeCh'[j] = nodeCh[j]
           \/ nodeCh'[j] = e
    BY <2>3
  <2> QED
    BY <2>1, <2>2, <2>4
<1> QED
  BY <1>1, <1>2 DEF BuiltInv

\* The list that is announced is on its way, and only what was on every list
\* before it is still awaited.
LEMMA BuiltAnnounced ==
    ASSUME LifecycleTypes, BuiltInv, TasksKept, AnnounceIndexes
    PROVE  BuiltInv'
<1>1. UNCHANGED <<status, initial>>
  BY DEF AnnounceIndexes, nodeVars
<1>2. awaited' # <<>> /\ awaited'[1] \subseteq DiscoveredIndexes
  BY DEF AnnounceIndexes
<1>3. awaited # <<>> => awaited'[1] \subseteq awaited[1]
  BY DEF AnnounceIndexes
<1>4. nodeCh \in Seq(Events) /\ nodeCh' = Append(nodeCh, Event("IndexesDiscovered", DiscoveredIndexes))
  BY DEF AnnounceIndexes, Tell, LifecycleTypes, NodeTypes
<1>5. ASSUME NEW j \in DOMAIN nodeCh'
      PROVE  /\ nodeCh'[j].type = "IndexesDiscovered" => awaited'[1] \subseteq nodeCh'[j].of
             /\ nodeCh'[j].type = "FullScanFinished" => Built(tasks', nodeCh'[j].of)
  <2>1. CASE j \in DOMAIN nodeCh /\ nodeCh'[j] = nodeCh[j]
    BY <2>1, <1>3, BuiltStays DEF BuiltInv
  <2>2. CASE nodeCh'[j] = Event("IndexesDiscovered", DiscoveredIndexes)
    BY <2>2, <1>2 DEF Event
  <2>3. \A e : nodeCh' = Append(nodeCh, e) =>
           \/ j \in DOMAIN nodeCh /\ nodeCh'[j] = nodeCh[j]
           \/ nodeCh'[j] = e
    BY <1>4
  <2> QED
    BY <1>4, <2>1, <2>2, <2>3
<1>6. initial # <<>> => \A m \in awaited'[1] : m \in initial[1] \/ Built(tasks', m)
  BY <1>3, BuiltStays DEF BuiltInv
<1> QED
  BY <1>1, <1>2, <1>5, <1>6 DEF BuiltInv

\* node_state handles a message of the channel.
LEMMA BuiltHandled ==
    ASSUME LifecycleTypes, BuiltInv, TasksKept, NodeStep
    PROVE  BuiltInv'
<1> DEFINE e == Head(nodeCh)
<1>1. /\ nodeCh \in Seq(Events) /\ nodeCh # <<>> /\ nodeCh' = Tail(nodeCh)
      /\ UNCHANGED <<awaited, tasks>>
  BY DEF NodeStep, LifecycleTypes, NodeTypes, monitorVars
<1>2. e = nodeCh[1] /\ 1 \in DOMAIN nodeCh /\ e \in Events
  BY <1>1
<1>3. \A j \in DOMAIN nodeCh' : j + 1 \in DOMAIN nodeCh /\ nodeCh'[j] = nodeCh[j + 1]
  BY <1>1
<1>4. \A m : Built(tasks', m) <=> Built(tasks, m)
  BY <1>1 DEF Built
<1>5. \A j \in DOMAIN nodeCh' :
         /\ nodeCh'[j].type = "IndexesDiscovered" =>
               awaited # <<>> /\ awaited[1] \subseteq nodeCh'[j].of
         /\ nodeCh'[j].type = "FullScanFinished" => Built(tasks, nodeCh'[j].of)
  BY <1>3 DEF BuiltInv
<1>6. /\ status' = "Serving" => initial' # <<>> /\ initial'[1] = {}
      /\ initial' # <<>> =>
            awaited # <<>> /\ \A m \in awaited[1] : m \in initial'[1] \/ Built(tasks, m)
  <2>1. CASE e.type \in {"ConnectingToDb", "DiscoveringIndexes", "GetIndexStatus", "FullScanStarted"}
    BY <2>1 DEF NodeStep, BuiltInv, OnConnectingToDb, OnDiscoveringIndexes, ResumedStatus,
       OnFullScanStarted, nodeVars
  <2>2. CASE e.type = "IndexesDiscovered"
    <3>1. OnIndexesDiscovered(e.of)
      BY <2>2 DEF NodeStep
    <3>2. awaited # <<>> /\ awaited[1] \subseteq e.of
      BY <1>2, <2>2 DEF BuiltInv
    <3> QED
      BY <3>1, <3>2 DEF OnIndexesDiscovered, StillInitial, BuiltInv
  <2>3. CASE e.type = "FullScanFinished"
    <3>1. OnFullScanFinished(e.of)
      BY <2>3 DEF NodeStep
    <3>2. Built(tasks, e.of)
      BY <1>2, <2>3 DEF BuiltInv
    <3> QED
      BY <3>1, <3>2 DEF OnFullScanFinished, AllBuilt, BuiltInv
  <2> QED
    BY <1>2, <2>1, <2>2, <2>3 DEF Events
<1> QED
  BY <1>1, <1>4, <1>5, <1>6 DEF BuiltInv

\* One step per action of node_state, monitor_indexes and the engine.
LEMMA BuiltNext ==
    ASSUME LifecycleTypes, BuiltInv, [LifecycleNext]_vars
    PROVE  BuiltInv'
<1> USE NextKeepsTasks DEF nodeVars, monitorVars
<1>1. CASE UNCHANGED <<status, initial, awaited, nodeCh>>
  BY <1>1, BuiltKept
<1>2. CASE Connect
  BY <1>2, BuiltKept DEF Connect, Tell, Event, Events
<1>3. CASE MonitorTick
  BY <1>3, BuiltKept DEF MonitorTick, Tell, Event, Events
<1>4. CASE AnnounceIndexes
  BY <1>4, BuiltAnnounced
<1>5. ASSUME NEW keys \in SUBSET Keys, AskNext(keys), UNCHANGED <<status, initial, awaited>>
      PROVE  BuiltInv'
  <2>1. ASSUME NEW k \in keys, nodeCh' = Append(nodeCh, Event("GetIndexStatus", k))
        PROVE  BuiltInv'
    BY <1>5, <2>1, BuiltKept DEF Event, Events
  <2> QED
    BY <1>1, <1>5, <2>1 DEF AskNext, Tell
<1>6. CASE UpdateTick
  BY <1>5, <1>6 DEF UpdateTick, LifecycleTypes, EngineTypes
<1>7. CASE StatusAnswered
  BY <1>5, <1>7 DEF StatusAnswered, LifecycleTypes, EngineTypes
<1>8. ASSUME NEW i \in DOMAIN tasks, StartScan(i) PROVE BuiltInv'
  <2>1. Event("FullScanStarted", tasks[i].meta) \in Events
    BY TaskType DEF Event, Events
  <2> QED
    BY <1>8, <2>1, BuiltKept DEF StartScan, TaskStep, Tell, Event
<1>9. ASSUME NEW i \in DOMAIN tasks, FinishScan(i) PROVE BuiltInv'
  <2>1. Event("FullScanFinished", tasks[i].meta) \in Events
    BY TaskType DEF Event, Events
  <2>2. Built(tasks', tasks[i].meta)
    BY <1>9, StepKeeps DEF FinishScan, Built, TasksKept
  <2> QED
    BY <1>9, <2>1, <2>2, BuiltKept DEF FinishScan, TaskStep, Tell, Event
<1>10. CASE NodeStep
  BY <1>10, BuiltHandled
<1> QED
  BY <1>1, <1>2, <1>3, <1>4, <1>6, <1>7, <1>8, <1>9, <1>10
     DEF LifecycleNext, Monitor, Engine, Tasks, vars, CreateIndex, DropIndex, ChangeSchema,
         CancelSession, ReloadFlags, GetIndexes, FailToGetIndexes, AddIndex, IndexAdded,
         FinishRound, TakeDelIndex, TakeAddIndex, GetDbIndex, FailToGetDbIndex, InsertIndex,
         CancelScan, TaskStep

(* The node reports that it serves only when every index of the first list *)
(* it announced, and that was on every list since, has been scanned to its *)
(* end: for every number of indexes, lost sessions, failed queries and     *)
(* messages on their way to node_state (node_state.rs, initial_idxs).      *)
THEOREM NodeServesBuilt == LifecycleSpec => []ServingMeansBuilt
<1>1. LifecycleInit => LifecycleTypes /\ BuiltInv
  BY TypesInit, BuiltInit
<1>2. (LifecycleTypes /\ BuiltInv) /\ [LifecycleNext]_vars => (LifecycleTypes /\ BuiltInv)'
  BY TypesNext, BuiltNext
<1>3. BuiltInv => ServingMeansBuilt
  BY DEF BuiltInv, ServingMeansBuilt, Built
<1> QED
  BY <1>1, <1>2, <1>3, PTL DEF LifecycleSpec

-----------------------------------------------------------------------------
(* An index serves                                                          *)

Started(ch, j, k) == ch[j].type = "FullScanStarted" /\ ch[j].of.key = k
Ended(ch, j, k) == ch[j].type = "FullScanFinished" /\ ch[j].of.key = k
Asked(ch, j, k) == ch[j].type = "GetIndexStatus" /\ ch[j].of = k

\* The status that node_state will have for a key once it has handled the
\* first n messages of its channel is not Serving.
Unserved(ids, ch, n, k) ==
    \/ \E l \in 1..n : Started(ch, l, k) /\ \A j \in (l + 1)..n : ~Ended(ch, j, k)
    \/ /\ k \in DOMAIN ids => ids[k] # "Serving"
       /\ \A j \in 1..n : ~Ended(ch, j, k)

\* The task of an entry, which has announced its scan, and the task of the
\* index that the engine is working on.
OwnedInv ==
    /\ \A k \in DOMAIN entries :
          /\ entries[k].meta.key = k /\ entries[k].instance \in DOMAIN tasks
          /\ tasks[entries[k].instance].meta.key = k
          /\ tasks[entries[k].instance].state # "starting"
    /\ engine \in {"opening", "table"} => current[1].key \notin DOMAIN entries
    /\ engine = "table" => /\ Len(tasks) \in DOMAIN tasks
                           /\ tasks[Len(tasks)].meta = current[1]

\* The engine waits for one answer at a time.
QueryInv ==
    /\ \A p \in DOMAIN nodeCh : nodeCh[p].type = "GetIndexStatus" =>
          /\ engine = "asked" /\ current = <<nodeCh[p].of>> /\ answer = <<>>
          /\ \A q \in DOMAIN nodeCh : nodeCh[q].type = "GetIndexStatus" => q = p
    /\ engine # "asked" => answer = <<>>

\* The scan of a task has not finished, nor has another one under the same
\* name since it began.
Unscanned(i) == tasks[i].state # "finished" /\ i \notin early

\* Before that nothing says that the index serves: neither the entry, nor an
\* answer, nor what node_state will answer.
ScanningInv ==
    /\ engine = "table" /\ tasks[Len(tasks)].state # "starting" /\ Unscanned(Len(tasks)) =>
          Unserved(idxs, nodeCh, Len(nodeCh), current[1].key)
    /\ \A k \in DOMAIN entries : Unscanned(entries[k].instance) =>
          /\ entries[k].status # "Serving"
          /\ engine = "asked" /\ current = <<k>> => answer # <<"Serving">>
          /\ Unserved(idxs, nodeCh, Len(nodeCh), k)
          /\ \A p \in DOMAIN nodeCh : Asked(nodeCh, p, k) => Unserved(idxs, nodeCh, p - 1, k)

ServedInv == OwnedInv /\ QueryInv /\ ScanningInv

\* At the start there is neither an entry nor a task.
LEMMA ServedInit == LifecycleInit => ServedInv
BY DEF LifecycleInit, IndexesInit, ServedInv, OwnedInv, QueryInv, ScanningInv

\* The length of the sequence of tasks, for steps that add none.
LEMMA SameTasks ==
    ASSUME LifecycleTypes, LifecycleTypes', DOMAIN tasks' = DOMAIN tasks
    PROVE  Len(tasks') = Len(tasks)
<1>1. tasks \in Seq(TaskTypes) /\ tasks' \in Seq(TaskTypes)
  BY DEF LifecycleTypes, EngineTypes
<1>2. 1..Len(tasks') = 1..Len(tasks) /\ Len(tasks') \in Nat /\ Len(tasks) \in Nat
  BY <1>1
<1>3. Len(tasks) = 0 => Len(tasks') = 0
  BY <1>2
<1>4. Len(tasks) > 0 => Len(tasks) \in 1..Len(tasks') /\ Len(tasks') \in 1..Len(tasks)
  BY <1>2
<1> QED
  BY <1>2, <1>3, <1>4

\* A step of a task.
LEMMA OwnedStep ==
    ASSUME LifecycleTypes, LifecycleTypes', OwnedInv, NEW i \in DOMAIN tasks,
           NEW from \in {"starting", "scanning"},
           NEW to \in {"scanning", "finished", "cancelled"}, TaskStep(i, from, to)
    PROVE  OwnedInv'
<1>1. /\ DOMAIN tasks' = DOMAIN tasks /\ Len(tasks') = Len(tasks)
      /\ \A j \in DOMAIN tasks :
            /\ tasks'[j].meta = tasks[j].meta
            /\ tasks[j].state # "starting" => tasks'[j].state # "starting"
  BY StepKeeps, SameTasks DEF TasksKept
<1>2. UNCHANGED <<entries, engine, current>>
  BY DEF TaskStep, indexesVars, engineVars
<1> QED
  BY <1>1, <1>2 DEF OwnedInv

\* The entry of a key goes, and its task is released.
LEMMA OwnedDel ==
    ASSUME LifecycleTypes, LifecycleTypes', OwnedInv, TakeDelIndex
    PROVE  OwnedInv'
<1> DEFINE k == Head(engineCh).meta.key
<1>1. engine = "idle" /\ UNCHANGED <<engine, current>>
  BY DEF TakeDelIndex, engineVars
<1>2. CASE ~ContainsKey(k)
  <2>1. UNCHANGED <<tasks, entries>>
    BY <1>2 DEF TakeDelIndex, RemoveKey, indexesVars
  <2> QED
    BY <1>1, <2>1 DEF OwnedInv
<1>3. CASE ContainsKey(k)
  <2>1. tasks' = Release(entries[k].instance, "queue") /\ entries' = Without(entries, k)
    BY <1>3 DEF TakeDelIndex, RemoveKey
  <2>2. /\ DOMAIN tasks' = DOMAIN tasks /\ Len(tasks') = Len(tasks)
        /\ \A j \in DOMAIN tasks : /\ tasks'[j].meta = tasks[j].meta
                                    /\ tasks'[j].state = tasks[j].state
    BY <2>1, ReleaseKeeps, SameTasks DEF TasksKept
  <2>3. DOMAIN entries' = DOMAIN entries \ {k} /\ \A j \in DOMAIN entries' : entries'[j] = entries[j]
    BY <2>1 DEF Without
  <2> QED
    BY <1>1, <2>2, <2>3 DEF OwnedInv
<1> QED
  BY <1>2, <1>3

\* A task is started for a key that has no entry.
LEMMA OwnedOpen ==
    ASSUME LifecycleTypes, LifecycleTypes', OwnedInv, GetDbIndex
    PROVE  OwnedInv'
<1> DEFINE t == [meta |-> current[1], state |-> "starting", held |-> "entry"]
<1>1. /\ tasks' = Append(tasks, t) /\ engine = "opening" /\ engine' = "table"
      /\ UNCHANGED <<entries, current>>
  BY DEF GetDbIndex, indexesVars
<1> HIDE DEF t
<1>2. tasks \in Seq(TaskTypes)
  BY DEF LifecycleTypes, EngineTypes
<1>3. /\ DOMAIN tasks' = DOMAIN tasks \cup {Len(tasks)'} /\ Len(tasks)' = Len(tasks) + 1
      /\ tasks'[Len(tasks)'] = t /\ \A i \in DOMAIN tasks : tasks'[i] = tasks[i]
  BY <1>1, <1>2
<1>4. t.meta = current[1]
  BY DEF t
<1> QED
  BY <1>1, <1>3, <1>4 DEF OwnedInv

\* The entry is inserted, or the task is released.
LEMMA OwnedInsert ==
    ASSUME LifecycleTypes, LifecycleTypes', OwnedInv, InsertIndex
    PROVE  OwnedInv'
<1> DEFINE e == [meta |-> current[1], instance |-> Len(tasks), status |-> "Initializing"]
           k == current[1].key
<1>1. engine = "table" /\ engine' = "idle"
  BY DEF InsertIndex
<1>2. /\ Len(tasks) \in DOMAIN tasks /\ tasks[Len(tasks)].meta.key = k /\ k \notin DOMAIN entries
      /\ tasks[Len(tasks)].state # "starting"
  BY <1>1 DEF OwnedInv, InsertIndex, TaskAnswers
<1>3. CASE Insert(e) /\ UNCHANGED tasks
  <2>1. entries' = With(entries, k, e)
    BY <1>3 DEF Insert
  <2>2. e.meta.key = k /\ e.instance = Len(tasks)
    OBVIOUS
  <2> HIDE DEF e, k
  <2>3. /\ DOMAIN entries' = DOMAIN entries \cup {k} /\ entries'[k] = e
        /\ \A j \in DOMAIN entries : entries'[j] = entries[j]
    BY <1>2, <2>1 DEF With
  <2>4. \A j \in DOMAIN entries' :
           /\ entries'[j].meta.key = j /\ entries'[j].instance \in DOMAIN tasks
           /\ tasks[entries'[j].instance].meta.key = j
           /\ tasks[entries'[j].instance].state # "starting"
    BY <1>2, <2>2, <2>3 DEF OwnedInv
  <2> QED
    BY <1>1, <1>3, <2>4 DEF OwnedInv
<1>4. CASE tasks' = Release(Len(tasks), "none") /\ UNCHANGED entries
  <2>1. /\ DOMAIN tasks' = DOMAIN tasks
        /\ \A j \in DOMAIN tasks : /\ tasks'[j].meta = tasks[j].meta
                                    /\ tasks'[j].state = tasks[j].state
    BY <1>4, ReleaseKeeps DEF TasksKept
  <2> QED
    BY <1>1, <1>4, <2>1 DEF OwnedInv
<1> QED
  BY <1>3, <1>4 DEF InsertIndex, indexesVars

\* An answer sets the status of the entry that was asked about, if the answer
\* is a status and the entry is there.
LEMMA AnsweredEntries ==
    ASSUME LifecycleTypes, StatusAnswered
    PROVE  /\ DOMAIN entries' = DOMAIN entries
           /\ \A k \in DOMAIN entries :
                 /\ entries'[k].meta = entries[k].meta
                 /\ entries'[k].instance = entries[k].instance
                 /\ entries'[k].status \in {entries[k].status, answer[1]}
                 /\ k # current[1] => entries'[k].status = entries[k].status
<1>1. CASE UNCHANGED entries
  BY <1>1
<1>2. CASE current[1] \in DOMAIN entries /\ entries' = [entries EXCEPT ![current[1]].status = answer[1]]
  <2>1. DOMAIN entries' = DOMAIN entries
    BY <1>2
  <2>2. \A k \in DOMAIN entries : k # current[1] => entries'[k] = entries[k]
    BY <1>2
  <2>3. entries'[current[1]] = [entries[current[1]] EXCEPT !.status = answer[1]]
    BY <1>2
  <2>4. entries[current[1]] \in EntryTypes
    BY <1>2 DEF LifecycleTypes, EngineTypes
  <2>5. /\ entries'[current[1]].meta = entries[current[1]].meta
        /\ entries'[current[1]].instance = entries[current[1]].instance
        /\ entries'[current[1]].status = answer[1]
    BY <2>3, <2>4 DEF EntryTypes
  <2> QED
    BY <2>1, <2>2, <2>5
<1> QED
  BY <1>1, <1>2 DEF StatusAnswered, SetStatus, indexesVars

\* One step per action.
LEMMA OwnedNext ==
    ASSUME LifecycleTypes, LifecycleTypes', OwnedInv, [LifecycleNext]_vars
    PROVE  OwnedInv'
<1> USE DEF indexesVars, engineVars
<1>1. CASE UNCHANGED <<tasks, entries, engine, current>>
  BY <1>1 DEF OwnedInv
<1>2. CASE TakeDelIndex
  BY <1>2, OwnedDel
<1>3. CASE TakeAddIndex
  <2>1. engine = "idle" /\ UNCHANGED <<tasks, entries>>
    BY <1>3 DEF TakeAddIndex
  <2>2. CASE UNCHANGED <<engine, current>>
    BY <2>1, <2>2 DEF OwnedInv
  <2>3. CASE /\ Head(engineCh).meta.key \notin DOMAIN entries
             /\ engine' = "opening" /\ current' = <<Head(engineCh).meta>>
    BY <2>1, <2>3 DEF OwnedInv
  <2> QED
    BY <1>3, <2>2, <2>3 DEF TakeAddIndex, ContainsKey
<1>4. CASE GetDbIndex
  BY <1>4, OwnedOpen
<1>5. CASE FailToGetDbIndex
  BY <1>5 DEF FailToGetDbIndex, OwnedInv
<1>6. CASE InsertIndex
  BY <1>6, OwnedInsert
<1>7. CASE UpdateTick
  BY <1>7 DEF UpdateTick, AskNext, OwnedInv
<1>8. CASE StatusAnswered
  <2>1. UNCHANGED tasks /\ engine = "asked" /\ engine' \in {"idle", "asked"}
    BY <1>8 DEF StatusAnswered, AskNext
  <2>2. /\ DOMAIN entries' = DOMAIN entries
        /\ \A k \in DOMAIN entries : /\ entries'[k].meta = entries[k].meta
                                     /\ entries'[k].instance = entries[k].instance
    BY <1>8, AnsweredEntries
  <2> QED
    BY <2>1, <2>2 DEF OwnedInv
<1>9. ASSUME NEW i \in DOMAIN tasks, StartScan(i) PROVE OwnedInv'
  BY <1>9, OwnedStep DEF StartScan
<1>10. ASSUME NEW i \in DOMAIN tasks, FinishScan(i) PROVE OwnedInv'
  BY <1>10, OwnedStep DEF FinishScan
<1>11. ASSUME NEW i \in DOMAIN tasks, CancelScan(i) PROVE OwnedInv'
  BY <1>11, OwnedStep DEF CancelScan
<1> QED
  BY <1>1, <1>2, <1>3, <1>4, <1>5, <1>6, <1>7, <1>8, <1>9, <1>10, <1>11
     DEF LifecycleNext, Monitor, Engine, Tasks, vars, CreateIndex, DropIndex, ChangeSchema, Connect,
         CancelSession, ReloadFlags, MonitorTick, GetIndexes, FailToGetIndexes, AnnounceIndexes,
         AddIndex, IndexAdded, FinishRound, NodeStep

\* What a message adds to, and what its handling takes from, the channel.
LEMMA UnservedAppend ==
    ASSUME NEW S, NEW ch \in Seq(S), NEW e, NEW ids, NEW k
    PROVE  /\ \A n \in 0..Len(ch) :
                 Unserved(ids, ch, n, k) <=> Unserved(ids, Append(ch, e), n, k)
           /\ ~(e.type = "FullScanFinished" /\ e.of.key = k) =>
                 (Unserved(ids, ch, Len(ch), k) => Unserved(ids, Append(ch, e), Len(ch) + 1, k))
           /\ e.type = "FullScanStarted" /\ e.of.key = k =>
                 Unserved(ids, Append(ch, e), Len(ch) + 1, k)
<1> DEFINE new == Append(ch, e)
<1>1. /\ Len(ch) \in Nat /\ \A j \in 1..Len(ch) : new[j] = ch[j]
      /\ new[Len(ch) + 1] = e
  OBVIOUS
<1> HIDE DEF new
<1>2. \A n \in 0..Len(ch) : \A j \in 1..n :
         (Started(ch, j, k) <=> Started(new, j, k)) /\ (Ended(ch, j, k) <=> Ended(new, j, k))
  BY <1>1 DEF Started, Ended
<1>3. \A n \in 0..Len(ch) : Unserved(ids, ch, n, k) <=> Unserved(ids, new, n, k)
  <2> TAKE n \in 0..Len(ch)
  <2>1. \A l \in 1..n : \A j \in (l + 1)..n : j \in 1..n
    BY <1>1
  <2> QED
    BY <1>2, <2>1 DEF Unserved
<1>4. ASSUME ~(e.type = "FullScanFinished" /\ e.of.key = k), Unserved(ids, ch, Len(ch), k)
      PROVE  Unserved(ids, new, Len(ch) + 1, k)
  <2>1. ~Ended(new, Len(ch) + 1, k)
    BY <1>1, <1>4 DEF Ended
  <2>2. Unserved(ids, new, Len(ch), k)
    BY <1>1, <1>3, <1>4
  <2>3. \A l \in 1..Len(ch) : l \in 1..(Len(ch) + 1)
    BY <1>1
  <2>4. \A l \in 0..Len(ch) : \A j \in (l + 1)..(Len(ch) + 1) :
           j \in (l + 1)..Len(ch) \/ j = Len(ch) + 1
    BY <1>1
  <2>5. CASE \E l \in 1..Len(ch) : Started(new, l, k) /\ \A j \in (l + 1)..Len(ch) : ~Ended(new, j, k)
    BY <1>1, <2>1, <2>3, <2>4, <2>5 DEF Unserved
  <2>6. CASE /\ k \in DOMAIN ids => ids[k] # "Serving"
             /\ \A j \in 1..Len(ch) : ~Ended(new, j, k)
    BY <1>1, <2>1, <2>4, <2>6 DEF Unserved
  <2> QED
    BY <2>2, <2>5, <2>6 DEF Unserved
<1>5. ASSUME e.type = "FullScanStarted", e.of.key = k
      PROVE  Unserved(ids, new, Len(ch) + 1, k)
  <2>1. Started(new, Len(ch) + 1, k) /\ Len(ch) + 1 \in 1..(Len(ch) + 1)
    BY <1>1, <1>5 DEF Started
  <2>2. \A j \in ((Len(ch) + 1) + 1)..(Len(ch) + 1) : FALSE
    BY <1>1
  <2> QED
    BY <2>1, <2>2 DEF Unserved
<1> QED
  BY <1>3, <1>4, <1>5 DEF new

\* A message that is handled and leaves no index serving.
LEMMA UnservedTail ==
    ASSUME LifecycleTypes, NodeStep, NEW k, NEW n \in 0..(Len(nodeCh) - 1),
           Unserved(idxs, nodeCh, n + 1, k)
    PROVE  Unserved(idxs', nodeCh', n, k)
<1>1. /\ nodeCh \in Seq(Events) /\ nodeCh # <<>> /\ nodeCh' = Tail(nodeCh)
  BY DEF NodeStep, LifecycleTypes, NodeTypes
<1>2. /\ n + 1 \in 1..Len(nodeCh) /\ 1 \in DOMAIN nodeCh /\ Head(nodeCh) = nodeCh[1]
      /\ nodeCh[1] \in Events /\ n \in Nat
      /\ \A j \in 1..n : nodeCh'[j] = nodeCh[j + 1]
  BY <1>1
<1>3. \A j \in 1..n : /\ Started(nodeCh', j, k) <=> Started(nodeCh, j + 1, k)
                      /\ Ended(nodeCh', j, k) <=> Ended(nodeCh, j + 1, k)
  BY <1>2 DEF Started, Ended
<1>4. ASSUME Started(nodeCh, 1, k)
      PROVE  k \in DOMAIN idxs' => idxs'[k] # "Serving"
  BY <1>2, <1>4 DEF Started, NodeStep, OnFullScanStarted, LifecycleTypes, NodeTypes
<1>5. ASSUME ~Ended(nodeCh, 1, k), k \in DOMAIN idxs => idxs[k] # "Serving"
      PROVE  k \in DOMAIN idxs' => idxs'[k] # "Serving"
  <2> DEFINE e == Head(nodeCh)
  <2>1. CASE e.type \in {"ConnectingToDb", "DiscoveringIndexes", "GetIndexStatus"}
    BY <1>5, <2>1 DEF NodeStep, OnConnectingToDb, OnDiscoveringIndexes, nodeVars
  <2>2. CASE e.type = "IndexesDiscovered"
    BY <1>5, <2>2 DEF NodeStep, OnIndexesDiscovered, UpdateIndexes
  <2>3. CASE e.type = "FullScanStarted"
    BY <1>5, <2>3 DEF NodeStep, OnFullScanStarted, LifecycleTypes, NodeTypes
  <2>4. CASE e.type = "FullScanFinished"
    BY <1>2, <1>5, <2>4 DEF NodeStep, OnFullScanFinished, Ended, LifecycleTypes, NodeTypes
  <2> QED
    BY <1>2, <2>1, <2>2, <2>3, <2>4 DEF Events
<1>6. \A l \in 1..(n + 1) : l = 1 \/ (l - 1 \in 1..n /\ (l - 1) + 1 = l)
  BY <1>2
<1>7. \A l \in 0..n : \A j \in (l + 1)..n : j + 1 \in ((l + 1) + 1)..(n + 1) /\ j \in 1..n
  BY <1>2
<1>8. CASE \E l \in 1..(n + 1) :
              Started(nodeCh, l, k) /\ \A j \in (l + 1)..(n + 1) : ~Ended(nodeCh, j, k)
  <2>1. PICK l \in 1..(n + 1) :
           Started(nodeCh, l, k) /\ \A j \in (l + 1)..(n + 1) : ~Ended(nodeCh, j, k)
    BY <1>8
  <2>2. CASE l = 1
    <3>1. \A j \in 1..n : ~Ended(nodeCh', j, k)
      BY <1>2, <1>3, <1>7, <2>1, <2>2
    <3> QED
      BY <1>4, <2>1, <2>2, <3>1 DEF Unserved
  <2>3. CASE l - 1 \in 1..n /\ (l - 1) + 1 = l
    <3>1. \A j \in ((l - 1) + 1)..n : ~Ended(nodeCh', j, k)
      BY <1>2, <1>3, <1>7, <2>1, <2>3
    <3> QED
      BY <1>3, <2>1, <2>3, <3>1 DEF Unserved
  <2> QED
    BY <1>6, <2>2, <2>3
<1>9. CASE /\ k \in DOMAIN idxs => idxs[k] # "Serving"
           /\ \A j \in 1..(n + 1) : ~Ended(nodeCh, j, k)
  <2>1. ~Ended(nodeCh, 1, k) /\ \A j \in 1..n : ~Ended(nodeCh', j, k)
    BY <1>2, <1>3, <1>9
  <2> QED
    BY <1>5, <1>9, <2>1 DEF Unserved
<1> QED
  BY <1>8, <1>9 DEF Unserved

\* A message that is no question of the engine.
LEMMA QueryTold ==
    ASSUME LifecycleTypes, QueryInv, NEW e, nodeCh' = Append(nodeCh, e), e.type # "GetIndexStatus",
           UNCHANGED <<engine, current, answer>>
    PROVE  QueryInv'
<1>1. nodeCh \in Seq(Events)
  BY DEF LifecycleTypes, NodeTypes
<1>2. \A j \in DOMAIN nodeCh' : (j \in DOMAIN nodeCh /\ nodeCh'[j] = nodeCh[j]) \/ nodeCh'[j] = e
  BY <1>1
<1> QED
  BY <1>2 DEF QueryInv

\* The engine asks when no other question is on its way.
LEMMA QueryAsked ==
    ASSUME LifecycleTypes, NEW keys, AskNext(keys), answer' = <<>>,
           \A p \in DOMAIN nodeCh : nodeCh[p].type # "GetIndexStatus"
    PROVE  QueryInv'
<1>1. nodeCh \in Seq(Events)
  BY DEF LifecycleTypes, NodeTypes
<1>2. CASE UNCHANGED nodeCh
  BY <1>2 DEF QueryInv
<1>3. ASSUME NEW k \in keys, nodeCh' = Append(nodeCh, Event("GetIndexStatus", k)),
             engine' = "asked", current' = <<k>>
      PROVE  QueryInv'
  <2> DEFINE e == Event("GetIndexStatus", k)
  <2>1. e.of = k
    BY DEF Event
  <2> HIDE DEF e
  <2>2. \A j \in DOMAIN nodeCh' :
           (j \in DOMAIN nodeCh /\ nodeCh'[j] = nodeCh[j]) \/ (nodeCh'[j] = e /\ j = Len(nodeCh) + 1)
    BY <1>1, <1>3 DEF e
  <2> QED
    BY <1>3, <2>1, <2>2 DEF QueryInv
<1> QED
  BY <1>2, <1>3 DEF AskNext, Tell

\* One step per action.
LEMMA QueryNext ==
    ASSUME LifecycleTypes, QueryInv, [LifecycleNext]_vars
    PROVE  QueryInv'
<1> USE DEF engineVars
<1>1. CASE UNCHANGED <<nodeCh, engine, current, answer>>
  BY <1>1 DEF QueryInv
<1>2. CASE Connect
  BY <1>2, QueryTold DEF Connect, Tell, Event
<1>3. CASE MonitorTick
  BY <1>3, QueryTold DEF MonitorTick, Tell, Event
<1>4. CASE AnnounceIndexes
  BY <1>4, QueryTold DEF AnnounceIndexes, Tell, Event
<1>5. CASE /\ engine # "asked" /\ engine' # "asked" /\ UNCHANGED <<nodeCh, answer>>
  BY <1>5 DEF QueryInv
<1>6. CASE UpdateTick
  <2>1. answer' = <<>> /\ \A p \in DOMAIN nodeCh : nodeCh[p].type # "GetIndexStatus"
    BY <1>6 DEF UpdateTick, QueryInv
  <2> QED
    BY <1>6, <2>1, QueryAsked DEF UpdateTick
<1>7. CASE StatusAnswered
  <2>1. answer' = <<>> /\ \A p \in DOMAIN nodeCh : nodeCh[p].type # "GetIndexStatus"
    BY <1>7 DEF StatusAnswered, QueryInv
  <2> QED
    BY <1>7, <2>1, QueryAsked DEF StatusAnswered
<1>8. ASSUME NEW i \in DOMAIN tasks, StartScan(i) PROVE QueryInv'
  BY <1>8, QueryTold DEF StartScan, TaskStep, Tell, Event
<1>9. ASSUME NEW i \in DOMAIN tasks, FinishScan(i) PROVE QueryInv'
  BY <1>9, QueryTold DEF FinishScan, TaskStep, Tell, Event
<1>10. CASE NodeStep
  <2>1. /\ nodeCh \in Seq(Events) /\ nodeCh # <<>> /\ nodeCh' = Tail(nodeCh)
        /\ UNCHANGED <<engine, current>>
    BY <1>10 DEF NodeStep, LifecycleTypes, NodeTypes
  <2>2. /\ 1 \in DOMAIN nodeCh /\ Head(nodeCh) = nodeCh[1]
        /\ \A j \in DOMAIN nodeCh' : /\ j + 1 \in DOMAIN nodeCh /\ j + 1 # 1 /\ j \in Nat
                                     /\ nodeCh'[j] = nodeCh[j + 1]
    BY <2>1
  <2>3. CASE nodeCh[1].type = "GetIndexStatus"
    <3>1. engine = "asked" /\ \A j \in DOMAIN nodeCh' : nodeCh'[j].type # "GetIndexStatus"
      BY <2>2, <2>3 DEF QueryInv
    <3> QED
      BY <2>1, <3>1 DEF QueryInv
  <2>4. CASE nodeCh[1].type # "GetIndexStatus"
    <3>1. answer' = answer
      BY <1>10, <2>2, <2>4 DEF NodeStep
    <3>2. ASSUME NEW p \in DOMAIN nodeCh', nodeCh'[p].type = "GetIndexStatus"
          PROVE  /\ engine = "asked" /\ current = <<nodeCh'[p].of>> /\ answer = <<>>
                 /\ \A q \in DOMAIN nodeCh' : nodeCh'[q].type = "GetIndexStatus" => q = p
      BY <2>2, <3>2 DEF QueryInv
    <3> QED
      BY <2>1, <3>1, <3>2 DEF QueryInv
  <2> QED
    BY <2>3, <2>4
<1> QED
  BY <1>1, <1>2, <1>3, <1>4, <1>5, <1>6, <1>7, <1>8, <1>9, <1>10
     DEF LifecycleNext, Monitor, Engine, Tasks, vars, CreateIndex, DropIndex, ChangeSchema,
         CancelSession, ReloadFlags, GetIndexes, FailToGetIndexes, AddIndex, IndexAdded,
         FinishRound, TakeDelIndex, TakeAddIndex, GetDbIndex, FailToGetDbIndex, InsertIndex,
         CancelScan, TaskStep

\* A message that is no question, sent by a task or by another actor: the end
\* of a scan is noted for every task of the same name that has begun.
LEMMA ScanningTold ==
    ASSUME LifecycleTypes, OwnedInv, ScanningInv, NEW e, nodeCh' = Append(nodeCh, e),
           e.type # "GetIndexStatus", UNCHANGED <<idxs, entries, engine, current, answer>>,
           TasksKept, Len(tasks') = Len(tasks),
           early \subseteq early',
           \A i \in DOMAIN tasks : tasks'[i].state # "starting" =>
              \/ tasks[i].state # "starting"
              \/ e.type = "FullScanStarted" /\ e.of = tasks[i].meta,
           e.type = "FullScanFinished" =>
              \A i \in DOMAIN tasks : tasks[i].meta.key = e.of.key /\ tasks[i].state # "starting" =>
                 i \in early' \/ tasks'[i].state = "finished"
    PROVE  ScanningInv'
<1>1. nodeCh \in Seq(Events)
  BY DEF LifecycleTypes, NodeTypes
<1>2. /\ Len(nodeCh') = Len(nodeCh) + 1 /\ Len(nodeCh) \in Nat
      /\ \A p \in DOMAIN nodeCh' : nodeCh'[p].type = "GetIndexStatus" =>
            p \in DOMAIN nodeCh /\ nodeCh'[p] = nodeCh[p] /\ p - 1 \in 0..Len(nodeCh)
  BY <1>1
<1>3. ASSUME engine = "table", tasks'[Len(tasks)].state # "starting", Unscanned(Len(tasks))'
      PROVE  Unserved(idxs, nodeCh', Len(nodeCh'), current[1].key)
  <2>1. Len(tasks) \in DOMAIN tasks /\ tasks[Len(tasks)].meta = current[1]
    BY <1>3 DEF OwnedInv
  <2>2. CASE e.type = "FullScanStarted" /\ e.of = tasks[Len(tasks)].meta
    <3>1. e.type = "FullScanStarted" /\ e.of.key = current[1].key
      BY <2>1, <2>2
    <3>2. Unserved(idxs, Append(nodeCh, e), Len(nodeCh) + 1, current[1].key)
      BY <1>1, <3>1, UnservedAppend
    <3> QED
      BY <1>2, <3>2
  <2>3. CASE tasks[Len(tasks)].state # "starting"
    <3>1. Unserved(idxs, nodeCh, Len(nodeCh), current[1].key)
      BY <1>3, <2>1, <2>3 DEF ScanningInv, Unscanned, TasksKept
    <3>2. ~(e.type = "FullScanFinished" /\ e.of.key = current[1].key)
      BY <1>3, <2>1, <2>3 DEF Unscanned
    <3> QED
      BY <1>1, <1>2, <3>1, <3>2, UnservedAppend
  <2> QED
    BY <1>3, <2>1, <2>2, <2>3
<1>4. ASSUME NEW k \in DOMAIN entries, Unscanned(entries[k].instance)'
      PROVE  /\ entries[k].status # "Serving"
             /\ engine = "asked" /\ current = <<k>> => answer # <<"Serving">>
             /\ Unserved(idxs, nodeCh', Len(nodeCh'), k)
             /\ \A p \in DOMAIN nodeCh' : Asked(nodeCh', p, k) => Unserved(idxs, nodeCh', p - 1, k)
  <2>1. entries[k].instance \in DOMAIN tasks /\ Unscanned(entries[k].instance)
    BY <1>4 DEF OwnedInv, TasksKept, Unscanned
  <2>2. ~(e.type = "FullScanFinished" /\ e.of.key = k)
    BY <1>4, <2>1 DEF OwnedInv, Unscanned
  <2>3. Unserved(idxs, nodeCh', Len(nodeCh'), k)
    BY <1>1, <1>2, <2>1, <2>2, UnservedAppend DEF ScanningInv
  <2>4. ASSUME NEW p \in DOMAIN nodeCh', Asked(nodeCh', p, k)
        PROVE  Unserved(idxs, nodeCh', p - 1, k)
    <3>1. p \in DOMAIN nodeCh /\ Asked(nodeCh, p, k) /\ p - 1 \in 0..Len(nodeCh)
      BY <1>2, <2>4 DEF Asked
    <3>2. Unserved(idxs, nodeCh, p - 1, k)
      BY <2>1, <3>1 DEF ScanningInv
    <3> QED
      BY <1>1, <3>1, <3>2, UnservedAppend
  <2> QED
    BY <2>1, <2>3, <2>4 DEF ScanningInv
<1> QED
  BY <1>3, <1>4 DEF ScanningInv

\* The engine asks about a key: what node_state will answer is what it has
\* once everything before the question is handled.
LEMMA ScanningAsked ==
    ASSUME LifecycleTypes, OwnedInv, ScanningInv, NEW keys, AskNext(keys), answer' = <<>>,
           UNCHANGED <<idxs, tasks, early>>, DOMAIN entries' = DOMAIN entries,
           \A p \in DOMAIN nodeCh : nodeCh[p].type # "GetIndexStatus",
           \A k \in DOMAIN entries :
              /\ entries'[k].instance = entries[k].instance
              /\ Unscanned(entries[k].instance) => entries'[k].status # "Serving"
    PROVE  ScanningInv'
<1>1. nodeCh \in Seq(Events) /\ Len(nodeCh) \in Nat
  BY DEF LifecycleTypes, NodeTypes
<1>2. engine' # "table"
  BY DEF AskNext
<1>3. ASSUME NEW k \in DOMAIN entries, Unscanned(entries[k].instance)
      PROVE  /\ Unserved(idxs, nodeCh', Len(nodeCh'), k)
             /\ \A p \in DOMAIN nodeCh' : Asked(nodeCh', p, k) => Unserved(idxs, nodeCh', p - 1, k)
  <2>1. Unserved(idxs, nodeCh, Len(nodeCh), k)
    BY <1>3 DEF ScanningInv, Unscanned
  <2>2. CASE UNCHANGED nodeCh
    BY <2>1, <2>2 DEF Asked
  <2>3. ASSUME NEW j, nodeCh' = Append(nodeCh, Event("GetIndexStatus", j))
        PROVE  /\ Unserved(idxs, nodeCh', Len(nodeCh'), k)
               /\ \A p \in DOMAIN nodeCh' : Asked(nodeCh', p, k) => Unserved(idxs, nodeCh', p - 1, k)
    <3> DEFINE e == Event("GetIndexStatus", j)
    <3>1. e.type # "FullScanFinished"
      BY DEF Event
    <3> HIDE DEF e
    <3>2. /\ Len(nodeCh') = Len(nodeCh) + 1
          /\ \A p \in DOMAIN nodeCh' : nodeCh'[p].type = "GetIndexStatus" => p - 1 = Len(nodeCh)
      BY <1>1, <2>3 DEF e
    <3>3. Unserved(idxs, nodeCh', Len(nodeCh) + 1, k) /\ Unserved(idxs, nodeCh', Len(nodeCh), k)
      BY <1>1, <2>1, <2>3, <3>1, UnservedAppend DEF e
    <3> QED
      BY <3>2, <3>3 DEF Asked
  <2> QED
    BY <2>2, <2>3 DEF AskNext, Tell
<1> QED
  BY <1>2, <1>3 DEF ScanningInv, Unscanned

\* node_state handles a message, which may be the question.
LEMMA ScanningHandled ==
    ASSUME LifecycleTypes, OwnedInv, QueryInv, ScanningInv, NodeStep
    PROVE  ScanningInv'
<1>1. /\ nodeCh \in Seq(Events) /\ nodeCh # <<>> /\ nodeCh' = Tail(nodeCh)
      /\ UNCHANGED <<entries, tasks, early, engine, current>>
  BY DEF NodeStep, LifecycleTypes, NodeTypes, indexesVars
<1>2. /\ Len(nodeCh') \in 0..(Len(nodeCh) - 1) /\ Len(nodeCh') + 1 = Len(nodeCh)
      /\ 1 \in DOMAIN nodeCh /\ Head(nodeCh) = nodeCh[1]
      /\ \A p \in DOMAIN nodeCh' : /\ p + 1 \in DOMAIN nodeCh /\ nodeCh'[p] = nodeCh[p + 1]
                                   /\ p - 1 \in 0..(Len(nodeCh) - 1)
                                   /\ (p - 1) + 1 = (p + 1) - 1
  BY <1>1
<1>3. \A k : Unserved(idxs, nodeCh, Len(nodeCh), k) => Unserved(idxs', nodeCh', Len(nodeCh'), k)
  BY <1>2, UnservedTail
<1>4. ASSUME NEW k \in DOMAIN entries, Unscanned(entries[k].instance)
      PROVE  /\ entries[k].status # "Serving"
             /\ engine = "asked" /\ current = <<k>> => answer' # <<"Serving">>
             /\ Unserved(idxs', nodeCh', Len(nodeCh'), k)
             /\ \A p \in DOMAIN nodeCh' : Asked(nodeCh', p, k) => Unserved(idxs', nodeCh', p - 1, k)
  <2>1. ASSUME NEW p \in DOMAIN nodeCh', Asked(nodeCh', p, k)
        PROVE  Unserved(idxs', nodeCh', p - 1, k)
    <3>1. p + 1 \in DOMAIN nodeCh /\ Asked(nodeCh, p + 1, k)
      BY <1>2, <2>1 DEF Asked
    <3>2. Unserved(idxs, nodeCh, (p - 1) + 1, k)
      BY <1>2, <1>4, <3>1 DEF ScanningInv, Unscanned
    <3> QED
      BY <1>2, <3>2, UnservedTail
  <2>2. ASSUME engine = "asked", current = <<k>> PROVE answer' # <<"Serving">>
    <3>1. CASE nodeCh[1].type # "GetIndexStatus"
      BY <1>2, <1>4, <2>2, <3>1 DEF NodeStep, ScanningInv
    <3>2. CASE nodeCh[1].type = "GetIndexStatus"
      <4>1. nodeCh[1].of = k
        BY <1>2, <2>2, <3>2 DEF QueryInv
      <4>2. Unserved(idxs, nodeCh, 1 - 1, k)
        BY <1>2, <1>4, <3>2, <4>1 DEF ScanningInv, Unscanned, Asked
      <4>3. k \in DOMAIN idxs => idxs[k] # "Serving"
        BY <4>2 DEF Unserved
      <4> QED
        BY <1>2, <3>2, <4>1, <4>3 DEF NodeStep
    <3> QED
      BY <3>1, <3>2
  <2> QED
    BY <1>3, <1>4, <2>1, <2>2 DEF ScanningInv, Unscanned
<1>5. engine = "table" /\ tasks[Len(tasks)].state # "starting" /\ Unscanned(Len(tasks)) =>
         Unserved(idxs', nodeCh', Len(nodeCh'), current[1].key)
  BY <1>3 DEF ScanningInv, Unscanned
<1> QED
  BY <1>1, <1>4, <1>5 DEF ScanningInv, Unscanned

\* The engine removes, creates or inserts an index.
LEMMA ScanningDel ==
    ASSUME LifecycleTypes, OwnedInv, ScanningInv, TakeDelIndex
    PROVE  ScanningInv'
<1> DEFINE k == Head(engineCh).meta.key
<1>1. engine = "idle" /\ UNCHANGED <<engine, current, answer, idxs, nodeCh, early>>
  BY DEF TakeDelIndex, engineVars, nodeVars
<1>2. \A i \in DOMAIN tasks : tasks'[i].state = tasks[i].state
  BY ReleaseKeeps DEF TakeDelIndex
<1>3. DOMAIN entries' \subseteq DOMAIN entries /\ \A j \in DOMAIN entries' : entries'[j] = entries[j]
  BY DEF TakeDelIndex, RemoveKey, Without, indexesVars
<1>4. \A j \in DOMAIN entries : tasks'[entries[j].instance].state = tasks[entries[j].instance].state
  BY <1>2 DEF OwnedInv
<1> QED
  BY <1>1, <1>3, <1>4 DEF ScanningInv, Unscanned

\* A task is started.
LEMMA ScanningOpen ==
    ASSUME LifecycleTypes, OwnedInv, ScanningInv, GetDbIndex
    PROVE  ScanningInv'
<1> DEFINE t == [meta |-> current[1], state |-> "starting", held |-> "entry"]
<1>1. /\ tasks' = Append(tasks, t) /\ engine' = "table"
      /\ UNCHANGED <<entries, current, answer, idxs, nodeCh, early>>
  BY DEF GetDbIndex, indexesVars, nodeVars
<1>2. t.state = "starting"
  OBVIOUS
<1> HIDE DEF t
<1>3. tasks \in Seq(TaskTypes)
  BY DEF LifecycleTypes, EngineTypes
<1>4. tasks'[Len(tasks')] = t /\ \A i \in DOMAIN tasks : tasks'[i] = tasks[i]
  BY <1>1, <1>3
<1>5. \A j \in DOMAIN entries : tasks'[entries[j].instance] = tasks[entries[j].instance]
  BY <1>4 DEF OwnedInv
<1> QED
  BY <1>1, <1>2, <1>4, <1>5 DEF ScanningInv, Unscanned

\* An entry is inserted, or its task is released.
LEMMA ScanningInsert ==
    ASSUME LifecycleTypes, OwnedInv, QueryInv, ScanningInv, InsertIndex
    PROVE  ScanningInv'
<1> DEFINE e == [meta |-> current[1], instance |-> Len(tasks), status |-> "Initializing"]
           k == current[1].key
<1>1. engine = "table" /\ engine' = "idle" /\ UNCHANGED <<answer, idxs, nodeCh, early>>
  BY DEF InsertIndex, nodeVars
<1>2. k \notin DOMAIN entries
  BY <1>1 DEF OwnedInv
<1>3. CASE Insert(e) /\ UNCHANGED tasks
  <2>1. entries' = With(entries, k, e)
    BY <1>3 DEF Insert
  <2>2. e.instance = Len(tasks) /\ e.status = "Initializing"
    OBVIOUS
  <2> HIDE DEF e, k
  <2>3. /\ DOMAIN entries' = DOMAIN entries \cup {k} /\ entries'[k] = e
        /\ \A j \in DOMAIN entries : entries'[j] = entries[j]
    BY <1>2, <2>1 DEF With
  <2>4. Unscanned(Len(tasks)) => Unserved(idxs, nodeCh, Len(nodeCh), k)
    BY <1>1 DEF InsertIndex, TaskAnswers, ScanningInv, k
  <2>5. \A p \in DOMAIN nodeCh : \A j : ~Asked(nodeCh, p, j)
    BY <1>1 DEF QueryInv, Asked
  <2> QED
    BY <1>1, <1>3, <2>2, <2>3, <2>4, <2>5 DEF ScanningInv, Unscanned
<1>4. CASE tasks' = Release(Len(tasks), "none") /\ UNCHANGED entries
  <2>1. \A i \in DOMAIN tasks : tasks'[i].state = tasks[i].state
    BY <1>4, ReleaseKeeps
  <2>2. \A j \in DOMAIN entries : tasks'[entries[j].instance].state = tasks[entries[j].instance].state
    BY <2>1 DEF OwnedInv
  <2> QED
    BY <1>1, <1>4, <2>2 DEF ScanningInv, Unscanned
<1> QED
  BY <1>3, <1>4 DEF InsertIndex, indexesVars

\* One step per action.
LEMMA ScanningNext ==
    ASSUME LifecycleTypes, LifecycleTypes', OwnedInv, QueryInv, ScanningInv, [LifecycleNext]_vars
    PROVE  ScanningInv'
<1> USE NextKeepsTasks DEF nodeVars, indexesVars, engineVars
<1>1. CASE UNCHANGED <<idxs, nodeCh, tasks, early, entries, engine, current, answer>>
  BY <1>1 DEF ScanningInv, Unscanned
<1>2. ASSUME NEW e, Tell(e), e.type \notin {"GetIndexStatus", "FullScanFinished"},
             UNCHANGED <<idxs, tasks, early, entries, engine, current, answer>>
      PROVE  ScanningInv'
  BY <1>2, ScanningTold DEF Tell
<1>3. CASE Connect
  BY <1>2, <1>3 DEF Connect, Event
<1>4. CASE MonitorTick
  BY <1>2, <1>4 DEF MonitorTick, Event
<1>5. CASE AnnounceIndexes
  BY <1>2, <1>5 DEF AnnounceIndexes, Event
<1>6. CASE TakeDelIndex
  BY <1>6, ScanningDel
<1>7. CASE engine = "idle" /\ engine' \in {"idle", "opening"}
           /\ UNCHANGED <<idxs, nodeCh, tasks, early, entries, answer>>
  BY <1>7 DEF ScanningInv, Unscanned
<1>8. CASE TakeAddIndex
  BY <1>7, <1>8 DEF TakeAddIndex
<1>9. CASE GetDbIndex
  BY <1>9, ScanningOpen
<1>10. CASE FailToGetDbIndex
  BY <1>10 DEF FailToGetDbIndex, ScanningInv, Unscanned
<1>11. CASE InsertIndex
  BY <1>11, ScanningInsert
<1>12. CASE UpdateTick
  <2>1. answer' = <<>> /\ \A p \in DOMAIN nodeCh : nodeCh[p].type # "GetIndexStatus"
    BY <1>12 DEF UpdateTick, QueryInv
  <2>2. UNCHANGED <<idxs, tasks, early, entries>> /\ AskNext(DOMAIN entries)
    BY <1>12 DEF UpdateTick
  <2>3. \A k \in DOMAIN entries :
           Unscanned(entries[k].instance) => entries[k].status # "Serving"
    BY DEF ScanningInv, Unscanned
  <2> QED
    BY <2>1, <2>2, <2>3, ScanningAsked
<1>13. CASE StatusAnswered
  <2>1. answer' = <<>> /\ \A p \in DOMAIN nodeCh : nodeCh[p].type # "GetIndexStatus"
    BY <1>13 DEF StatusAnswered, QueryInv
  <2>2. UNCHANGED <<idxs, tasks, early>> /\ AskNext(asking) /\ engine = "asked"
    BY <1>13 DEF StatusAnswered
  <2>3. PICK j \in Keys : current = <<j>>
    BY <2>2 DEF LifecycleTypes, EngineTypes
  <2>4. PICK a \in Answers : answer = <<a>>
    BY <1>13 DEF StatusAnswered, LifecycleTypes, NodeTypes
  <2>5. ASSUME NEW k \in DOMAIN entries, Unscanned(entries[k].instance)
        PROVE  entries'[k].status # "Serving"
    <3>1. entries[k].status # "Serving" /\ (current = <<k>> => answer # <<"Serving">>)
      BY <2>2, <2>5 DEF ScanningInv, Unscanned
    <3>2. CASE k = j
      BY <1>13, <2>3, <2>4, <3>1, <3>2, AnsweredEntries
    <3>3. CASE k # j
      BY <1>13, <2>3, <3>1, <3>3, AnsweredEntries
    <3> QED
      BY <3>2, <3>3
  <2>6. /\ DOMAIN entries' = DOMAIN entries
        /\ \A k \in DOMAIN entries : entries'[k].instance = entries[k].instance
    BY <1>13, AnsweredEntries
  <2> QED
    BY <2>1, <2>2, <2>5, <2>6, ScanningAsked
<1>14. ASSUME NEW i \in DOMAIN tasks, StartScan(i) PROVE ScanningInv'
  <2> DEFINE e == Event("FullScanStarted", tasks[i].meta)
  <2>1. /\ nodeCh' = Append(nodeCh, e) /\ UNCHANGED <<idxs, entries, engine, current, answer>>
        /\ TaskStep(i, "starting", "scanning") /\ UNCHANGED early
    BY <1>14 DEF StartScan, TaskStep, Tell
  <2>2. e.type = "FullScanStarted" /\ e.of = tasks[i].meta
    BY DEF Event
  <2> HIDE DEF e
  <2>3. /\ Len(tasks') = Len(tasks)
        /\ \A j \in DOMAIN tasks : j # i => tasks'[j].state = tasks[j].state
    BY <2>1, StepKeeps, SameTasks
  <2> QED
    BY <2>1, <2>2, <2>3, ScanningTold
<1>15. ASSUME NEW i \in DOMAIN tasks, FinishScan(i) PROVE ScanningInv'
  <2> DEFINE e == Event("FullScanFinished", tasks[i].meta)
  <2>1. /\ nodeCh' = Append(nodeCh, e) /\ UNCHANGED <<idxs, entries, engine, current, answer>>
        /\ TaskStep(i, "scanning", "finished")
        /\ early' = early \cup {j \in DOMAIN tasks \ {i} :
              tasks[j].meta.key = tasks[i].meta.key /\ tasks[j].state # "starting"}
    BY <1>15 DEF FinishScan, TaskStep, Tell
  <2>2. e.type = "FullScanFinished" /\ e.of = tasks[i].meta
    BY DEF Event
  <2> HIDE DEF e
  <2>3. /\ Len(tasks') = Len(tasks) /\ tasks'[i].state = "finished"
        /\ \A j \in DOMAIN tasks : j # i => tasks'[j].state = tasks[j].state
    BY <2>1, StepKeeps, SameTasks
  <2>4. \A j \in DOMAIN tasks : tasks'[j].state # "starting" => tasks[j].state # "starting"
    BY <2>1, <2>3 DEF TaskStep
  <2>5. \A j \in DOMAIN tasks : tasks[j].meta.key = e.of.key /\ tasks[j].state # "starting" =>
           j \in early' \/ tasks'[j].state = "finished"
    BY <2>1, <2>2, <2>3
  <2>6. early \subseteq early'
    BY <2>1
  <2> QED
    BY <2>1, <2>2, <2>3, <2>4, <2>5, <2>6, ScanningTold
<1>16. ASSUME NEW i \in DOMAIN tasks, CancelScan(i) PROVE ScanningInv'
  <2>1. /\ UNCHANGED <<idxs, nodeCh, early, entries, engine, current, answer>>
        /\ TaskStep(i, "scanning", "cancelled") /\ tasks[i].state = "scanning"
    BY <1>16 DEF CancelScan, TaskStep
  <2>2. /\ Len(tasks') = Len(tasks)
        /\ \A j \in DOMAIN tasks : /\ j # i => tasks'[j].state = tasks[j].state
                                   /\ tasks'[i].state = "cancelled"
    BY <2>1, StepKeeps, SameTasks
  <2>3. \A k \in DOMAIN entries : entries[k].instance \in DOMAIN tasks
    BY DEF OwnedInv
  <2>4. engine = "table" => Len(tasks) \in DOMAIN tasks
    BY DEF OwnedInv
  <2> QED
    BY <2>1, <2>2, <2>3, <2>4 DEF ScanningInv, Unscanned
<1>17. CASE NodeStep
  BY <1>17, ScanningHandled
<1> QED
  BY <1>1, <1>3, <1>4, <1>5, <1>6, <1>8, <1>9, <1>10, <1>11, <1>12, <1>13, <1>14, <1>15, <1>16, <1>17
     DEF LifecycleNext, Monitor, Engine, Tasks, vars, CreateIndex, DropIndex, ChangeSchema,
         CancelSession, ReloadFlags, GetIndexes, FailToGetIndexes, AddIndex, IndexAdded, FinishRound

(* An index serves only after its own scan has finished or, while that scan *)
(* went on, one that a dropped index of the same name had left behind, for  *)
(* every number of indexes that are dropped and created again under the     *)
(* same names, and however far node_state and the tasks of dropped indexes  *)
(* are behind (engine.rs, node_state.rs).                                   *)
THEOREM IndexesServeAfterScan == LifecycleSpec => []ServedAfterScan
<1>1. LifecycleInit => LifecycleTypes /\ ServedInv
  BY TypesInit, ServedInit
<1>2. (LifecycleTypes /\ ServedInv) /\ [LifecycleNext]_vars => (LifecycleTypes /\ ServedInv)'
  BY TypesNext, OwnedNext, QueryNext, ScanningNext DEF ServedInv
<1>3. ServedInv => ServedAfterScan
  BY DEF ServedInv, ScanningInv, Unscanned, ServedAfterScan
<1> QED
  BY <1>1, <1>2, <1>3, PTL DEF LifecycleSpec

-----------------------------------------------------------------------------
(* The routing groups                                                       *)

RetainedStep(s, k, F, n) == IF s[n] = k THEN F[n - 1] ELSE Append(F[n - 1], s[n])

\* What the recursive function of Retained computes, step by step.
LEMMA RetainedRecursion ==
  ASSUME NEW S, NEW s \in Seq(S), NEW k
  PROVE \E F \in [0..Len(s) -> Seq(S)] : 
     /\ Retained(s, k) = F[Len(s)] 
     /\ F[0] = <<>>
     /\ \A n \in 1..Len(s) : F[n] = RetainedStep(s, k, F, n)
<1> DEFINE N == Len(s)
           Good(G, m) == G[0] = <<>> /\ \A n \in 1..m : G[n] = RetainedStep(s, k, G, n)
           T == {m \in 0..N : \E G \in [0..m -> Seq(S)] : Good(G, m)}
<1>1. N \in Nat /\ \A n \in 1..N : s[n] \in S
  OBVIOUS
<1> HIDE DEF N
<1>0. \A n \in 0..(N - 1) : n \in 0..n /\ n + 1 \in 1..N /\ n + 1 \in 0..N /\ (n + 1) - 1 = n /\ n + 1 # 0 /\ 0 \in 0..n
  BY <1>1
<1>2. 0 \in T
  <2> DEFINE G == [i \in 0..0 |-> <<>>]
  <2>1. G \in [0..0 -> Seq(S)] /\ Good(G, 0)
    OBVIOUS
  <2> HIDE DEF G
  <2> QED
    BY <1>1, <2>1
<1>3. ASSUME NEW m \in 0..(N - 1), m \in T PROVE m + 1 \in T
  <2>1. PICK G \in [0..m -> Seq(S)] : Good(G, m)
    BY <1>3
  <2> DEFINE H == [n \in 0..(m + 1) |-> IF n = m + 1 THEN RetainedStep(s, k, G, m + 1) ELSE G[n]]
  <2>2. RetainedStep(s, k, G, m + 1) \in Seq(S)
    <3>1. G[m] \in Seq(S) /\ s[m + 1] \in S
      BY <1>0, <1>1
    <3> QED
      BY <1>0, <3>1 DEF RetainedStep
  <2>4. H \in [0..(m + 1) -> Seq(S)] 
    <3>1. \A n \in 0..(m + 1) : n # m + 1 => n \in 0..m
      BY <1>1
    <3> QED
      BY <3>1, <2>2
  <2>5. \A n \in 0..m : H[n] = G[n]
    BY <1>1
  <2>6. H[m + 1] = RetainedStep(s, k, G, m + 1)
    BY <1>1
  <2> HIDE DEF H
  <2>7. \A n \in 1..(m + 1) : H[n] = RetainedStep(s, k, H, n)
    <3> TAKE n \in 1..(m + 1)
    <3>1. n - 1 \in 0..m /\ (n = m + 1 \/ n \in 1..m) /\ 1..m \subseteq 0..m
      BY <1>1
    <3>2. H[n - 1] = G[n - 1]
      BY <3>1, <2>5
    <3>3. RetainedStep(s, k, H, n) = RetainedStep(s, k, G, n)
      BY <3>2 DEF RetainedStep
    <3>4. CASE n = m + 1
      BY <2>6, <3>3, <3>4
    <3>5. CASE n \in 1..m
      BY <2>1, <2>5, <3>1, <3>3, <3>5
    <3> QED
      BY <3>1, <3>4, <3>5
  <2>8. Good(H, m + 1)
    BY <1>0, <2>1, <2>5, <2>7
  <2> HIDE DEF Good
  <2> QED
    BY <1>0, <2>4, <2>8
<1>4. N \in T 
  <2>1. \A m \in 0..(N - 1) : m \in T => m + 1 \in T
    BY <1>3
  <2> HIDE DEF T
  <2>2. \A m \in 0..N : m \in T
    BY <1>1, <1>2, <2>1, UpTo
  <2>3. N \in 0..N
    BY <1>1
  <2> QED
    BY <2>2, <2>3
<1>5. PICK G \in [0..N -> Seq(S)] : Good(G, N)
  BY <1>4
<1> DEFINE Fix(F) == F = [n \in 0..N |-> IF n = 0 THEN <<>> ELSE IF s[n] = k THEN F[n - 1] ELSE Append(F[n - 1], s[n])]
<1>6. Fix(G) 
  <2>1. G = [n \in 0..N |-> G[n]]
    BY <1>5
  <2>2. \A n \in 0..N : n = 0 \/ n \in 1..N
    BY <1>1
  <2>3. \A n \in 0..N : G[n] = IF n = 0 THEN <<>> ELSE IF s[n] = k THEN G[n - 1] ELSE Append(G[n - 1], s[n])
    BY <1>5, <2>2 DEF RetainedStep
  <2> QED
    BY <2>1, <2>3
<1> DEFINE F == CHOOSE f : Fix(f)
<1>7. Retained(s, k) = F[N]
  BY DEF Retained, N
<1>8. Fix(F) 
  <2> HIDE DEF Fix
  <2> QED
    BY <1>6, Zenon
<1> HIDE DEF F
<1>9. F[0] = <<>> /\ \A n \in 1..N : F[n] = RetainedStep(s, k, F, n)
  <2>1. 0 \in 0..N /\ \A n \in 1..N : n \in 0..N /\ n # 0
    BY <1>1
  <2> QED
    BY <1>8, <2>1 DEF RetainedStep
<1>10. \A n \in 0..N : F[n] \in Seq(S)
  <2> DEFINE U == {n \in 0..N : F[n] \in Seq(S)}
  <2>1. 0 \in U
    <3>1. <<>> \in Seq(S) /\ 0 \in 0..N
      BY <1>1
    <3> QED
      BY <1>9, <3>1
  <2>2. ASSUME NEW n \in 0..(N - 1), n \in U PROVE n + 1 \in U
    <3>1. F[n + 1] = IF s[n + 1] = k THEN F[n] ELSE Append(F[n], s[n + 1])
      BY <1>9, <1>0 DEF RetainedStep
    <3>2. F[n] \in Seq(S) /\ s[n + 1] \in S
      BY <2>2, <1>0, <1>1
    <3>3. F[n + 1] \in Seq(S)
      BY <3>1, <3>2
    <3> QED
      BY <1>0, <3>3
  <2>3. \A n \in 0..(N - 1) : n \in U => n + 1 \in U
    BY <2>2
  <2> HIDE DEF U
  <2>4. \A n \in 0..N : n \in U
    BY <1>1, <2>1, <2>3, UpTo
  <2> QED
    BY <2>4 DEF U
<1>11. F \in [0..N -> Seq(S)]
  BY <1>8, <1>10
<1> HIDE DEF T, Good, Fix
<1>12. \E H \in [0..N -> Seq(S)] : /\ Retained(s, k) = H[N] /\ H[0] = <<>>
                                   /\ \A n \in 1..N : H[n] = RetainedStep(s, k, H, n)
  BY <1>7, <1>9, <1>11
<1> QED
  BY <1>12 DEF N

ListedKeys(s) == {s[i] : i \in DOMAIN s}
NoKeyTwice(s) == \A i, j \in DOMAIN s : s[i] = s[j] => i = j

\* Vec::retain drops the key and keeps the others as they are.
LEMMA RetainedKeys ==
  ASSUME NEW S, NEW s \in Seq(S), NEW k
  PROVE /\ Retained(s, k) \in Seq(S)
        /\ ListedKeys(Retained(s, k)) = ListedKeys(s) \ {k}
        /\ NoKeyTwice(s) => NoKeyTwice(Retained(s, k))
<1> DEFINE N == Len(s)
<1>1. PICK F \in [0..N -> Seq(S)] :
     /\ Retained(s, k) = F[N] 
     /\ F[0] = <<>>
     /\ \A n \in 1..N : F[n] = RetainedStep(s, k, F, n)
  BY RetainedRecursion
<1>2. N \in Nat /\ DOMAIN s = 1..N /\ \A n \in 1..N : s[n] \in S
  OBVIOUS
<1> HIDE DEF N
<1> DEFINE Kept(n) == /\ ListedKeys(F[n]) = {s[i] : i \in 1..n} \ {k}
                      /\ NoKeyTwice(s) => NoKeyTwice(F[n])
           T == {n \in 0..N : Kept(n)}
<1>3. 0 \in T
  <2>1. ListedKeys(F[0]) = {} /\ NoKeyTwice(F[0])
    BY <1>1 DEF ListedKeys, NoKeyTwice
  <2> QED
    BY <1>2, <2>1
<1>4. ASSUME NEW n \in 0..(N - 1), n \in T PROVE n + 1 \in T
  <2>1. n + 1 \in 1..N /\ (n + 1) - 1 = n /\ n \in 0..N /\ n + 1 \in 0..N
    BY <1>2
  <2>2. F[n + 1] = IF s[n + 1] = k THEN F[n] ELSE Append(F[n], s[n + 1])
    BY <1>1, <2>1 DEF RetainedStep
  <2>3. F[n] \in Seq(S)
    BY <1>1, <2>1
  <2>4. {s[i] : i \in 1..(n + 1)} = {s[i] : i \in 1..n} \cup {s[n + 1]}
    BY <2>1
  <2>5. CASE s[n + 1] = k
    BY <1>4, <2>1, <2>2, <2>4, <2>5
  <2>6. CASE s[n + 1] # k
    <3> DEFINE A == Append(F[n], s[n + 1])
    <3>1. /\ DOMAIN A = DOMAIN F[n] \cup {Len(F[n]) + 1} /\ A[Len(F[n]) + 1] = s[n + 1]
          /\ \A i \in DOMAIN F[n] : A[i] = F[n][i]
      BY <2>3
    <3> HIDE DEF A
    <3>2. F[n + 1] = A
      BY <2>2, <2>6 DEF A
    <3>3. ListedKeys(A) = ListedKeys(F[n]) \cup {s[n + 1]}
      BY <3>1 DEF ListedKeys
    <3>4. ListedKeys(A) = {s[i] : i \in 1..(n + 1)} \ {k}
      BY <1>4, <2>4, <2>6, <3>3
    <3>5. ASSUME NoKeyTwice(s) PROVE NoKeyTwice(A)
      <4>1. ASSUME NEW i \in 1..n PROVE s[i] # s[n + 1]
        <5>1. i \in DOMAIN s /\ n + 1 \in DOMAIN s /\ i # n + 1
          BY <1>2, <2>1
        <5> QED
          BY <3>5, <5>1 DEF NoKeyTwice
      <4>2. s[n + 1] \notin ListedKeys(F[n])
        BY <1>4, <4>1
      <4>3. NoKeyTwice(F[n])
        BY <1>4, <3>5
      <4> QED
        BY <3>1, <4>2, <4>3 DEF NoKeyTwice, ListedKeys
    <3> QED
      BY <2>1, <3>2, <3>4, <3>5
  <2> QED
    BY <2>5, <2>6
<1>5. N \in T
  <2>1. \A m \in 0..(N - 1) : m \in T => m + 1 \in T
    BY <1>4
  <2> HIDE DEF T
  <2>2. \A m \in 0..N : m \in T
    BY <1>2, <1>3, <2>1, UpTo
  <2> QED
    BY <1>2, <2>2
<1>6. ListedKeys(s) = {s[i] : i \in 1..N}
  BY <1>2 DEF ListedKeys
<1> QED
  BY <1>1, <1>2, <1>5, <1>6

\* The vector indexes of a group.
VsKeys(es, g) == {k \in DOMAIN es : es[k].meta.kind = "vs" /\ es[k].meta.group = g}

\* Each group lists its vector indexes once, and the engine inserts a key that
\* it does not have.
GroupsInv ==
    /\ routing \in [DOMAIN routing -> Seq(Keys)]
    /\ \A k \in DOMAIN entries :
          entries[k].meta.kind = "vs" => entries[k].meta.group \in DOMAIN routing
    /\ \A g \in DOMAIN routing :
          /\ routing[g] # <<>> /\ NoKeyTwice(routing[g])
          /\ ListedKeys(routing[g]) = VsKeys(entries, g)
KeysInv ==
    /\ \A k \in DOMAIN entries : entries[k].meta.key = k
    /\ engine \in {"opening", "table"} => current[1].key \notin DOMAIN entries
RoutingInv == KeysInv /\ GroupsInv

\* A key is appended to a group.
LEMMA AppendedKey ==
    ASSUME NEW S, NEW s \in Seq(S), NEW k \in S, k \notin ListedKeys(s), NoKeyTwice(s)
    PROVE  /\ Append(s, k) \in Seq(S) /\ Append(s, k) # <<>>
           /\ ListedKeys(Append(s, k)) = ListedKeys(s) \cup {k} /\ NoKeyTwice(Append(s, k))
<1> DEFINE A == Append(s, k)
<1>1. /\ A \in Seq(S) /\ A # <<>>
      /\ DOMAIN A = DOMAIN s \cup {Len(s) + 1} /\ A[Len(s) + 1] = k
      /\ \A i \in DOMAIN s : A[i] = s[i]
  OBVIOUS
<1> HIDE DEF A
<1>2. ListedKeys(A) = ListedKeys(s) \cup {k}
  BY <1>1 DEF ListedKeys
<1>3. NoKeyTwice(A)
  BY <1>1 DEF NoKeyTwice, ListedKeys
<1> QED
  BY <1>1, <1>2, <1>3 DEF A

\* An entry is inserted.
LEMMA GroupsInsert ==
    ASSUME GroupsInv, NEW e \in EntryTypes, e.meta.key \notin DOMAIN entries, e.meta.key \in Keys,
           Insert(e)
    PROVE  GroupsInv'
<1> DEFINE k == e.meta.key
           g == e.meta.group
<1>1. /\ DOMAIN entries' = DOMAIN entries \cup {k} /\ entries'[k] = e
      /\ \A j \in DOMAIN entries : entries'[j] = entries[j]
  BY DEF Insert, With
<1>2. \A h : VsKeys(entries', h) = IF e.meta.kind = "vs" /\ h = g THEN VsKeys(entries, h) \cup {k}
                                   ELSE VsKeys(entries, h)
  BY <1>1 DEF VsKeys
<1>3. CASE e.meta.kind # "vs"
  <2>1. routing' = routing
    BY <1>3 DEF Insert
  <2> QED
    BY <1>1, <1>2, <1>3, <2>1 DEF GroupsInv
<1>4. CASE e.meta.kind = "vs" /\ g \in DOMAIN routing
  <2>1. routing' = [routing EXCEPT ![g] = Append(@, k)]
    BY <1>4 DEF Insert
  <2>2. routing[g] \in Seq(Keys) /\ NoKeyTwice(routing[g]) /\ ListedKeys(routing[g]) = VsKeys(entries, g)
    BY <1>4 DEF GroupsInv
  <2>3. k \notin ListedKeys(routing[g])
    BY <2>2 DEF VsKeys
  <2>4. /\ Append(routing[g], k) \in Seq(Keys) /\ Append(routing[g], k) # <<>>
        /\ ListedKeys(Append(routing[g], k)) = ListedKeys(routing[g]) \cup {k}
        /\ NoKeyTwice(Append(routing[g], k))
    BY <2>2, <2>3, AppendedKey
  <2>5. /\ DOMAIN routing' = DOMAIN routing /\ routing'[g] = Append(routing[g], k)
        /\ \A h \in DOMAIN routing \ {g} : routing'[h] = routing[h]
        /\ routing' \in [DOMAIN routing -> Seq(Keys)]
    BY <1>4, <2>1, <2>4 DEF GroupsInv
  <2> HIDE DEF k, g
  <2>6. ASSUME NEW h \in DOMAIN routing'
        PROVE  /\ routing'[h] # <<>> /\ NoKeyTwice(routing'[h])
               /\ ListedKeys(routing'[h]) = VsKeys(entries', h)
    <3>1. CASE h = g
      BY <1>2, <1>4, <2>2, <2>4, <2>5, <3>1
    <3>2. CASE h # g
      BY <1>2, <2>5, <2>6, <3>2 DEF GroupsInv
    <3> QED
      BY <3>1, <3>2
  <2>7. \A j \in DOMAIN entries' :
           entries'[j].meta.kind = "vs" => entries'[j].meta.group \in DOMAIN routing'
    BY <1>1, <1>4, <2>5 DEF GroupsInv, g
  <2> QED
    BY <2>5, <2>6, <2>7 DEF GroupsInv
<1>5. CASE e.meta.kind = "vs" /\ g \notin DOMAIN routing
  <2>1. routing' = With(routing, g, <<k>>)
    BY <1>5 DEF Insert
  <2>2. VsKeys(entries, g) = {}
    BY <1>5 DEF VsKeys, GroupsInv
  <2>3. /\ <<k>> \in Seq(Keys) /\ <<k>> # <<>> /\ ListedKeys(<<k>>) = {k} /\ NoKeyTwice(<<k>>)
    BY DEF ListedKeys, NoKeyTwice
  <2>4. /\ DOMAIN routing' = DOMAIN routing \cup {g} /\ routing'[g] = <<k>>
        /\ \A h \in DOMAIN routing : routing'[h] = routing[h]
        /\ routing' \in [DOMAIN routing \cup {g} -> Seq(Keys)]
    BY <1>5, <2>1, <2>3 DEF GroupsInv, With
  <2> HIDE DEF k, g
  <2>5. ASSUME NEW h \in DOMAIN routing'
        PROVE  /\ routing'[h] # <<>> /\ NoKeyTwice(routing'[h])
               /\ ListedKeys(routing'[h]) = VsKeys(entries', h)
    <3>1. CASE h = g
      BY <1>2, <1>5, <2>2, <2>3, <2>4, <3>1
    <3>2. CASE h # g
      BY <1>2, <2>4, <2>5, <3>2 DEF GroupsInv
    <3> QED
      BY <3>1, <3>2
  <2>6. \A j \in DOMAIN entries' :
           entries'[j].meta.kind = "vs" => entries'[j].meta.group \in DOMAIN routing'
    BY <1>1, <1>5, <2>4 DEF GroupsInv, g
  <2> QED
    BY <2>4, <2>5, <2>6 DEF GroupsInv
<1> QED
  BY <1>3, <1>4, <1>5

\* An entry is removed.
LEMMA GroupsRemove ==
    ASSUME GroupsInv, NEW k, RemoveKey(k)
    PROVE  GroupsInv'
<1>1. CASE k \notin DOMAIN entries
  BY <1>1 DEF RemoveKey, ContainsKey, indexesVars, GroupsInv
<1>2. CASE k \in DOMAIN entries
  <2> DEFINE g == entries[k].meta.group
             left == Retained(routing[g], k)
  <2>1. /\ DOMAIN entries' = DOMAIN entries \ {k}
        /\ \A j \in DOMAIN entries' : entries'[j] = entries[j]
        /\ routing' = RoutingWithout(k)
    BY <1>2 DEF RemoveKey, ContainsKey, Without
  <2>2. \A h : VsKeys(entries', h) =
                 IF entries[k].meta.kind = "vs" /\ h = g THEN VsKeys(entries, h) \ {k}
                 ELSE VsKeys(entries, h)
    BY <2>1 DEF VsKeys
  <2>3. CASE entries[k].meta.kind # "vs"
    <3>1. routing' = routing
      BY <2>1, <2>3 DEF RoutingWithout
    <3> QED
      BY <2>1, <2>2, <2>3, <3>1 DEF GroupsInv
  <2>4. CASE entries[k].meta.kind = "vs"
    <3>1. /\ g \in DOMAIN routing /\ routing[g] \in Seq(Keys) /\ NoKeyTwice(routing[g])
          /\ ListedKeys(routing[g]) = VsKeys(entries, g)
      BY <1>2, <2>4 DEF GroupsInv
    <3>2. /\ left \in Seq(Keys) /\ ListedKeys(left) = ListedKeys(routing[g]) \ {k} /\ NoKeyTwice(left)
      BY <3>1, RetainedKeys
    <3>3. left = <<>> => ListedKeys(left) = {}
      BY DEF ListedKeys
    <3>4. routing' = IF left = <<>> THEN Without(routing, g) ELSE [routing EXCEPT ![g] = left]
      BY <2>1, <2>4 DEF RoutingWithout
    <3> HIDE DEF left
    <3>5. CASE left = <<>>
      <4>1. /\ DOMAIN routing' = DOMAIN routing \ {g}
            /\ \A h \in DOMAIN routing' : routing'[h] = routing[h]
            /\ routing' \in [DOMAIN routing' -> Seq(Keys)]
        BY <3>4, <3>5 DEF Without, GroupsInv
      <4>2. VsKeys(entries', g) = {}
        BY <2>2, <2>4, <3>1, <3>2, <3>3, <3>5
      <4>3. \A h \in DOMAIN routing' :
               /\ routing'[h] # <<>> /\ NoKeyTwice(routing'[h])
               /\ ListedKeys(routing'[h]) = VsKeys(entries', h)
        BY <2>2, <4>1 DEF GroupsInv
      <4>4. ASSUME NEW j \in DOMAIN entries', entries'[j].meta.kind = "vs"
            PROVE  entries'[j].meta.group \in DOMAIN routing'
        <5>1. entries'[j].meta.group # g
          BY <4>2, <4>4 DEF VsKeys
        <5> QED
          BY <2>1, <4>1, <4>4, <5>1 DEF GroupsInv
      <4> QED
        BY <4>1, <4>3, <4>4 DEF GroupsInv
    <3>6. CASE left # <<>>
      <4>1. /\ DOMAIN routing' = DOMAIN routing /\ routing'[g] = left
            /\ \A h \in DOMAIN routing \ {g} : routing'[h] = routing[h]
            /\ routing' \in [DOMAIN routing -> Seq(Keys)]
        BY <3>1, <3>2, <3>4, <3>6 DEF GroupsInv
      <4> HIDE DEF g
      <4>2. ASSUME NEW h \in DOMAIN routing'
            PROVE  /\ routing'[h] # <<>> /\ NoKeyTwice(routing'[h])
                   /\ ListedKeys(routing'[h]) = VsKeys(entries', h)
        <5>1. CASE h = g
          BY <2>2, <2>4, <3>1, <3>2, <3>6, <4>1, <5>1
        <5>2. CASE h # g
          BY <2>2, <4>1, <4>2, <5>2 DEF GroupsInv
        <5> QED
          BY <5>1, <5>2
      <4>3. \A j \in DOMAIN entries' :
               entries'[j].meta.kind = "vs" => entries'[j].meta.group \in DOMAIN routing'
        BY <2>1, <4>1 DEF GroupsInv
      <4> QED
        BY <4>1, <4>2, <4>3 DEF GroupsInv
    <3> QED
      BY <3>5, <3>6
  <2> QED
    BY <2>3, <2>4
<1> QED
  BY <1>1, <1>2

\* An entry changes its status.
LEMMA GroupsStatus ==
    ASSUME GroupsInv, KeysInv, LifecycleTypes, NEW k, NEW s, SetStatus(k, s)
    PROVE  /\ GroupsInv' /\ DOMAIN entries' = DOMAIN entries
           /\ \A j \in DOMAIN entries : entries'[j].meta = entries[j].meta
<1>1. /\ DOMAIN entries' = DOMAIN entries /\ routing' = routing
      /\ \A j \in DOMAIN entries : entries'[j].meta = entries[j].meta
  BY DEF SetStatus, LifecycleTypes, EngineTypes, EntryTypes
<1>2. \A h : VsKeys(entries', h) = VsKeys(entries, h)
  BY <1>1 DEF VsKeys
<1> QED
  BY <1>1, <1>2 DEF GroupsInv

\* The engine inserts an entry, or the index could not be made.
LEMMA RoutingInsert ==
    ASSUME LifecycleTypes, RoutingInv, InsertIndex
    PROVE  RoutingInv'
<1>1. engine' = "idle" /\ engine = "table"
  BY DEF InsertIndex
<1>2. CASE UNCHANGED indexesVars
  BY <1>1, <1>2 DEF RoutingInv, KeysInv, GroupsInv, indexesVars
<1>3. CASE Insert([meta |-> current[1], instance |-> Len(tasks), status |-> "Initializing"])
  <2> DEFINE e == [meta |-> current[1], instance |-> Len(tasks), status |-> "Initializing"]
  <2>1. PICK m \in Metas : current = <<m>>
    BY <1>1 DEF LifecycleTypes, EngineTypes
  <2>2. Len(tasks) \in Nat
    BY DEF LifecycleTypes, EngineTypes
  <2>3. /\ e \in EntryTypes /\ e.meta = m /\ m.key \in Keys
    BY <2>1, <2>2 DEF EntryTypes, IndexStatus, Keys
  <2>4. Insert(e)
    BY <1>3
  <2> HIDE DEF e
  <2>5. m.key \notin DOMAIN entries
    BY <1>1, <2>1 DEF RoutingInv, KeysInv
  <2>6. GroupsInv'
    BY <2>3, <2>4, <2>5, GroupsInsert DEF RoutingInv
  <2>7. \A k \in DOMAIN entries' : entries'[k].meta.key = k
    BY <2>3, <2>4 DEF Insert, With, RoutingInv, KeysInv
  <2> QED
    BY <1>1, <2>6, <2>7 DEF RoutingInv, KeysInv
<1> QED
  BY <1>2, <1>3 DEF InsertIndex

\* Only the engine changes entries and groups.
LEMMA RoutingNext ==
    ASSUME LifecycleTypes, RoutingInv, [LifecycleNext]_vars
    PROVE  RoutingInv'
<1> USE DEF indexesVars, engineVars
<1>1. CASE UNCHANGED <<entries, routing, engine, current>>
  BY <1>1 DEF RoutingInv, KeysInv, GroupsInv
<1>2. CASE TakeDelIndex
  <2>1. /\ engine = "idle" /\ engine' = engine
        /\ RemoveKey(Head(engineCh).meta.key)
    BY <1>2 DEF TakeDelIndex
  <2>2. GroupsInv'
    BY <2>1, GroupsRemove DEF RoutingInv
  <2>3. \A k \in DOMAIN entries' : entries'[k].meta.key = k
    BY <2>1 DEF RemoveKey, Without, RoutingInv, KeysInv
  <2> QED
    BY <2>1, <2>2, <2>3 DEF RoutingInv, KeysInv
<1>3. CASE TakeAddIndex
  <2>1. engine = "idle" /\ UNCHANGED <<entries, routing>>
    BY <1>3 DEF TakeAddIndex
  <2>2. CASE UNCHANGED <<engine, current>>
    BY <2>1, <2>2 DEF RoutingInv, KeysInv, GroupsInv
  <2>3. CASE /\ Head(engineCh).meta.key \notin DOMAIN entries
             /\ engine' = "opening" /\ current' = <<Head(engineCh).meta>>
    BY <2>1, <2>3 DEF RoutingInv, KeysInv, GroupsInv
  <2> QED
    BY <1>3, <2>2, <2>3 DEF TakeAddIndex, ContainsKey
<1>4. CASE GetDbIndex
  BY <1>4 DEF GetDbIndex, RoutingInv, KeysInv, GroupsInv
<1>5. CASE FailToGetDbIndex
  BY <1>5 DEF FailToGetDbIndex, RoutingInv, KeysInv, GroupsInv
<1>6. CASE InsertIndex
  BY <1>6, RoutingInsert
<1>7. CASE UpdateTick
  BY <1>7 DEF UpdateTick, AskNext, RoutingInv, KeysInv, GroupsInv
<1>8. CASE StatusAnswered
  <2>1. engine' \in {"idle", "asked"}
    BY <1>8 DEF StatusAnswered, AskNext
  <2>2. CASE UNCHANGED indexesVars
    BY <2>1, <2>2 DEF RoutingInv, KeysInv, GroupsInv
  <2>3. CASE SetStatus(current[1], answer[1])
    <3>1. /\ GroupsInv' /\ DOMAIN entries' = DOMAIN entries
          /\ \A j \in DOMAIN entries : entries'[j].meta = entries[j].meta
      BY <2>3, GroupsStatus DEF RoutingInv
    <3> QED
      BY <2>1, <3>1 DEF RoutingInv, KeysInv
  <2> QED
    BY <1>8, <2>2, <2>3 DEF StatusAnswered
<1> QED
  BY <1>1, <1>2, <1>3, <1>4, <1>5, <1>6, <1>7, <1>8
     DEF LifecycleNext, Monitor, Engine, Tasks, vars, CreateIndex, DropIndex, ChangeSchema, Connect,
         CancelSession, ReloadFlags, MonitorTick, GetIndexes, FailToGetIndexes, AnnounceIndexes,
         AddIndex, IndexAdded, FinishRound, NodeStep, StartScan, FinishScan, CancelScan, TaskStep

\* A sequence that lists no key twice has as many keys as it is long.
LEMMA ListedOnce ==
    ASSUME NEW S, NEW s \in Seq(S), NoKeyTwice(s)
    PROVE  Cardinality(ListedKeys(s)) = Len(s)
<1>1. Len(s) \in Nat /\ DOMAIN s = 1..Len(s)
  OBVIOUS
<1>2. IsFiniteSet(1..Len(s)) /\ Cardinality(1..Len(s)) = Len(s)
  BY <1>1, FS_Interval
<1>3. s \in Bijection(1..Len(s), ListedKeys(s))
  BY <1>1 DEF Bijection, Injection, Surjection, IsInjective, ListedKeys, NoKeyTwice
<1>4. ExistsBijection(1..Len(s), ListedKeys(s))
  BY <1>3 DEF ExistsBijection
<1>5. Cardinality(ListedKeys(s)) = Cardinality(1..Len(s))
  BY <1>2, <1>4, FS_Bijection
<1> QED
  BY <1>2, <1>5

\* The groups are those that best_index relies on.
LEMMA RoutingHolds == RoutingInv => RoutingConsistent
<1> SUFFICES ASSUME RoutingInv PROVE RoutingConsistent
  OBVIOUS
<1>1. ASSUME NEW g \in DOMAIN routing
      PROVE  /\ routing[g] # <<>>
             /\ Cardinality({routing[g][i] : i \in DOMAIN routing[g]}) = Len(routing[g])
             /\ {routing[g][i] : i \in DOMAIN routing[g]} =
                {k \in DOMAIN entries : /\ entries[k].meta.kind = "vs"
                                        /\ entries[k].meta.group = g}
  <2>1. /\ routing[g] \in Seq(Keys) /\ routing[g] # <<>> /\ NoKeyTwice(routing[g])
        /\ ListedKeys(routing[g]) = VsKeys(entries, g)
    BY DEF RoutingInv, GroupsInv
  <2>2. Cardinality(ListedKeys(routing[g])) = Len(routing[g])
    BY <2>1, ListedOnce
  <2> QED
    BY <2>1, <2>2 DEF ListedKeys, VsKeys
<1> QED
  BY <1>1 DEF RoutingConsistent, RoutingInv, GroupsInv

\* There is no entry and no group at the start.
LEMMA RoutingInit == LifecycleInit => RoutingInv
BY DEF LifecycleInit, IndexesInit, RoutingInv, KeysInv, GroupsInv

-----------------------------------------------------------------------------
(* The list of indexes is that of one version                               *)

Listed(list) == {FromTables(i) : i \in list}
Left(S, todo) == {Described(S, i.name) : i \in {j \in todo : Supported(S, j.name)}}

\* What is listed, what is at hand and what is still to be read make the list.
Covers(S, list, D, todo) == Snapshot(S) = Listed(list) \cup D \cup Left(S, todo)

\* An index as list_indexes gives it, of the schema S.
IsRow(S, i) ==
    /\ {"name", "table", "kind", "alternator", "key"} \subseteq DOMAIN i
    /\ i.name \in DOMAIN S.indexes
    /\ i.table = S.indexes[i.name].table /\ i.kind = S.indexes[i.name].kind
    /\ i.alternator = S.indexes[i.name].alternator
IsVersioned(S, i) ==
    IsRow(S, i) /\ "version" \in DOMAIN i /\ i.version = S.indexes[i.name].version
IsMeasured(S, i) ==
    /\ IsVersioned(S, i)
    /\ i.kind = "vs" => "dimensions" \in DOMAIN i /\ i.dimensions = Described(S, i.name).dimensions

\* A round in which every answer was that of the schema S.
RoundExact(S, r) ==
    /\ \A i \in r.todo : IsRow(S, i)
    /\ r.step = "list" => r.list = {}
    /\ r.step = "version" => Covers(S, r.list, {}, r.todo)
    /\ r.step = "dimensions" =>
          /\ IsVersioned(S, r.index) /\ r.index.kind = "vs"
          /\ Covers(S, r.list, Left(S, {r.index}), r.todo)
    /\ r.step = "params" =>
          /\ IsMeasured(S, r.index)
          /\ Covers(S, r.list, {Described(S, r.index.name)}, r.todo)
    /\ r.step = "valid" => Covers(S, r.list, {FromTables(r.index)}, r.todo)
    /\ r.step = "end" => Listed(r.list) = Snapshot(S)

ReadingSteps == {"list", "version", "dimensions", "params", "valid"}
RoundFields == {"step", "unasked", "todo", "index", "list"}

\* Some node is past the version of the round, and the check at the end has
\* still to ask such a node: the round cannot succeed.
Overtaken(r) ==
    \E n \in DbNodes : applied[n] > lastVersion /\ (r.step = "end" => n \in r.unasked)

\* DiscoveredExact is not inductive: the list of a round is exact only when no
\* node went on while it was read, which nobody knows before the end.
DiscoveryInv ==
    /\ applied \in [DbNodes -> Nat] /\ lastVersion \in Nat
    /\ DOMAIN round = RoundFields
    /\ round.step \in {"idle", "start", "end"} \cup ReadingSteps
    /\ round.step = "start" => \A n \in DbNodes \ round.unasked : applied[n] >= lastVersion
    /\ round.step \in {"end"} \cup ReadingSteps =>
          /\ \A n \in DbNodes : applied[n] >= lastVersion
          /\ Overtaken(round) \/ RoundExact(Schemas[lastVersion], round)
    /\ DiscoveredExact

\* A record with one field more.
LEMMA WithFieldGets ==
    ASSUME NEW f, NEW x, NEW v
    PROVE  /\ DOMAIN WithField(f, x, v) = DOMAIN f \cup {x} /\ WithField(f, x, v)[x] = v
           /\ \A y \in DOMAIN f \ {x} : WithField(f, x, v)[y] = f[y]
BY DEF WithField

\* The row of an index stays that row when it gets a field.
LEMMA RowGets ==
    ASSUME NEW S, NEW i, NEW x \in {"version", "dimensions", "options"}, NEW v, IsRow(S, i)
    PROVE  /\ IsRow(S, WithField(i, x, v))
           /\ \A y \in {"name", "table", "kind", "alternator"} : WithField(i, x, v)[y] = i[y]
<1> DEFINE w == WithField(i, x, v)
<1>1. DOMAIN w = DOMAIN i \cup {x} /\ \A y \in DOMAIN i \ {x} : w[y] = i[y]
  BY DEF WithField
<1> HIDE DEF w
<1>2. \A y \in {"name", "table", "kind", "alternator"} : w[y] = i[y]
  BY <1>1 DEF IsRow
<1>3. IsRow(S, w)
  BY <1>1, <1>2 DEF IsRow
<1> QED
  BY <1>2, <1>3 DEF w

\* The round goes on to the next index, or to the check at the end.
LEMMA NextIndexExact ==
    ASSUME NEW S, NEW r, DOMAIN r = RoundFields
    PROVE  /\ DOMAIN NextIndex(r) = RoundFields /\ NextIndex(r).step \in {"version", "end"}
           /\ NextIndex(r).step = "end" => NextIndex(r).unasked = DbNodes
           /\ (\A i \in r.todo : IsRow(S, i)) /\ Covers(S, r.list, {}, r.todo) =>
                 RoundExact(S, NextIndex(r))
<1> DEFINE q == NextIndex(r)
<1>1. CASE r.todo = {}
  <2>1. /\ DOMAIN q = RoundFields /\ q.step = "end" /\ q.unasked = DbNodes
        /\ q.todo = {} /\ q.list = r.list
    BY <1>1 DEF NextIndex, RoundFields
  <2> HIDE DEF q
  <2>2. Covers(S, r.list, {}, r.todo) => RoundExact(S, q)
    BY <1>1, <2>1 DEF RoundExact, Covers, Left
  <2> QED
    BY <2>1, <2>2 DEF q
<1>2. CASE r.todo # {}
  <2>1. /\ DOMAIN q = RoundFields /\ q.step = "version" /\ q.todo = r.todo /\ q.list = r.list
    BY <1>2 DEF NextIndex, RoundFields
  <2> HIDE DEF q
  <2>2. (\A i \in r.todo : IsRow(S, i)) /\ Covers(S, r.list, {}, r.todo) => RoundExact(S, q)
    BY <1>2, <2>1 DEF RoundExact
  <2> QED
    BY <2>1, <2>2 DEF q
<1> QED
  BY <1>1, <1>2

\* A query that node n answers moves the round on: either n is past the
\* version, and the round is lost, or the answer is that of the version.
LEMMA AnswerMoves ==
    ASSUME DiscoveryInv, NEW n \in DbNodes, NEW r, Proceed(r),
           round.step \in ReadingSteps, DOMAIN r = RoundFields, r.step \in ReadingSteps \cup {"end"},
           r.step = "end" => r.unasked = DbNodes,
           applied[n] = lastVersion /\ RoundExact(Schemas[lastVersion], round) =>
               RoundExact(Schemas[lastVersion], r)
    PROVE  DiscoveryInv'
<1>1. round' = r /\ UNCHANGED <<applied, lastVersion, discovered>>
  BY DEF Proceed, databaseVars
<1>2. \A m \in DbNodes : applied[m] \in Nat /\ applied[m] >= lastVersion
  BY DEF DiscoveryInv
<1>3. Overtaken(round) => Overtaken(r)
  BY DEF Overtaken
<1>4. applied[n] # lastVersion => Overtaken(r)
  BY <1>2 DEF Overtaken, DiscoveryInv
<1>5. Overtaken(r) \/ RoundExact(Schemas[lastVersion], r)
  BY <1>3, <1>4 DEF DiscoveryInv
<1>6. (Overtaken(round) \/ RoundExact(Schemas[lastVersion], round))'
  BY <1>1, <1>5 DEF Overtaken
<1>7. DiscoveredExact'
  BY <1>1 DEF DiscoveryInv, DiscoveredExact
<1> QED
  BY <1>1, <1>2, <1>6, <1>7 DEF DiscoveryInv, ReadingSteps

\* A round that ends leaves what was announced.
LEMMA RoundFails ==
    ASSUME DiscoveryInv, FailRound, UNCHANGED applied
    PROVE  DiscoveryInv'
<1>1. round' = Idle /\ lastVersion' = 0 /\ discovered' = discovered
  BY DEF FailRound
<1>2. round'.step = "idle" /\ DOMAIN round' = RoundFields
  BY <1>1 DEF Idle, RoundFields
<1>3. DiscoveredExact'
  BY <1>1 DEF DiscoveryInv, DiscoveredExact
<1> QED
  BY <1>1, <1>2, <1>3 DEF DiscoveryInv, ReadingSteps

\* The rows of the indexes make a list of their own.
LEMMA ListedRows ==
    ASSUME DiscoveryInv, NEW n \in DbNodes, ListIndexes(n)
    PROVE  DiscoveryInv'
<1>1. CASE RefreshAndFail
  BY <1>1, RoundFails DEF RefreshAndFail
<1>2. CASE ~RefreshAndFail
  <2> DEFINE S == Served(n)
             Row(i) == [name |-> i, table |-> S.indexes[i].table, kind |-> S.indexes[i].kind,
                        alternator |-> S.indexes[i].alternator, key |-> KeyOf(S.indexes[i].table)]
             T == {Row(i) : i \in DOMAIN S.indexes}
             r == [round EXCEPT !.todo = T]
  <2>1. round.step = "list" /\ Proceed(NextIndex(r))
    BY <1>2 DEF ListIndexes
  <2>2. \A i \in DOMAIN S.indexes : IsRow(S, Row(i)) /\ Row(i).name = i
    BY DEF IsRow
  <2>3. \A i \in T : IsRow(S, i)
    BY <2>2
  <2>4. Left(S, T) = Snapshot(S)
    BY <2>2 DEF Left, Snapshot
  <2>5. DOMAIN r = RoundFields /\ r.todo = T /\ r.list = round.list
    BY DEF DiscoveryInv, RoundFields
  <2> HIDE DEF r, T
  <2>6. /\ DOMAIN NextIndex(r) = RoundFields /\ NextIndex(r).step \in {"version", "end"}
        /\ NextIndex(r).step = "end" => NextIndex(r).unasked = DbNodes
        /\ (\A i \in r.todo : IsRow(S, i)) /\ Covers(S, r.list, {}, r.todo) =>
              RoundExact(S, NextIndex(r))
    BY <2>5, NextIndexExact
  <2>7. ASSUME applied[n] = lastVersion, RoundExact(Schemas[lastVersion], round)
        PROVE  RoundExact(Schemas[lastVersion], NextIndex(r))
    <3>1. S = Schemas[lastVersion]
      BY <2>7 DEF Served
    <3>2. round.list = {}
      BY <2>1, <2>7 DEF RoundExact
    <3>3. Covers(S, r.list, {}, r.todo)
      BY <2>4, <2>5, <3>2 DEF Covers, Listed
    <3> QED
      BY <2>3, <2>5, <2>6, <3>1, <3>3
  <2> QED
    BY <2>1, <2>6, <2>7, AnswerMoves DEF ReadingSteps
<1> QED
  BY <1>1, <1>2

\* The index at hand is taken off what is still to be read.
LEMMA TakenOff ==
    ASSUME NEW S, NEW list, NEW todo, NEW i \in todo, Covers(S, list, {}, todo)
    PROVE  Covers(S, list, Left(S, {i}), todo \ {i})
<1>1. Left(S, todo) = Left(S, {i}) \cup Left(S, todo \ {i})
  BY DEF Left
<1> QED
  BY <1>1 DEF Covers

\* What is left of one index.
LEMMA LeftOne ==
    ASSUME NEW S, NEW i
    PROVE  /\ Supported(S, i.name) => Left(S, {i}) = {Described(S, i.name)}
           /\ ~Supported(S, i.name) => Left(S, {i}) = {}
           /\ \A j : j.name = i.name => Left(S, {j}) = Left(S, {i})
BY DEF Left

\* The version of an index is read.
LEMMA VersionRead ==
    ASSUME DiscoveryInv, NEW n \in DbNodes, NEW i \in round.todo, ReadIndexVersion(n, i)
    PROVE  DiscoveryInv'
<1>1. CASE FailRound /\ UNCHANGED databaseVars
  BY <1>1, RoundFails DEF databaseVars
<1>2. CASE ~(FailRound /\ UNCHANGED databaseVars)
  <2> DEFINE x == WithField(i, "version", IndexRow(n, i).version)
             r == [round EXCEPT !.step = IF i.kind = "vs" THEN "dimensions" ELSE "params",
                                !.todo = @ \ {i}, !.index = x]
             S == Schemas[lastVersion]
  <2>1. round.step = "version" /\ Proceed(r)
    BY <1>2 DEF ReadIndexVersion
  <2>2. /\ DOMAIN r = RoundFields /\ r.step = IF i.kind = "vs" THEN "dimensions" ELSE "params"
        /\ r.todo = round.todo \ {i} /\ r.index = x /\ r.list = round.list
    BY DEF DiscoveryInv, RoundFields
  <2> HIDE DEF r
  <2>3. ASSUME applied[n] = lastVersion, RoundExact(S, round)
        PROVE  RoundExact(S, r)
    <3>1. IsRow(S, i) /\ Covers(S, round.list, {}, round.todo)
      BY <2>1, <2>3 DEF RoundExact
    <3>2. IndexRow(n, i) = S.indexes[i.name]
      BY <2>3 DEF IndexRow, Served
    <3>3. IsRow(S, x) /\ \A y \in {"name", "table", "kind", "alternator"} : x[y] = i[y]
      BY <3>1, RowGets
    <3>4. "version" \in DOMAIN x /\ x.version = S.indexes[i.name].version
      BY <3>2 DEF WithField
    <3> HIDE DEF x, S
    <3>5. IsVersioned(S, x) /\ x.name = i.name /\ x.kind = i.kind
      BY <3>3, <3>4 DEF IsVersioned
    <3>6. Covers(S, r.list, Left(S, {x}), r.todo)
      <4>1. Covers(S, round.list, Left(S, {i}), round.todo \ {i})
        BY <3>1, TakenOff
      <4>2. Left(S, {x}) = Left(S, {i})
        BY <3>5, LeftOne
      <4> QED
        BY <2>2, <4>1, <4>2
    <3>7. \A j \in r.todo : IsRow(S, j)
      BY <2>2, <2>3 DEF RoundExact
    <3>8. CASE i.kind = "vs"
      BY <2>2, <3>5, <3>6, <3>7, <3>8 DEF RoundExact
    <3>9. CASE i.kind # "vs"
      <4>1. Supported(S, x.name) /\ IsMeasured(S, x)
        BY <3>5, <3>9 DEF Supported, IsMeasured, IsVersioned, IsRow
      <4>2. Left(S, {x}) = {Described(S, x.name)}
        BY <4>1, LeftOne
      <4> QED
        BY <2>2, <3>6, <3>7, <3>9, <4>1, <4>2 DEF RoundExact
    <3> QED
      BY <3>8, <3>9
  <2>4. r.step \in ReadingSteps \cup {"end"} /\ r.step # "end"
    BY <2>2 DEF ReadingSteps
  <2>5. round.step \in ReadingSteps
    BY <2>1 DEF ReadingSteps
  <2> QED
    BY <2>1, <2>2, <2>3, <2>4, <2>5, AnswerMoves
<1> QED
  BY <1>1, <1>2

\* The dimensions that a node of the version of the round gives.
LEMMA DimensionsOf ==
    ASSUME NEW n \in DbNodes, NEW i, IsVersioned(Served(n), i), i.kind = "vs",
           TargetDimensions(n, i) # <<>>
    PROVE  TargetDimensions(n, i) = <<Described(Served(n), i.name).dimensions>>
BY DEF TargetDimensions, Described, IsVersioned, IsRow, IndexRow

\* The dimensions of a vector index are read.
LEMMA DimensionsRead ==
    ASSUME DiscoveryInv, NEW n \in DbNodes, ReadDimensions(n)
    PROVE  DiscoveryInv'
<1> DEFINE d == TargetDimensions(n, round.index)
           S == Schemas[lastVersion]
<1>1. round.step = "dimensions" /\ round.step \in ReadingSteps
  BY DEF ReadDimensions, ReadingSteps
<1>2. ASSUME d # <<>>, applied[n] = lastVersion, RoundExact(S, round)
      PROVE  /\ IsVersioned(S, round.index) /\ round.index.kind = "vs"
             /\ Covers(S, round.list, Left(S, {round.index}), round.todo)
             /\ \A i \in round.todo : IsRow(S, i)
             /\ d = <<Described(S, round.index.name).dimensions>>
             /\ S.indexes[round.index.name].kind = "vs"
  <2>1. /\ IsVersioned(S, round.index) /\ round.index.kind = "vs"
        /\ Covers(S, round.list, Left(S, {round.index}), round.todo)
        /\ \A i \in round.todo : IsRow(S, i)
    BY <1>1, <1>2 DEF RoundExact
  <2>2. S = Served(n)
    BY <1>2 DEF Served
  <2>3. d = <<Described(S, round.index.name).dimensions>>
    BY <1>2, <2>1, <2>2, DimensionsOf
  <2> QED
    BY <2>1, <2>3 DEF IsVersioned, IsRow
<1>3. CASE d = <<>> /\ FailRound /\ UNCHANGED <<databaseVars, discoveryFaults>>
  BY <1>3, RoundFails DEF databaseVars
<1>4. CASE d = <<0>> /\ Proceed(NextIndex(round))
  <2>1. DOMAIN round = RoundFields
    BY DEF DiscoveryInv
  <2>2. /\ DOMAIN NextIndex(round) = RoundFields /\ NextIndex(round).step \in {"version", "end"}
        /\ NextIndex(round).step = "end" => NextIndex(round).unasked = DbNodes
        /\ (\A i \in round.todo : IsRow(S, i)) /\ Covers(S, round.list, {}, round.todo) =>
              RoundExact(S, NextIndex(round))
    BY <2>1, NextIndexExact
  <2>3. ASSUME applied[n] = lastVersion, RoundExact(S, round)
        PROVE  RoundExact(S, NextIndex(round))
    <3>1. Described(S, round.index.name).dimensions = 0
      BY <1>2, <1>4, <2>3
    <3>2. ~Supported(S, round.index.name)
      BY <1>2, <1>4, <2>3, <3>1 DEF Supported
    <3>3. Left(S, {round.index}) = {}
      BY <3>2, LeftOne
    <3> QED
      BY <1>2, <1>4, <2>2, <2>3, <3>3
  <2>4. NextIndex(round).step \in ReadingSteps \cup {"end"}
    BY <2>2 DEF ReadingSteps
  <2> HIDE DEF d, S
  <2> QED
    BY <1>1, <1>4, <2>2, <2>3, <2>4, AnswerMoves DEF S
<1>5. CASE /\ d \notin {<<>>, <<0>>}
           /\ Proceed([round EXCEPT !.step = "params", !.index = WithField(@, "dimensions", d[1])])
  <2> DEFINE x == WithField(round.index, "dimensions", d[1])
             r == [round EXCEPT !.step = "params", !.index = x]
  <2>1. /\ DOMAIN r = RoundFields /\ r.step = "params" /\ r.index = x
        /\ r.todo = round.todo /\ r.list = round.list
    BY DEF DiscoveryInv, RoundFields
  <2>2. Proceed(r)
    BY <1>5 DEF DiscoveryInv, RoundFields
  <2> HIDE DEF r
  <2>3. ASSUME applied[n] = lastVersion, RoundExact(S, round)
        PROVE  RoundExact(S, r)
    <3>0. d # <<>> /\ d # <<0>>
      BY <1>5
    <3>1. /\ IsVersioned(S, round.index) /\ round.index.kind = "vs"
          /\ Covers(S, round.list, Left(S, {round.index}), round.todo)
          /\ \A i \in round.todo : IsRow(S, i)
          /\ d = <<Described(S, round.index.name).dimensions>>
      BY <1>2, <2>3, <3>0
    <3>2. IsRow(S, x) /\ \A y \in {"name", "table", "kind", "alternator"} : x[y] = round.index[y]
      BY <3>1, RowGets DEF IsVersioned
    <3>3. /\ "dimensions" \in DOMAIN x /\ x.dimensions = d[1]
          /\ "version" \in DOMAIN x /\ x.version = round.index.version
      BY <3>1 DEF WithField, IsVersioned
    <3>4. d[1] = Described(S, round.index.name).dimensions /\ d[1] # 0
      BY <3>0, <3>1
    <3> HIDE DEF x, d, S
    <3>5. IsMeasured(S, x) /\ x.name = round.index.name
      BY <3>1, <3>2, <3>3, <3>4 DEF IsMeasured, IsVersioned
    <3>6. Supported(S, round.index.name)
      BY <3>4 DEF Supported
    <3>7. Left(S, {round.index}) = {Described(S, x.name)}
      BY <3>5, <3>6, LeftOne
    <3> QED
      BY <2>1, <3>1, <3>5, <3>7 DEF RoundExact
  <2>4. r.step \in ReadingSteps \cup {"end"} /\ r.step # "end"
    BY <2>1 DEF ReadingSteps
  <2> HIDE DEF d, x, S
  <2> QED
    BY <1>1, <2>1, <2>2, <2>3, <2>4, AnswerMoves DEF S
<1> QED
  BY <1>3, <1>4, <1>5 DEF ReadDimensions

\* The options of an index are read.
LEMMA ParamsRead ==
    ASSUME DiscoveryInv, NEW n \in DbNodes, ReadParams(n)
    PROVE  DiscoveryInv'
<1> DEFINE S == Schemas[lastVersion]
           o == IF HasIndexRow(n, round.index) THEN IndexRow(n, round.index).options ELSE Default
           x == WithField(round.index, "options", o)
           r == [round EXCEPT !.step = "valid", !.index = x]
<1>1. round.step = "params" /\ round.step \in ReadingSteps
  BY DEF ReadParams, ReadingSteps
<1>2. /\ DOMAIN r = RoundFields /\ r.step = "valid" /\ r.index = x
      /\ r.todo = round.todo /\ r.list = round.list
  BY DEF DiscoveryInv, RoundFields
<1>3. Proceed(r)
  BY DEF ReadParams, DiscoveryInv, RoundFields
<1> HIDE DEF r
<1>4. ASSUME applied[n] = lastVersion, RoundExact(S, round)
      PROVE  RoundExact(S, r)
  <2>1. /\ IsMeasured(S, round.index) /\ \A i \in round.todo : IsRow(S, i)
        /\ Covers(S, round.list, {Described(S, round.index.name)}, round.todo)
    BY <1>1, <1>4 DEF RoundExact
  <2>2. o = S.indexes[round.index.name].options
    BY <1>4, <2>1 DEF HasIndexRow, IndexRow, Served, IsMeasured, IsVersioned, IsRow
  <2>3. IsRow(S, x) /\ \A y \in {"name", "table", "kind", "alternator"} : x[y] = round.index[y]
    BY <2>1, RowGets DEF IsMeasured, IsVersioned
  <2>4. /\ x.options = o /\ x.version = round.index.version
        /\ x.kind = "vs" => x.dimensions = round.index.dimensions
    BY <2>1, <2>3 DEF WithField, IsMeasured, IsVersioned
  <2> HIDE DEF x, o
  <2>5. FromTables(x) = Described(S, x.name)
    BY <2>1, <2>2, <2>3, <2>4 DEF FromTables, Described, IsMeasured, IsVersioned, IsRow
  <2>6. x.name = round.index.name
    BY <2>3
  <2> HIDE DEF S
  <2> QED
    BY <1>2, <2>1, <2>5, <2>6 DEF RoundExact
<1>5. r.step \in ReadingSteps \cup {"end"} /\ r.step # "end"
  BY <1>2 DEF ReadingSteps
<1> HIDE DEF S
<1> QED
  BY <1>1, <1>2, <1>3, <1>4, <1>5, AnswerMoves DEF S

\* The index at hand is put on the list, or the round is over.
LEMMA IndexValidated ==
    ASSUME DiscoveryInv, ValidateIndex
    PROVE  DiscoveryInv'
<1>1. CASE RefreshAndFail
  BY <1>1, RoundFails DEF RefreshAndFail
<1>2. CASE ~RefreshAndFail
  <2> DEFINE S == Schemas[lastVersion]
             r == [round EXCEPT !.list = @ \cup {round.index}]
  <2>1. round.step = "valid" /\ Proceed(NextIndex(r))
    BY <1>2 DEF ValidateIndex
  <2>2. DOMAIN r = RoundFields /\ r.list = round.list \cup {round.index} /\ r.todo = round.todo
    BY DEF DiscoveryInv, RoundFields
  <2> HIDE DEF r
  <2>3. /\ DOMAIN NextIndex(r) = RoundFields /\ NextIndex(r).step \in {"version", "end"}
        /\ NextIndex(r).step = "end" => NextIndex(r).unasked = DbNodes
        /\ (\A i \in r.todo : IsRow(S, i)) /\ Covers(S, r.list, {}, r.todo) =>
              RoundExact(S, NextIndex(r))
    BY <2>2, NextIndexExact
  <2>4. ASSUME RoundExact(S, round) PROVE RoundExact(S, NextIndex(r))
    <3>1. /\ Covers(S, round.list, {FromTables(round.index)}, round.todo)
          /\ \A i \in round.todo : IsRow(S, i)
      BY <2>1, <2>4 DEF RoundExact
    <3>2. Listed(r.list) = Listed(round.list) \cup {FromTables(round.index)}
      BY <2>2 DEF Listed
    <3> QED
      BY <2>2, <2>3, <3>1, <3>2 DEF Covers
  <2>5. /\ round.step \in ReadingSteps /\ NextIndex(r).step \in ReadingSteps \cup {"end"}
    BY <2>1, <2>3 DEF ReadingSteps
  <2>6. round' = NextIndex(r) /\ UNCHANGED <<applied, lastVersion, discovered>>
    BY <2>1 DEF Proceed, databaseVars
  <2>7. Overtaken(round) => Overtaken(NextIndex(r))
    BY <2>3 DEF Overtaken
  <2>8. (Overtaken(round) \/ RoundExact(Schemas[lastVersion], round))'
    BY <2>4, <2>5, <2>6, <2>7 DEF DiscoveryInv, Overtaken
  <2>9. DiscoveredExact'
    BY <2>6 DEF DiscoveryInv, DiscoveredExact
  <2> QED
    BY <2>3, <2>5, <2>6, <2>8, <2>9 DEF DiscoveryInv, ReadingSteps
<1> QED
  BY <1>1, <1>2

\* A node applies the next version: who was past the version of the round
\* still is.
LEMMA SchemaApplied ==
    ASSUME DiscoveryInv, NEW n \in DbNodes, ApplySchema(n)
    PROVE  DiscoveryInv'
<1>1. /\ applied' \in [DbNodes -> Nat] /\ UNCHANGED <<round, lastVersion, discovered>>
      /\ \A m \in DbNodes : applied'[m] \in Nat /\ applied[m] \in Nat /\ applied'[m] >= applied[m]
  BY DEF ApplySchema, DiscoveryInv
<1>2. lastVersion \in Nat
  BY DEF DiscoveryInv
<1>3. (\E m \in DbNodes : applied[m] > lastVersion /\ (round.step = "end" => m \in round.unasked)) =>
      (\E m \in DbNodes : applied'[m] > lastVersion /\ (round.step = "end" => m \in round.unasked))
  BY <1>1, <1>2
<1>4. Overtaken(round) => Overtaken(round)'
  BY <1>1, <1>3 DEF Overtaken
<1>5. \A m \in DbNodes : applied[m] >= lastVersion => applied'[m] >= lastVersion
  BY <1>1, <1>2
<1>6. DiscoveredExact'
  BY <1>1 DEF DiscoveryInv, DiscoveredExact
<1> QED
  BY <1>1, <1>4, <1>5, <1>6 DEF DiscoveryInv

\* A node is asked for its version at the start or at the end.
LEMMA NodeAsked ==
    ASSUME DiscoveryInv, NEW n \in DbNodes, AskNode(n)
    PROVE  DiscoveryInv'
<1>1. /\ round.step \in {"start", "end"} /\ applied[n] = lastVersion
      /\ round' = [round EXCEPT !.unasked = @ \ {n}] /\ UNCHANGED <<applied, lastVersion, discovered>>
  BY DEF AskNode, Agrees, Proceed, databaseVars
<1>2. /\ DOMAIN round' = RoundFields /\ round'.step = round.step
      /\ round'.unasked = round.unasked \ {n} /\ round'.todo = round.todo
      /\ round'.index = round.index /\ round'.list = round.list
  BY <1>1 DEF DiscoveryInv, RoundFields
<1>3. lastVersion \in Nat /\ \A m \in DbNodes : applied[m] \in Nat
  BY DEF DiscoveryInv
<1>4. Overtaken(round) => Overtaken(round)'
  BY <1>1, <1>2, <1>3 DEF Overtaken
<1>5. RoundExact(Schemas[lastVersion], round) => RoundExact(Schemas[lastVersion], round)'
  BY <1>1, <1>2 DEF RoundExact
<1>6. DiscoveredExact'
  BY <1>1 DEF DiscoveryInv, DiscoveredExact
<1>7. round.step = "start" => \A m \in DbNodes \ round'.unasked : applied[m] >= lastVersion
  BY <1>1, <1>2, <1>3 DEF DiscoveryInv
<1> QED
  BY <1>1, <1>2, <1>4, <1>5, <1>6, <1>7 DEF DiscoveryInv

\* The last node agrees at the start.
LEMMA AgreedAtStart ==
    ASSUME DiscoveryInv, NEW n \in DbNodes, IsValidSchemaAtStart(n)
    PROVE  DiscoveryInv'
<1>1. /\ round.step = "start" /\ applied[n] = lastVersion /\ round.unasked = {n}
      /\ round' = [Idle EXCEPT !.step = "list"] /\ UNCHANGED <<applied, lastVersion, discovered>>
  BY DEF IsValidSchemaAtStart, Agrees, Agreed, Proceed, databaseVars
<1>2. DOMAIN round' = RoundFields /\ round'.step = "list" /\ round'.todo = {} /\ round'.list = {}
  BY <1>1 DEF Idle, RoundFields
<1>3. \A m \in DbNodes : applied[m] >= lastVersion
  BY <1>1 DEF DiscoveryInv
<1>4. RoundExact(Schemas[lastVersion], round)'
  BY <1>1, <1>2 DEF RoundExact
<1>5. DiscoveredExact'
  BY <1>1 DEF DiscoveryInv, DiscoveredExact
<1> QED
  BY <1>1, <1>2, <1>3, <1>4, <1>5 DEF DiscoveryInv, ReadingSteps

\* The last node agrees at the end: no node was past the version, so that the
\* list is exact.
LEMMA AgreedAtEnd ==
    ASSUME DiscoveryInv, NEW n \in DbNodes, IsValidSchemaAtEnd(n)
    PROVE  DiscoveryInv'
<1>1. /\ round.step = "end" /\ applied[n] = lastVersion /\ round.unasked = {n}
      /\ round' = Idle /\ UNCHANGED <<applied, lastVersion>>
      /\ discovered' = <<[version |-> lastVersion, list |-> round.list]>>
  BY DEF IsValidSchemaAtEnd, Agrees, Agreed, databaseVars
<1>2. ~Overtaken(round)
  BY <1>1 DEF Overtaken, DiscoveryInv
<1>3. Listed(round.list) = Snapshot(Schemas[lastVersion])
  BY <1>1, <1>2 DEF DiscoveryInv, RoundExact
<1>4. DiscoveredExact'
  BY <1>1, <1>3 DEF DiscoveredExact, Listed
<1>5. round'.step = "idle" /\ DOMAIN round' = RoundFields
  BY <1>1 DEF Idle, RoundFields
<1> QED
  BY <1>1, <1>4, <1>5 DEF DiscoveryInv, ReadingSteps

\* A round starts with a version that it has not seen.
LEMMA RoundStarts ==
    ASSUME DiscoveryInv, NEW n \in DbNodes, ReadSchemaVersion(n)
    PROVE  DiscoveryInv'
<1>1. /\ lastVersion' = applied[n] /\ round' = [Idle EXCEPT !.step = "start", !.unasked = DbNodes]
      /\ UNCHANGED <<applied, discovered>>
  BY DEF ReadSchemaVersion, databaseVars
<1>2. round'.step = "start" /\ DOMAIN round' = RoundFields /\ round'.unasked = DbNodes
  BY <1>1 DEF Idle, RoundFields
<1>3. lastVersion' \in Nat
  BY <1>1 DEF DiscoveryInv
<1>4. DiscoveredExact'
  BY <1>1 DEF DiscoveryInv, DiscoveredExact
<1> QED
  BY <1>1, <1>2, <1>3, <1>4 DEF DiscoveryInv, ReadingSteps

\* One step per action of Discovery.
LEMMA DiscoveryStep ==
    ASSUME DiscoveryInv, [DiscoveryNext]_discoveryVars
    PROVE  DiscoveryInv'
<1>1. CASE UNCHANGED <<applied, lastVersion, round, discovered>>
  BY <1>1 DEF DiscoveryInv, Overtaken, DiscoveredExact
<1>2. ASSUME NEW n \in DbNodes, ApplySchema(n) PROVE DiscoveryInv'
  BY <1>2, SchemaApplied
<1>3. ASSUME NEW n \in DbNodes, ReadSchemaVersion(n) PROVE DiscoveryInv'
  BY <1>3, RoundStarts
<1>4. ASSUME NEW n \in DbNodes, AskNode(n) PROVE DiscoveryInv'
  BY <1>4, NodeAsked
<1>5. ASSUME NEW n \in DbNodes, IsValidSchemaAtStart(n) PROVE DiscoveryInv'
  BY <1>5, AgreedAtStart
<1>6. ASSUME NEW n \in DbNodes, IsValidSchemaAtEnd(n) PROVE DiscoveryInv'
  BY <1>6, AgreedAtEnd
<1>7. ASSUME NEW n \in DbNodes, NotAgreed(n) PROVE DiscoveryInv'
  BY <1>7, RoundFails DEF NotAgreed, databaseVars
<1>8. ASSUME NEW n \in DbNodes, ListIndexes(n) PROVE DiscoveryInv'
  BY <1>8, ListedRows
<1>9. ASSUME NEW n \in DbNodes, NEW i \in round.todo, ReadIndexVersion(n, i) PROVE DiscoveryInv'
  BY <1>9, VersionRead
<1>10. ASSUME NEW n \in DbNodes, ReadDimensions(n) PROVE DiscoveryInv'
  BY <1>10, DimensionsRead
<1>11. ASSUME NEW n \in DbNodes, ReadParams(n) PROVE DiscoveryInv'
  BY <1>11, ParamsRead
<1>12. CASE ValidateIndex
  BY <1>12, IndexValidated
<1>13. CASE QueryFails
  BY <1>13, RoundFails DEF QueryFails, databaseVars
<1>14. CASE AlterSchema \/ RefreshView \/ LoseConnection \/ Reconnect \/ UNCHANGED discoveryVars
  BY <1>1, <1>14 DEF AlterSchema, RefreshView, LoseConnection, Reconnect, discoveryVars
<1> QED
  BY <1>2, <1>3, <1>4, <1>5, <1>6, <1>7, <1>8, <1>9, <1>10, <1>11, <1>12, <1>13, <1>14
     DEF DiscoveryNext, Round

\* Nothing is announced at the start.
LEMMA DiscoveryStarts == DiscoveryInit => DiscoveryInv
BY DEF DiscoveryInit, DiscoveryInv, Idle, RoundFields, ReadingSteps, DiscoveredExact

(* What a node takes from the schema is whole, for every sequence of       *)
(* schemas, every number of nodes of the database and however they lag: a  *)
(* list that is announced is that of one version (get_indexes of           *)
(* monitor_indexes.rs), and the groups by which requests are routed list   *)
(* every vector index once (indexes.rs).                                   *)
THEOREM ListsWhole == LifecycleSpec /\ DiscoverySpec => []ListsConsistent
<1>1. LifecycleInit => LifecycleTypes /\ RoutingInv
  BY TypesInit, RoutingInit
<1>2. (LifecycleTypes /\ RoutingInv) /\ [LifecycleNext]_vars => (LifecycleTypes /\ RoutingInv)'
  BY TypesNext, RoutingNext
<1>3. DiscoveryInit => DiscoveryInv
  BY DiscoveryStarts
<1>4. DiscoveryInv /\ [DiscoveryNext]_discoveryVars => DiscoveryInv'
  BY DiscoveryStep
<1>5. RoutingInv /\ DiscoveryInv => ListsConsistent
  BY RoutingHolds DEF DiscoveryInv, ListsConsistent
<1> QED
  BY <1>1, <1>2, <1>3, <1>4, <1>5, PTL DEF LifecycleSpec, DiscoverySpec
=============================================================================
