------------------------------ MODULE Usearch ------------------------------
(***************************************************************************)
(* The actor of an in-memory vector index (vs_index/usearch.rs).  It takes *)
(* searches and modifications from two channels, resolves the partition,   *)
(* and hands each to the pool of workers under a permit: adds may run      *)
(* together and so may searches, a removal and a reservation run alone.    *)
(* Before an add it makes sure that the partition has room for every add   *)
(* on its way.                                                             *)
(*                                                                         *)
(* Module Pipeline takes this actor for a queue whose messages take effect *)
(* one by one, and a search for a look at the partition at the moment the  *)
(* search is received; here is why it may.                                 *)
(*                                                                         *)
(* The index library is external: a partition is a set of ids with a       *)
(* capacity, an add beyond the capacity is refused, and any change may     *)
(* fail.  Memory is sequentially consistent.                               *)
(***************************************************************************)
EXTENDS Integers, Sequences, FiniteSetsExt

CONSTANTS
  PartitionId,   \* ids of partitions
  Worker,        \* the workers of the pool
  None,
  ChannelSize,   \* slots of every channel (perf::channel_size)
  Increment,     \* RESERVE_INCREMENT_GLOBAL or RESERVE_INCREMENT_LOCAL
  MaxModify,     \* bound: modifications that are sent
  MaxObject,     \* bound: partition objects that are created
  MaxFailures    \* bound: failures of the library

ASSUME UsearchAssumption ==
  /\ IsFiniteSet(PartitionId)
  /\ IsFiniteSet(Worker) /\ Worker # {}
  /\ None \notin PartitionId
  /\ ChannelSize \in Nat \ {0}
  /\ Increment \in Nat \ {0}
  /\ MaxModify \in Nat
  /\ MaxObject \in Nat
  /\ MaxFailures \in Nat
  /\ None \notin Nat
  /\ None \notin [kind : {"Insert", "Remove", "Search", "Reserve"}, object : Nat,
                  id : Nat \union {None}, snapshot : SUBSET Nat]

VectorId == 1 .. MaxModify
Object == 1 .. MaxObject

VARIABLES
  rx_modify,    \* the channel of modifications
  rx_search,    \* the channel of searches
  sent,         \* number of modifications sent
  live,         \* history: partition id -> ids sent to it and not removed
  partitions,   \* partition id -> its object (an Arc), or None
  objects,      \* object -> its size, capacity and content
  created,      \* number of objects created
  count,        \* IndexState::size, the vectors of all partitions
  failures,     \* number of failures of the library
  mode,         \* Operation::mode
  counter,      \* Operation::counter, the permits that are out
  notify,       \* a notification that Operation::notify stores
  pc,           \* where the actor is
  task,         \* the task the actor is dispatching
  channel,      \* the channel to the workers
  running,      \* worker -> the task it runs
  notifying,    \* workers about to notify
  expected      \* history: object -> its content if every modification took
                \* effect when it is received

actorVars == <<pc, task>>
permitVars == <<mode, counter, notify>>
workerVars == <<channel, running, notifying>>
inputVars == <<rx_modify, rx_search, sent, live>>
libraryVars == <<objects, count, failures>>
indexVars == <<partitions, created, expected, libraryVars>>
usearchVars == <<actorVars, permitVars, workerVars, inputVars, indexVars>>

Task(kind, object, id, snapshot) ==
  [kind |-> kind, object |-> object, id |-> id, snapshot |-> snapshot]

-----------------------------------------------------------------------------
(* Clients: monitor-items and the searches.  What the table promises of    *)
(* its operations: an add brings an id that was never used (an epoch), a   *)
(* removal names one that was added, and a partition is removed when       *)
(* nothing is left in it.                                                  *)

SendModify(op, p, id) ==
  /\ sent < MaxModify
  /\ Len(rx_modify) < ChannelSize
  /\ rx_modify' = Append(rx_modify, [op |-> op, partition |-> p, id |-> id])
  /\ sent' = sent + 1
  /\ UNCHANGED <<rx_search, actorVars, permitVars, workerVars, indexVars>>

SendAdd(p) ==
  /\ SendModify("Insert", p, sent + 1)
  /\ live' = [live EXCEPT ![p] = @ \union {sent + 1}]

SendRemove(p) ==
  \E id \in live[p] :
    /\ SendModify("Remove", p, id)
    /\ live' = [live EXCEPT ![p] = @ \ {id}]

SendRemovePartition(p) ==
  /\ live[p] = {}
  /\ SendModify("RemovePartition", p, None)
  /\ UNCHANGED live

SendSearch(p) ==
  /\ Len(rx_search) < ChannelSize
  /\ rx_search' = Append(rx_search, p)
  /\ UNCHANGED <<rx_modify, sent, live, actorVars, permitVars, workerVars, indexVars>>

-----------------------------------------------------------------------------
(* Room for the adds on their way.                                         *)

\* Mutant: the check forgets the adds that wait in the channel.
FreeThresholdOfWorkers == Cardinality(Worker) + 1
FreeThreshold == ChannelSize + Cardinality(Worker) + 1

\* needs_more_capacity, with its saturating subtraction.
NeedsMoreCapacity(o) ==
  LET free == objects[o].capacity - objects[o].size
  IN (IF free > 0 THEN free ELSE 0) < FreeThreshold

-----------------------------------------------------------------------------
(* The actor: recv and preprocess.                                         *)

Dispatch(t) ==
  /\ task' = t
  /\ pc' = IF t.kind = "Insert" /\ NeedsMoreCapacity(t.object)
           THEN "reserve" ELSE "permit"

\* A search is taken before any modification (biased select).  It is answered
\* at once when its partition does not exist.
ReceiveSearch ==
  LET o == partitions[Head(rx_search)]
  IN /\ pc = "recv"
     /\ rx_search # <<>>
     /\ rx_search' = Tail(rx_search)
     /\ IF o = None THEN UNCHANGED actorVars
        ELSE Dispatch(Task("Search", o, None, expected[o]))
     /\ UNCHANGED <<rx_modify, sent, live, permitVars, workerVars, indexVars>>

TakeModify(op) ==
  /\ pc = "recv"
  /\ rx_search = <<>>
  /\ rx_modify # <<>>
  /\ Head(rx_modify).op = op
  /\ rx_modify' = Tail(rx_modify)
  /\ UNCHANGED <<rx_search, sent, live, permitVars, workerVars>>

ReceiveAdd ==
  LET p == Head(rx_modify).partition
      id == Head(rx_modify).id
      o == IF partitions[p] = None THEN created + 1 ELSE partitions[p]
  IN /\ TakeModify("Insert")
     /\ created' = IF partitions[p] = None THEN created + 1 ELSE created
     /\ created' <= MaxObject
     /\ partitions' = [partitions EXCEPT ![p] = o]
     /\ expected' = [expected EXCEPT ![o] = @ \union {id}]
     /\ UNCHANGED libraryVars
     /\ Dispatch(Task("Insert", o, id, {}))

\* check_memory_allocation: no memory, the add is dropped; so it is when
\* index_fn fails to create the partition.
DropAdd ==
  /\ TakeModify("Insert")
  /\ UNCHANGED <<actorVars, indexVars>>

ReceiveRemove ==
  LET o == partitions[Head(rx_modify).partition]
      id == Head(rx_modify).id
  IN /\ TakeModify("Remove")
     /\ IF o = None THEN UNCHANGED <<actorVars, indexVars>>
        ELSE /\ expected' = [expected EXCEPT ![o] = @ \ {id}]
             /\ UNCHANGED <<partitions, created, libraryVars>>
             /\ Dispatch(Task("Remove", o, id, {}))

\* The object lives on in the tasks that hold it.
ReceiveRemovePartition ==
  /\ TakeModify("RemovePartition")
  /\ partitions' = [partitions EXCEPT ![Head(rx_modify).partition] = None]
  /\ UNCHANGED <<created, expected, libraryVars, actorVars>>

-----------------------------------------------------------------------------
(* The actor: permits.                                                     *)

\* Mutants: searches run with adds; removals run with adds.
ModeOfSearch(t) == IF t.kind = "Search" THEN "Insert" ELSE t.kind
ModeOfModify(t) == IF t.kind = "Remove" THEN "Insert" ELSE t.kind
Mode(t) == t.kind

\* Mutant: removals may run together.
IsExclusiveReserve(m) == m = "Reserve"
IsExclusive(m) == m \in {"Reserve", "Remove"}

\* Operation::permit(m), from one wait to the next.
Permit(m, granted, wait) ==
  /\ UNCHANGED <<notify, workerVars, inputVars, indexVars>>
  /\ mode' = IF counter = 0 THEN m ELSE mode
  /\ \/ /\ mode' = m
        /\ IsExclusive(m) => counter = 0
        /\ counter' = counter + 1
        /\ pc' = granted
     \/ /\ mode' # m \/ (IsExclusive(m) /\ counter # 0)
        /\ UNCHANGED counter
        /\ pc' = wait
  /\ UNCHANGED task

\* Notify::notified registers the actor as waiting, after it has looked at the
\* counter, unless a notification is stored by then.
StartWaiting(loaded, waiting) ==
  /\ pc = loaded
  /\ ~notify
  /\ pc' = waiting
  /\ UNCHANGED <<task, permitVars, workerVars, inputVars, indexVars>>

\* The actor takes the notification and looks at the counter again.
Notified(loaded, waiting, again) ==
  /\ pc \in {loaded, waiting}
  /\ notify
  /\ notify' = FALSE
  /\ pc' = again
  /\ UNCHANGED <<task, mode, counter, workerVars, inputVars, indexVars>>

PermitForReserve == pc = "reserve" /\ Permit("Reserve", "check", "loadedReserve")
PermitForMessage == pc = "permit" /\ Permit(Mode(task), "send", "loaded")

\* The permit is dropped when there is room by now.
SkipReserve ==
  /\ pc = "check"
  /\ ~NeedsMoreCapacity(task.object)
  /\ counter' = counter - 1
  /\ notify' = (notify \/ counter = 1)
  /\ pc' = "permit"
  /\ UNCHANGED <<task, mode, workerVars, inputVars, indexVars>>

SendToWorkers(t) ==
  /\ Len(channel) < ChannelSize
  /\ channel' = Append(channel, t)
  /\ UNCHANGED <<task, permitVars, running, notifying, inputVars, indexVars>>

SendReserve ==
  /\ pc = "check"
  /\ NeedsMoreCapacity(task.object)
  /\ SendToWorkers(Task("Reserve", task.object, objects[task.object].capacity + Increment, {}))
  /\ pc' = "permit"

SendTask ==
  /\ pc = "send"
  /\ SendToWorkers(task)
  /\ pc' = "recv"

-----------------------------------------------------------------------------
(* The workers.                                                            *)

TakeTask(w) ==
  /\ running[w] = None
  /\ w \notin notifying
  /\ channel # <<>>
  /\ running' = [running EXCEPT ![w] = Head(channel)]
  /\ channel' = Tail(channel)
  /\ UNCHANGED <<actorVars, permitVars, notifying, inputVars, indexVars>>

\* reserve, add and remove; a removal of an id that is not there does nothing.
Effect(t) ==
  LET o == objects[t.object]
  IN CASE t.kind = "Reserve" -> [o EXCEPT !.capacity = t.id]
       [] t.kind = "Insert" ->
            IF o.size < o.capacity
            THEN [o EXCEPT !.size = @ + 1, !.content = @ \union {t.id}] ELSE o
       [] t.kind = "Remove" ->
            IF t.id \in o.content
            THEN [o EXCEPT !.size = @ - 1, !.content = @ \ {t.id}] ELSE o
       [] t.kind = "Search" -> o

\* The two counters move together.
\* Mutant: every removal counts.
CountEveryRemoval(t) ==
  IF t.kind = "Remove" THEN count - 1
  ELSE count + Effect(t).size - objects[t.object].size
CountAfter(t) == count + Effect(t).size - objects[t.object].size

\* A task is over and drops its permit: the worker that brings the counter to
\* zero is going to notify.
DropPermit(w) ==
  /\ running' = [running EXCEPT ![w] = None]
  /\ counter' = counter - 1
  /\ notifying' = IF counter = 1 THEN notifying \union {w} ELSE notifying
  /\ UNCHANGED <<mode, notify, actorVars, channel, inputVars,
                 partitions, created, expected>>

FinishTask(w) ==
  /\ running[w] # None
  /\ objects' = [objects EXCEPT ![running[w].object] = Effect(running[w])]
  /\ count' = CountAfter(running[w])
  /\ DropPermit(w)
  /\ UNCHANGED failures

\* The library returns an error, which is logged.
FailTask(w) ==
  /\ running[w] # None
  /\ running[w].kind # "Search"
  /\ failures < MaxFailures
  /\ failures' = failures + 1
  /\ DropPermit(w)
  /\ UNCHANGED <<objects, count>>

\* Mutant: the notification is lost when the actor does not wait yet.
NotifyWaiting(w) ==
  /\ w \in notifying
  /\ notifying' = notifying \ {w}
  /\ notify' = (notify \/ pc \in {"waiting", "waitingReserve"})
  /\ UNCHANGED <<mode, counter, actorVars, channel, running, inputVars, indexVars>>
NotifyOne(w) ==
  /\ w \in notifying
  /\ notifying' = notifying \ {w}
  /\ notify' = TRUE
  /\ UNCHANGED <<mode, counter, actorVars, channel, running, inputVars, indexVars>>

-----------------------------------------------------------------------------
UsearchInit ==
  /\ rx_modify = <<>> /\ rx_search = <<>> /\ sent = 0
  /\ live = [p \in PartitionId |-> {}]
  /\ partitions = [p \in PartitionId |-> None]
  /\ objects = [o \in Object |-> [size |-> 0, capacity |-> 0, content |-> {}]]
  /\ created = 0 /\ count = 0 /\ failures = 0
  /\ mode = "Insert" /\ counter = 0 /\ notify = FALSE
  /\ pc = "recv" /\ task = None
  /\ channel = <<>> /\ running = [w \in Worker |-> None] /\ notifying = {}
  /\ expected = [o \in Object |-> {}]

Receive ==
  \/ ReceiveSearch
  \/ ReceiveAdd
  \/ DropAdd
  \/ ReceiveRemove
  \/ ReceiveRemovePartition

Actor ==
  \/ Receive
  \/ PermitForReserve
  \/ StartWaiting("loadedReserve", "waitingReserve")
  \/ Notified("loadedReserve", "waitingReserve", "reserve")
  \/ SkipReserve
  \/ SendReserve
  \/ PermitForMessage
  \/ StartWaiting("loaded", "waiting")
  \/ Notified("loaded", "waiting", "permit")
  \/ SendTask

WorkerStep(w) == TakeTask(w) \/ FinishTask(w) \/ FailTask(w) \/ NotifyOne(w)

UsearchNext ==
  \/ \E p \in PartitionId :
       SendAdd(p) \/ SendRemove(p) \/ SendRemovePartition(p) \/ SendSearch(p)
  \/ Actor
  \/ \E w \in Worker : WorkerStep(w)

UsearchSpec == UsearchInit /\ [][UsearchNext]_usearchVars

\* The runtime runs the actor and every worker.
FairUsearchSpec ==
  /\ UsearchSpec
  /\ WF_usearchVars(Actor)
  /\ \A w \in Worker : WF_usearchVars(WorkerStep(w))

-----------------------------------------------------------------------------
(* Properties.                                                             *)

Running == {w \in Worker : running[w] # None}
Dispatched ==
  {channel[n] : n \in DOMAIN channel} \union {running[w] : w \in Running}

\* Only adds run together, or only searches; a removal and a reservation run
\* alone.  The library is not safe otherwise (the comment in is_exclusive).
Exclusive ==
  \A v, w \in Running :
    /\ running[v].kind = running[w].kind
    /\ running[v].kind \in {"Reserve", "Remove"} => v = w

\* Every add that reaches the library finds room, however many adds the size
\* of the partition does not show yet: the claim of free_threshold.
RoomForAdds ==
  failures = 0 => \A o \in Object :
    objects[o].size
      + Cardinality({n \in DOMAIN channel :
                       channel[n].kind = "Insert" /\ channel[n].object = o})
      + Cardinality({w \in Running :
                       running[w].kind = "Insert" /\ running[w].object = o})
      <= objects[o].capacity

\* A search that is on its way will find its partition as it was after the
\* modifications received before the search, and none of those after it, even
\* if the partition was removed or replaced meanwhile.
SearchReadsSnapshot ==
  failures = 0 => \A t \in Dispatched :
    t.kind = "Search" => objects[t.object].content = t.snapshot

\* Nothing is in progress, and the library has not failed.
AtRest == pc = "recv" /\ counter = 0 /\ failures = 0

\* When nothing is in progress every modification received has taken effect,
\* in the order of the channel.
EffectsInOrder ==
  AtRest => \A o \in Object :
    /\ objects[o].content = expected[o]
    /\ objects[o].size = Cardinality(expected[o])

\* The answer to Count is the number of vectors in the partitions the actor
\* knows: nothing of a partition that was removed is still counted.
CountExact ==
  AtRest =>
    count = MapThenSumSet(LAMBDA o : objects[o].size,
                          {partitions[p] : p \in PartitionId} \ {None})

\* The actor gets through with every message it takes: no notification is
\* lost, nobody waits for a permit that nobody will drop, though the library
\* fails.
DispatchEnds == pc # "recv" ~> pc = "recv"

=============================================================================
