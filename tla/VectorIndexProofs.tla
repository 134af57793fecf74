------------------------- MODULE VectorIndexProofs -------------------------
(***************************************************************************)
(* Proofs about the vector indexes a node runs itself.                     *)
(*                                                                         *)
(* Usearch, for every number of workers, every size of the channels, every *)
(* increment of the reservations and every sequence of messages:           *)
(* operations that exclude each other never run together, every add finds  *)
(* room, a search reads what was there when it was received, the           *)
(* modifications take effect in the order of the channel, and the count is *)
(* exact.                                                                  *)
(*                                                                         *)
(* DiskANN, for every set of ids, every script of messages and changes,    *)
(* every degree and every number of faults: what an index stores, loads    *)
(* and counts, and how its graph is kept and searched.                     *)
(***************************************************************************)
EXTENDS MCVectorIndexes, FiniteSetTheorems, InductionLemmas, TLAPS

-----------------------------------------------------------------------------
(* Types.                                                                  *)

Kinds == {"Insert", "Remove", "Search", "Reserve"}
TaskType ==
  [kind : Kinds, object : Object, id : Nat \union {None}, snapshot : SUBSET VectorId]
Message ==
  [op : {"Insert", "Remove", "RemovePartition"}, partition : PartitionId,
   id : VectorId \union {None}]
ObjectType == [size : Nat, capacity : Nat, content : SUBSET VectorId]

ReservePc == {"reserve", "loadedReserve", "waitingReserve", "check"}
MessagePc == {"permit", "loaded", "waiting", "send"}

InputTypes ==
  /\ rx_modify \in Seq(Message)
  /\ rx_search \in Seq(PartitionId)
  /\ sent \in 0 .. MaxModify
  /\ live \in [PartitionId -> SUBSET VectorId]

IndexTypes ==
  /\ partitions \in [PartitionId -> Object \union {None}]
  /\ objects \in [Object -> ObjectType]
  /\ expected \in [Object -> SUBSET VectorId]
  /\ created \in 0 .. MaxObject
  /\ failures \in Nat

ActorTypes ==
  /\ pc \in {"recv"} \union ReservePc \union MessagePc
  /\ pc # "recv" => task \in TaskType /\ task.kind # "Reserve"
  /\ pc \in ReservePc => task.kind = "Insert"

WorkerTypes ==
  /\ channel \in Seq(TaskType)
  /\ Len(channel) <= ChannelSize
  /\ running \in [Worker -> TaskType \union {None}]
  /\ mode \in Kinds
  /\ counter \in Nat

UsearchTypes == InputTypes /\ IndexTypes /\ ActorTypes /\ WorkerTypes

-----------------------------------------------------------------------------
(* Permits.  Exclusive is not inductive: that a task may be handed to a    *)
(* worker was decided when the actor got the permit, and what keeps the    *)
(* decision right is that the counter counts the permits that are out.     *)

Held == IF pc \in {"check", "send"} THEN 1 ELSE 0

PermitsCounted == counter = Len(channel) + Cardinality(Running) + Held

OneMode ==
  /\ \A n \in DOMAIN channel : channel[n].kind = mode
  /\ \A w \in Running : running[w].kind = mode
  /\ pc = "check" => mode = "Reserve"
  /\ pc = "send" => mode = Mode(task)

AloneIfExclusive == IsExclusive(mode) => counter <= 1

PermitInv == PermitsCounted /\ OneMode /\ AloneIfExclusive

-----------------------------------------------------------------------------
(* Ids.  An id is added once: it is in the channel of modifications, then  *)
(* with the actor, in the channel to the workers, with a worker and in an  *)
(* object, and never in two of these places.  So every add that succeeds   *)
(* adds one to the size.                                                   *)

ActorAdds == pc # "recv" /\ task.kind = "Insert"
Waiting(n) == n \in DOMAIN rx_modify /\ rx_modify[n].op = "Insert"
Queued(n) == n \in DOMAIN channel /\ channel[n].kind = "Insert"
Adding(w) == w \in Running /\ running[w].kind = "Insert"
Content == UNION {objects[o].content : o \in Object}

SentIds == 1 .. sent

\* What waits is newer than everything the actor has received.
WaitingFresh ==
  /\ \A n \in DOMAIN rx_modify : Waiting(n) => rx_modify[n].id \in SentIds
  /\ \A m, n \in DOMAIN rx_modify :
       Waiting(m) /\ Waiting(n) /\ m < n => rx_modify[m].id < rx_modify[n].id
  /\ \A n \in DOMAIN rx_modify : Waiting(n) =>
       /\ ActorAdds => task.id < rx_modify[n].id
       /\ \A m \in DOMAIN channel : Queued(m) => channel[m].id < rx_modify[n].id
       /\ \A w \in Worker : Adding(w) => running[w].id < rx_modify[n].id
       /\ \A x \in Content : x < rx_modify[n].id

\* What the actor is dispatching is nowhere behind it, and so on.
AddedOnce ==
  /\ ActorAdds =>
       /\ task.id \in SentIds /\ task.id \notin Content
       /\ \A n \in DOMAIN channel : Queued(n) => channel[n].id # task.id
       /\ \A w \in Worker : Adding(w) => running[w].id # task.id
  /\ \A n \in DOMAIN channel : Queued(n) =>
       /\ channel[n].id \in SentIds /\ channel[n].id \notin Content
       /\ \A m \in DOMAIN channel : Queued(m) /\ channel[m].id = channel[n].id => m = n
       /\ \A w \in Worker : Adding(w) => running[w].id # channel[n].id
  /\ \A w \in Worker : Adding(w) =>
       /\ running[w].id \in SentIds /\ running[w].id \notin Content
       /\ \A v \in Worker : Adding(v) /\ running[v].id = running[w].id => v = w
  /\ Content \subseteq SentIds

SizesExact == \A o \in Object : objects[o].size = Cardinality(objects[o].content)

IdsInv == WaitingFresh /\ AddedOnce /\ SizesExact

-----------------------------------------------------------------------------
(* Room.                                                                   *)

QueuedAdds(o) ==
  {n \in DOMAIN channel : channel[n].kind = "Insert" /\ channel[n].object = o}
RunningAdds(o) ==
  {w \in Running : running[w].kind = "Insert" /\ running[w].object = o}
Coming(o) == Cardinality(QueuedAdds(o)) + Cardinality(RunningAdds(o))

Reserving(o) == \E t \in Dispatched : t.kind = "Reserve" /\ t.object = o

\* The add the actor is about to send finds room too, at the latest when the
\* reservation on its way is done.
RoomForNext ==
  failures = 0 /\ ActorAdds /\ pc \in MessagePc =>
    \A o \in Object : o = task.object =>
      objects[o].size + Coming(o) + 1 <= objects[o].capacity \/ Reserving(o)

ReservationsGrow ==
  \A t \in Dispatched : t.kind = "Reserve" =>
    t.id = objects[t.object].capacity + Increment

RoomInv == RoomForAdds /\ RoomForNext /\ ReservationsGrow

-----------------------------------------------------------------------------
(* Effects.  What an object will contain once the tasks on their way are   *)
(* done, and once the actor's own is done after them.                      *)

IdsOf(kind, o) == {t.id : t \in {u \in Dispatched : u.kind = kind /\ u.object = o}}
Settled(o) == (objects[o].content \union IdsOf("Insert", o)) \ IdsOf("Remove", o)
Finally(o) ==
  IF pc # "recv" /\ task.object = o /\ task.kind = "Insert" THEN Settled(o) \union {task.id}
  ELSE IF pc # "recv" /\ task.object = o /\ task.kind = "Remove" THEN Settled(o) \ {task.id}
  ELSE Settled(o)

EffectsDue == failures = 0 => \A o \in Object : expected[o] = Finally(o)
SnapshotTaken ==
  failures = 0 /\ pc # "recv" /\ task.kind = "Search" => task.snapshot = expected[task.object]

EffectsInv == EffectsDue /\ SnapshotTaken /\ SearchReadsSnapshot

UsearchInv == UsearchTypes /\ PermitInv /\ IdsInv /\ RoomInv /\ EffectsInv

-----------------------------------------------------------------------------
(* Lemmas about sequences and the sets of workers.                         *)

\* What a channel is after a message was appended.
LEMMA AppendFacts ==
  ASSUME NEW T, NEW s \in Seq(T), NEW x \in T
  PROVE  /\ Append(s, x) \in Seq(T)
         /\ Len(Append(s, x)) = Len(s) + 1
         /\ \A n \in DOMAIN Append(s, x) :
              \/ n \in DOMAIN s /\ Append(s, x)[n] = s[n]
              \/ n = Len(s) + 1 /\ Append(s, x)[n] = x
         /\ \A n \in DOMAIN s : n \in DOMAIN Append(s, x) /\ Append(s, x)[n] = s[n]
         /\ Len(s) + 1 \in DOMAIN Append(s, x) /\ Append(s, x)[Len(s) + 1] = x
OBVIOUS

\* What a channel is after its first message was taken.
LEMMA TailFacts ==
  ASSUME NEW T, NEW s \in Seq(T), s # <<>>
  PROVE  /\ Tail(s) \in Seq(T)
         /\ Len(Tail(s)) = Len(s) - 1 /\ Len(s) \in Nat /\ Len(s) > 0
         /\ Head(s) \in T /\ 1 \in DOMAIN s /\ Head(s) = s[1]
         /\ \A n \in DOMAIN Tail(s) :
              n \in Nat /\ n + 1 \in DOMAIN s /\ Tail(s)[n] = s[n + 1]
         /\ \A n \in DOMAIN s : n # 1 => n - 1 \in DOMAIN Tail(s) /\ Tail(s)[n - 1] = s[n]
OBVIOUS

\* A set of workers is finite.
LEMMA WorkersFinite ==
  ASSUME UsearchAssumption, NEW S \in SUBSET Worker
  PROVE  IsFiniteSet(S) /\ Cardinality(S) \in Nat /\ Cardinality(S) <= Cardinality(Worker)
         /\ Cardinality(Worker) \in Nat
BY FS_Subset, FS_CardinalityType DEF UsearchAssumption

\* A worker that joins the ones that run.
LEMMA WorkerStarts ==
  ASSUME UsearchAssumption, NEW S \in SUBSET Worker, NEW w \in Worker, w \notin S
  PROVE  Cardinality(S \union {w}) = Cardinality(S) + 1
BY WorkersFinite, FS_AddElement

\* A worker that leaves them.
LEMMA WorkerStops ==
  ASSUME UsearchAssumption, NEW S \in SUBSET Worker, NEW w \in S
  PROVE  Cardinality(S \ {w}) = Cardinality(S) - 1 /\ Cardinality(S) > 0
<1>1. IsFiniteSet(S) /\ Cardinality(S) \in Nat
  BY WorkersFinite
<1>2. Cardinality(S) # 0
  BY <1>1, FS_EmptySet
<1>3. Cardinality(S \ {w}) = Cardinality(S) - 1
  BY <1>1, FS_RemoveElement
<1> QED
  BY <1>1, <1>2, <1>3

\* No task is None, and ids of objects and vectors are no None either.
LEMMA NoneIsNoTask ==
  ASSUME UsearchAssumption
  PROVE  None \notin TaskType /\ None \notin Object /\ None \notin VectorId
<1>1. Object \subseteq Nat /\ VectorId \subseteq Nat
  BY DEF UsearchAssumption, Object, VectorId
<1>2. ASSUME None \in TaskType
      PROVE  FALSE
  <2>1. None \in [kind : Kinds, object : Nat, id : Nat \union {None}, snapshot : SUBSET Nat]
    BY <1>1, <1>2 DEF TaskType
  <2> QED
    BY <2>1 DEF UsearchAssumption, Kinds
<1> QED
  BY <1>1, <1>2 DEF UsearchAssumption

-----------------------------------------------------------------------------
(* Types.                                                                  *)

\* Dispatch leaves the actor with a well-formed task to get a permit for.
LEMMA DispatchTypes ==
  ASSUME NEW t \in TaskType, t.kind # "Reserve", Dispatch(t)
  PROVE  ActorTypes' /\ task' = t /\ pc' \in {"reserve", "permit"}
         /\ (pc' = "reserve" => t.kind = "Insert" /\ NeedsMoreCapacity(t.object))
         /\ (pc' = "permit" /\ t.kind = "Insert" => ~NeedsMoreCapacity(t.object))
BY DEF Dispatch, ActorTypes, ReservePc, MessagePc

\* What a task that a worker runs is, and what it does to its object.
LEMMA EffectFacts ==
  ASSUME UsearchAssumption, UsearchTypes, IdsInv, ReservationsGrow, NEW w \in Running
  PROVE  LET t == running[w]
             o == objects[t.object]
             e == Effect(t)
         IN /\ t \in TaskType /\ o \in ObjectType /\ e \in ObjectType
            /\ e.size = Cardinality(e.content)
            /\ t.kind = "Reserve" =>
                 e.content = o.content /\ e.size = o.size
                 /\ t.id = o.capacity + Increment /\ e.capacity = t.id
            /\ t.kind # "Reserve" => e.capacity = o.capacity
            /\ t.kind = "Insert" => t.id \in VectorId
            /\ t.kind = "Insert" /\ o.size < o.capacity =>
                 e.content = o.content \union {t.id} /\ e.size = o.size + 1
            /\ t.kind = "Insert" /\ ~(o.size < o.capacity) => e = o
            /\ t.kind = "Remove" => e.content = o.content \ {t.id} /\ e.size <= o.size
            /\ t.kind = "Search" => e = o
<1> DEFINE t == running[w]
           o == objects[t.object]
           e == Effect(t)
<1>1. t \in TaskType /\ w \in Worker /\ t \in Dispatched
  BY DEF UsearchTypes, WorkerTypes, Running, Dispatched
<1>2. t.object \in Object /\ t.kind \in Kinds
  BY <1>1 DEF TaskType
<1>3. o \in ObjectType /\ o.size = Cardinality(o.content)
  BY <1>2 DEF UsearchTypes, IndexTypes, IdsInv, SizesExact
<1>4. /\ o.size \in Nat /\ o.capacity \in Nat /\ o.content \in SUBSET VectorId
      /\ o = [size |-> o.size, capacity |-> o.capacity, content |-> o.content]
  BY <1>3 DEF ObjectType
<1>5. IsFiniteSet(o.content)
  <2>1. IsFiniteSet(VectorId)
    <3>1. 1 \in Int /\ MaxModify \in Int
      BY DEF UsearchAssumption
    <3> QED
      BY <3>1, FS_Interval DEF VectorId
  <2> QED
    BY <1>4, <2>1, FS_Subset
<1>6. CASE t.kind = "Reserve"
  <2>1. t.id = o.capacity + Increment
    BY <1>1, <1>6 DEF ReservationsGrow
  <2>2. e = [o EXCEPT !.capacity = t.id]
    BY <1>6 DEF Effect
  <2> QED
    BY <1>1, <1>3, <1>4, <1>6, <2>1, <2>2 DEF ObjectType, UsearchAssumption
<1>7. CASE t.kind = "Insert"
  <2>1. t.id \in VectorId /\ t.id \notin o.content
    <3>1. SentIds \subseteq VectorId
      BY DEF UsearchTypes, InputTypes, SentIds, VectorId, UsearchAssumption
    <3> QED
      BY <1>1, <1>2, <1>7, <3>1 DEF IdsInv, AddedOnce, Adding, Content
  <2>2. CASE o.size < o.capacity
    <3>1. e = [o EXCEPT !.size = @ + 1, !.content = @ \union {t.id}]
      BY <1>7, <2>2 DEF Effect
    <3>2. Cardinality(o.content \union {t.id}) = o.size + 1
      BY <1>3, <1>5, <2>1, FS_AddElement
    <3>3. /\ e.size = o.size + 1 /\ e.capacity = o.capacity
          /\ e.content = o.content \union {t.id}
      BY <1>4, <3>1
    <3>4. e \in ObjectType
      <4>1. o.size + 1 \in Nat /\ o.content \union {t.id} \in SUBSET VectorId
        BY <1>4, <2>1
      <4>2. e = [size |-> o.size + 1, capacity |-> o.capacity,
                 content |-> o.content \union {t.id}]
        BY <1>4, <3>1
      <4> QED
        BY <1>4, <4>1, <4>2 DEF ObjectType
    <3> QED
      BY <1>1, <1>3, <1>7, <2>1, <2>2, <3>2, <3>3, <3>4
  <2>3. CASE ~(o.size < o.capacity)
    <3>1. e = o
      BY <1>7, <2>3 DEF Effect
    <3> QED
      BY <1>1, <1>3, <1>7, <2>1, <2>3, <3>1
  <2> QED
    BY <2>2, <2>3
<1>8. CASE t.kind = "Remove"
  <2>1. CASE t.id \in o.content
    <3>1. e = [o EXCEPT !.size = @ - 1, !.content = @ \ {t.id}]
      BY <1>8, <2>1 DEF Effect
    <3>2. Cardinality(o.content \ {t.id}) = o.size - 1
      <4> DEFINE c == o.content
                 x == t.id
      <4>1. IsFiniteSet(c) /\ x \in c /\ o.size = Cardinality(c)
        BY <1>3, <1>5, <2>1
      <4> HIDE DEF c, x
      <4>2. Cardinality(c \ {x}) = Cardinality(c) - 1
        BY <4>1, FS_RemoveElement
      <4> QED
        BY <4>1, <4>2 DEF c, x
    <3>3. o.size # 0
      BY <1>3, <1>5, <2>1, FS_EmptySet
    <3>4. e.size = o.size - 1 /\ e.capacity = o.capacity /\ e.content = o.content \ {t.id}
      BY <1>4, <3>1
    <3>5. e \in ObjectType
      <4>1. o.size - 1 \in Nat /\ o.content \ {t.id} \in SUBSET VectorId
        BY <1>4, <3>3
      <4>2. e = [size |-> o.size - 1, capacity |-> o.capacity, content |-> o.content \ {t.id}]
        BY <1>4, <3>1
      <4> QED
        BY <1>4, <4>1, <4>2 DEF ObjectType
    <3> QED
      BY <1>1, <1>3, <1>4, <1>8, <2>1, <3>2, <3>4, <3>5
  <2>2. CASE t.id \notin o.content
    <3>1. e = o
      BY <1>8, <2>2 DEF Effect
    <3>2. o.content \ {t.id} = o.content
      BY <2>2
    <3> QED
      BY <1>1, <1>3, <1>4, <1>8, <3>1, <3>2
  <2> QED
    BY <2>1, <2>2
<1>9. CASE t.kind = "Search"
  <2>1. e = o
    BY <1>9 DEF Effect
  <2> QED
    BY <1>1, <1>3, <1>9, <2>1
<1> QED
  BY <1>2, <1>6, <1>7, <1>8, <1>9 DEF Kinds

\* Every step preserves the types.
LEMMA TypesStep ==
  ASSUME UsearchAssumption, UsearchInv, [UsearchNext]_usearchVars
  PROVE  UsearchTypes'
<1> USE DEF actorVars, permitVars, workerVars, inputVars, libraryVars, indexVars
<1>0. /\ UsearchTypes /\ InputTypes /\ IndexTypes /\ ActorTypes /\ WorkerTypes
      /\ None \notin TaskType /\ ChannelSize \in Nat /\ Increment \in Nat
      /\ MaxModify \in Nat /\ MaxObject \in Nat
  BY NoneIsNoTask DEF UsearchInv, UsearchTypes, UsearchAssumption
<1>1. ASSUME NEW p \in PartitionId, NEW op \in {"Insert", "Remove", "RemovePartition"},
             NEW id \in VectorId \union {None}, SendModify(op, p, id),
             live' \in [PartitionId -> SUBSET VectorId]
      PROVE  UsearchTypes'
  <2>1. [op |-> op, partition |-> p, id |-> id] \in Message
    BY DEF Message
  <2>2. rx_modify' \in Seq(Message)
    BY <1>0, <1>1, <2>1 DEF SendModify, InputTypes
  <2> QED
    BY <1>0, <1>1, <2>2 DEF SendModify, UsearchTypes, InputTypes, IndexTypes, ActorTypes,
                            WorkerTypes
<1>2. ASSUME NEW p \in PartitionId, SendAdd(p) PROVE UsearchTypes'
  <2>1. sent + 1 \in VectorId
    BY <1>0, <1>2 DEF SendAdd, SendModify, InputTypes, VectorId
  <2> QED
    BY <1>0, <1>1, <1>2, <2>1 DEF SendAdd, InputTypes
<1>3. ASSUME NEW p \in PartitionId, SendRemove(p) PROVE UsearchTypes'
  BY <1>0, <1>1, <1>3 DEF SendRemove, InputTypes
<1>4. ASSUME NEW p \in PartitionId, SendRemovePartition(p) PROVE UsearchTypes'
  BY <1>0, <1>1, <1>4 DEF SendRemovePartition, InputTypes
<1>5. ASSUME NEW p \in PartitionId, SendSearch(p) PROVE UsearchTypes'
  BY <1>0, <1>5 DEF SendSearch, UsearchTypes, InputTypes, IndexTypes, ActorTypes, WorkerTypes
<1>6. CASE ReceiveSearch
  <2> DEFINE p == Head(rx_search)
             o == partitions[p]
  <2>1. p \in PartitionId /\ Tail(rx_search) \in Seq(PartitionId)
    BY <1>0, <1>6, TailFacts DEF ReceiveSearch, InputTypes
  <2>2. InputTypes' /\ IndexTypes' /\ WorkerTypes'
    BY <1>0, <1>6, <2>1 DEF ReceiveSearch, InputTypes, IndexTypes, WorkerTypes
  <2>3. ActorTypes'
    <3>1. CASE o = None
      BY <1>0, <1>6, <3>1 DEF ReceiveSearch, ActorTypes
    <3>2. CASE o # None
      <4>1. Task("Search", o, None, expected[o]) \in TaskType
        BY <1>0, <2>1, <3>2 DEF IndexTypes, Task, TaskType, Kinds
      <4>2. Task("Search", o, None, expected[o]).kind # "Reserve"
        BY DEF Task
      <4>3. Dispatch(Task("Search", o, None, expected[o]))
        BY <1>6, <3>2 DEF ReceiveSearch
      <4> QED
        BY <4>1, <4>2, <4>3, DispatchTypes
    <3> QED
      BY <3>1, <3>2
  <2> QED
    BY <2>2, <2>3 DEF UsearchTypes
<1>7. ASSUME NEW op, TakeModify(op)
      PROVE  /\ InputTypes' /\ WorkerTypes'
             /\ Head(rx_modify) \in Message /\ Head(rx_modify) = rx_modify[1]
             /\ 1 \in DOMAIN rx_modify /\ Head(rx_modify).op = op
  BY <1>0, <1>7, TailFacts DEF TakeModify, InputTypes, WorkerTypes
<1>8. CASE ReceiveAdd
  <2> DEFINE p == Head(rx_modify).partition
             id == Head(rx_modify).id
             o == IF partitions[p] = None THEN created + 1 ELSE partitions[p]
             t == Task("Insert", o, id, {})
  <2>1. p \in PartitionId /\ id \in VectorId
    <3>1. SentIds \subseteq VectorId
      BY <1>0 DEF InputTypes, SentIds, VectorId
    <3> QED
      BY <1>7, <1>8, <3>1 DEF ReceiveAdd, Message, UsearchInv, IdsInv, WaitingFresh, Waiting
  <2>2. o \in Object /\ created' \in 0 .. MaxObject
    <3>1. partitions[p] \in Object \union {None}
      BY <1>0, <2>1 DEF IndexTypes
    <3> QED
      BY <1>0, <1>8, <2>1, <3>1 DEF ReceiveAdd, IndexTypes, Object
  <2>3. t \in TaskType /\ t.kind # "Reserve" /\ Dispatch(t)
    BY <1>8, <2>1, <2>2 DEF ReceiveAdd, Task, TaskType, Kinds, VectorId
  <2>4. IndexTypes'
    BY <1>0, <1>8, <2>1, <2>2 DEF ReceiveAdd, IndexTypes
  <2> QED
    BY <1>7, <1>8, <2>3, <2>4, DispatchTypes DEF ReceiveAdd, UsearchTypes
<1>9. CASE DropAdd
  BY <1>0, <1>7, <1>9 DEF DropAdd, UsearchTypes, IndexTypes, ActorTypes
<1>10. CASE ReceiveRemove
  <2> DEFINE o == partitions[Head(rx_modify).partition]
             id == Head(rx_modify).id
             t == Task("Remove", o, id, {})
  <2>1. o \in Object \union {None} /\ id \in VectorId \union {None}
    BY <1>0, <1>7, <1>10 DEF ReceiveRemove, Message, IndexTypes
  <2>2. CASE o = None
    BY <1>0, <1>7, <1>10, <2>2 DEF ReceiveRemove, UsearchTypes, IndexTypes, ActorTypes
  <2>3. CASE o # None
    <3>1. t \in TaskType /\ t.kind # "Reserve" /\ Dispatch(t)
      BY <1>10, <2>1, <2>3 DEF ReceiveRemove, Task, TaskType, Kinds, VectorId
    <3>2. IndexTypes'
      BY <1>0, <1>10, <2>1, <2>3 DEF ReceiveRemove, IndexTypes
    <3> QED
      BY <1>7, <1>10, <3>1, <3>2, DispatchTypes DEF ReceiveRemove, UsearchTypes
  <2> QED
    BY <2>2, <2>3
<1>11. CASE ReceiveRemovePartition
  <2>1. Head(rx_modify).partition \in PartitionId
    BY <1>7, <1>11 DEF ReceiveRemovePartition, Message
  <2> QED
    BY <1>0, <1>7, <1>11, <2>1 DEF ReceiveRemovePartition, UsearchTypes, IndexTypes, ActorTypes
<1>12. CASE PermitForReserve
  BY <1>0, <1>12 DEF PermitForReserve, Permit, UsearchTypes, InputTypes, IndexTypes,
                     ActorTypes, WorkerTypes, ReservePc, MessagePc, Kinds
<1>13. CASE PermitForMessage
  <2>1. task.kind \in Kinds
    BY <1>0, <1>13 DEF PermitForMessage, ActorTypes, TaskType
  <2> QED
    BY <1>0, <1>13, <2>1 DEF PermitForMessage, Permit, Mode, UsearchTypes, InputTypes,
                     IndexTypes, ActorTypes, WorkerTypes, ReservePc, MessagePc
<1>14. CASE \/ StartWaiting("loadedReserve", "waitingReserve")
            \/ StartWaiting("loaded", "waiting")
            \/ Notified("loadedReserve", "waitingReserve", "reserve")
            \/ Notified("loaded", "waiting", "permit")
  BY <1>0, <1>14 DEF StartWaiting, Notified, UsearchTypes, InputTypes, IndexTypes,
                     ActorTypes, WorkerTypes, ReservePc, MessagePc
<1>15. CASE SkipReserve
  <2>1. counter > 0
    BY <1>0, <1>15, WorkersFinite
    DEF SkipReserve, UsearchInv, PermitInv, PermitsCounted, Held, Running, WorkerTypes
  <2> QED
    BY <1>0, <1>15, <2>1 DEF SkipReserve, UsearchTypes, InputTypes, IndexTypes,
                     ActorTypes, WorkerTypes, ReservePc, MessagePc
<1>16. ASSUME NEW t \in TaskType, SendToWorkers(t)
       PROVE  InputTypes' /\ IndexTypes' /\ WorkerTypes'
  <2>1. channel' \in Seq(TaskType) /\ Len(channel') = Len(channel) + 1 /\ Len(channel) \in Nat
    BY <1>0, <1>16, AppendFacts DEF SendToWorkers, WorkerTypes
  <2> QED
    BY <1>0, <1>16, <2>1 DEF SendToWorkers, InputTypes, IndexTypes, WorkerTypes
<1>17. CASE SendReserve
  <2>1. task.object \in Object /\ task.kind = "Insert" /\ task \in TaskType
    BY <1>0, <1>17 DEF SendReserve, ActorTypes, TaskType, ReservePc
  <2>2. objects[task.object].capacity + Increment \in Nat
    BY <1>0, <2>1 DEF IndexTypes, ObjectType
  <2>3. Task("Reserve", task.object, objects[task.object].capacity + Increment, {}) \in TaskType
    BY <2>1, <2>2 DEF Task, TaskType, Kinds
  <2>4. ActorTypes'
    BY <1>17, <2>1 DEF SendReserve, SendToWorkers, ActorTypes, ReservePc, MessagePc
  <2> QED
    BY <1>16, <1>17, <2>3, <2>4 DEF SendReserve, UsearchTypes
<1>18. CASE SendTask
  <2>1. task \in TaskType
    BY <1>0, <1>18 DEF SendTask, ActorTypes
  <2> QED
    BY <1>16, <1>18, <2>1 DEF SendTask, UsearchTypes, ActorTypes, ReservePc
<1>19. ASSUME NEW w \in Worker, TakeTask(w) PROVE UsearchTypes'
  <2>1. channel' \in Seq(TaskType) /\ Len(channel') = Len(channel) - 1 /\ Len(channel) \in Nat
        /\ Head(channel) \in TaskType
    BY <1>0, <1>19, TailFacts DEF TakeTask, WorkerTypes
  <2> QED
    BY <1>0, <1>19, <2>1 DEF TakeTask, UsearchTypes, InputTypes, IndexTypes,
                     ActorTypes, WorkerTypes
<1>20. ASSUME NEW w \in Worker, running[w] # None
       PROVE  w \in Running /\ counter - 1 \in Nat
  <2>1. w \in Running
    BY <1>20 DEF Running
  <2>2. Cardinality(Running) > 0 /\ Cardinality(Running) \in Nat
    BY <2>1, WorkerStops, WorkersFinite DEF Running
  <2> QED
    BY <1>0, <2>1, <2>2 DEF UsearchInv, PermitInv, PermitsCounted, Held, WorkerTypes
<1>21. ASSUME NEW w \in Worker, FinishTask(w) PROVE UsearchTypes'
  <2>1. Effect(running[w]) \in ObjectType /\ running[w].object \in Object
    BY <1>0, <1>20, <1>21, EffectFacts DEF FinishTask, UsearchInv, RoomInv, TaskType
  <2> QED
    BY <1>0, <1>20, <1>21, <2>1 DEF FinishTask, DropPermit, UsearchTypes, InputTypes,
                     IndexTypes, ActorTypes, WorkerTypes
<1>22. ASSUME NEW w \in Worker, FailTask(w) PROVE UsearchTypes'
  BY <1>0, <1>20, <1>22 DEF FailTask, DropPermit, UsearchTypes, InputTypes,
                     IndexTypes, ActorTypes, WorkerTypes
<1>23. ASSUME NEW w \in Worker, NotifyOne(w) PROVE UsearchTypes'
  BY <1>0, <1>23 DEF NotifyOne, UsearchTypes, InputTypes, IndexTypes, ActorTypes, WorkerTypes
<1>24. CASE UNCHANGED usearchVars
  BY <1>0, <1>24 DEF usearchVars, UsearchTypes, InputTypes, IndexTypes, ActorTypes, WorkerTypes
<1> QED
  BY <1>2, <1>3, <1>4, <1>5, <1>6, <1>8, <1>9, <1>10, <1>11, <1>12, <1>13, <1>14, <1>15,
     <1>17, <1>18, <1>19, <1>21, <1>22, <1>23, <1>24
  DEF UsearchNext, Actor, Receive, WorkerStep

-----------------------------------------------------------------------------
(* Permits.                                                                *)

\* Whatever is on its way is a task.
LEMMA DispatchedTypes ==
  ASSUME UsearchTypes
  PROVE  Dispatched \subseteq TaskType
<1>1. \A n \in DOMAIN channel : channel[n] \in TaskType
  BY DEF UsearchTypes, WorkerTypes
<1>2. \A w \in Running : running[w] \in TaskType
  BY DEF UsearchTypes, WorkerTypes, Running
<1> QED
  BY <1>1, <1>2 DEF Dispatched

\* A worker that takes a task joins the ones that run; what the channel and
\* the workers hold together is the same.
LEMMA TakeTaskFacts ==
  ASSUME UsearchAssumption, UsearchTypes, NEW w \in Worker, TakeTask(w)
  PROVE  /\ w \notin Running /\ Running' = Running \union {w}
         /\ running'[w] = channel[1] /\ \A v \in Running : running'[v] = running[v]
         /\ channel # <<>> /\ channel' = Tail(channel)
         /\ Dispatched' = Dispatched
<1>1. /\ channel \in Seq(TaskType) /\ channel # <<>> /\ None \notin TaskType
      /\ running \in [Worker -> TaskType \union {None}]
      /\ running[w] = None /\ running' = [running EXCEPT ![w] = Head(channel)]
      /\ channel' = Tail(channel)
  BY NoneIsNoTask DEF TakeTask, UsearchTypes, WorkerTypes
<1>2. Head(channel) = channel[1] /\ channel[1] \in TaskType /\ 1 \in DOMAIN channel
  BY <1>1, TailFacts
<1>3. w \notin Running /\ Running' = Running \union {w}
  BY <1>1, <1>2 DEF Running
<1>4. running'[w] = channel[1] /\ \A v \in Running : running'[v] = running[v]
  BY <1>1, <1>2, <1>3 DEF Running
<1>5. Dispatched' \subseteq Dispatched
  <2>1. \A n \in DOMAIN channel' : channel'[n] \in Dispatched
    BY <1>1, TailFacts DEF Dispatched
  <2>2. \A v \in Running' : running'[v] \in Dispatched
    BY <1>2, <1>3, <1>4 DEF Dispatched
  <2> QED
    BY <2>1, <2>2 DEF Dispatched
<1>6. Dispatched \subseteq Dispatched'
  <2>1. \A n \in DOMAIN channel : channel[n] \in Dispatched'
    <3>1. channel[1] \in Dispatched'
      BY <1>3, <1>4 DEF Dispatched
    <3>2. \A n \in DOMAIN channel : n # 1 => channel[n] \in Dispatched'
      <4>1. \A n \in DOMAIN channel :
              n # 1 => n - 1 \in DOMAIN channel' /\ channel'[n - 1] = channel[n]
        BY <1>1, TailFacts
      <4>2. \A m \in DOMAIN channel' : channel'[m] \in Dispatched'
        BY DEF Dispatched
      <4> QED
        BY <4>1, <4>2
    <3> QED
      BY <3>1, <3>2
  <2>2. \A v \in Running : running[v] \in Dispatched'
    BY <1>3, <1>4 DEF Dispatched
  <2> QED
    BY <2>1, <2>2 DEF Dispatched
<1> QED
  BY <1>1, <1>3, <1>4, <1>5, <1>6

\* A worker whose task is over leaves them; the other tasks stay.
LEMMA DropPermitFacts ==
  ASSUME UsearchAssumption, UsearchTypes, NEW w \in Worker, running[w] # None, DropPermit(w)
  PROVE  /\ w \in Running /\ Running' = Running \ {w}
         /\ \A v \in Running' : running'[v] = running[v]
         /\ channel' = channel
         /\ Dispatched' \subseteq Dispatched
         /\ Dispatched \subseteq Dispatched' \union {running[w]}
<1>1. /\ running \in [Worker -> TaskType \union {None}]
      /\ running' = [running EXCEPT ![w] = None] /\ channel' = channel
  BY DEF DropPermit, UsearchTypes, WorkerTypes
<1>2. w \in Running /\ Running' = Running \ {w} /\ \A v \in Running' : running'[v] = running[v]
  BY <1>1 DEF Running
<1>3. Dispatched' \subseteq Dispatched
  BY <1>1, <1>2 DEF Dispatched
<1>4. Dispatched \subseteq Dispatched' \union {running[w]}
  <2>1. \A n \in DOMAIN channel : channel[n] \in Dispatched'
    BY <1>1 DEF Dispatched
  <2>2. \A v \in Running \ {w} : running[v] \in Dispatched'
    BY <1>2 DEF Dispatched
  <2> QED
    BY <2>1, <2>2 DEF Dispatched
<1> QED
  BY <1>1, <1>2, <1>3, <1>4

\* The actor sends a task to the workers.
LEMMA SendFacts ==
  ASSUME UsearchTypes, NEW t \in TaskType, SendToWorkers(t)
  PROVE  /\ Running' = Running /\ running' = running
         /\ channel' = Append(channel, t)
         /\ Dispatched' = Dispatched \union {t}
<1>1. channel \in Seq(TaskType) /\ channel' = Append(channel, t) /\ running' = running
  BY DEF SendToWorkers, UsearchTypes, WorkerTypes
<1>2. Running' = Running
  BY <1>1 DEF Running
<1>3. Dispatched' \subseteq Dispatched \union {t}
  BY <1>1, <1>2, AppendFacts DEF Dispatched
<1>4. Dispatched \subseteq Dispatched' /\ t \in Dispatched'
  <2>1. \A n \in DOMAIN channel : channel[n] \in Dispatched'
    BY <1>1, AppendFacts DEF Dispatched
  <2>2. t \in Dispatched'
    BY <1>1, AppendFacts DEF Dispatched
  <2>3. \A v \in Running : running[v] \in Dispatched'
    BY <1>1, <1>2 DEF Dispatched
  <2> QED
    BY <2>1, <2>2, <2>3 DEF Dispatched
<1> QED
  BY <1>1, <1>2, <1>3, <1>4

\* Every permit that Operation::permit grants keeps the count and the mode.
LEMMA GrantKeepsPermits ==
  ASSUME UsearchAssumption, UsearchTypes, PermitInv, NEW m \in Kinds,
         NEW granted, NEW wait, Permit(m, granted, wait),
         pc \notin {"check", "send"}, wait \notin {"check", "send"},
         granted \in {"check", "send"},
         granted = "check" => m = "Reserve", granted = "send" => m = Mode(task)
  PROVE  PermitInv'
<1>1. /\ running' = running /\ channel' = channel /\ task' = task
      /\ counter \in Nat /\ Len(channel) \in Nat /\ Cardinality(Running) \in Nat
      /\ Running' = Running /\ IsFiniteSet(Running)
  BY WorkersFinite DEF Permit, workerVars, UsearchTypes, WorkerTypes, Running
<1>2. counter = Len(channel) + Cardinality(Running)
  BY <1>1 DEF PermitInv, PermitsCounted, Held
<1>3. PermitsCounted'
  BY <1>1, <1>2 DEF Permit, PermitsCounted, Held
<1>4. CASE counter = 0
  <2>1. Running = {} /\ Len(channel) = 0
    BY <1>1, <1>2, <1>4, FS_EmptySet
  <2>2. mode' = m /\ counter' = 1 /\ pc' = granted
    BY <1>4 DEF Permit
  <2>3. OneMode'
    BY <1>1, <2>1, <2>2 DEF OneMode, Mode, UsearchTypes, WorkerTypes
  <2> QED
    BY <1>3, <2>2, <2>3 DEF PermitInv, AloneIfExclusive
<1>5. CASE counter # 0
  <2>1. mode' = mode
    BY <1>5 DEF Permit
  <2>2. OneMode'
    BY <1>1, <2>1 DEF OneMode, PermitInv, Permit, Mode
  <2>3. AloneIfExclusive'
    BY <1>5, <2>1 DEF AloneIfExclusive, PermitInv, Permit
  <2> QED
    BY <1>3, <2>2, <2>3 DEF PermitInv
<1> QED
  BY <1>4, <1>5

\* Every step keeps the permits counted, of one mode, and exclusive.
LEMMA PermitStep ==
  ASSUME UsearchAssumption, UsearchInv, [UsearchNext]_usearchVars
  PROVE  PermitInv'
<1> USE DEF actorVars, permitVars, workerVars, inputVars, libraryVars, indexVars
<1>0. /\ UsearchTypes /\ InputTypes /\ IndexTypes /\ ActorTypes /\ WorkerTypes
      /\ PermitInv /\ PermitsCounted /\ OneMode /\ AloneIfExclusive
  BY DEF UsearchInv, UsearchTypes, PermitInv
<1>1. Len(channel) \in Nat /\ Cardinality(Running) \in Nat /\ counter \in Nat
  BY <1>0, WorkersFinite DEF WorkerTypes, Running
<1>2. ASSUME UNCHANGED <<mode, counter, channel, running>>,
             pc' \notin {"check", "send"}, pc \notin {"check", "send"}
      PROVE  PermitInv'
  BY <1>0, <1>2 DEF PermitInv, PermitsCounted, OneMode, AloneIfExclusive, Held, Running
<1>3. ASSUME UNCHANGED <<mode, counter, channel, running, pc, task>>
      PROVE  PermitInv'
  BY <1>0, <1>3 DEF PermitInv, PermitsCounted, OneMode, AloneIfExclusive, Held, Running, Mode
<1>4. ASSUME NEW p \in PartitionId,
             SendAdd(p) \/ SendRemove(p) \/ SendRemovePartition(p) \/ SendSearch(p)
      PROVE  PermitInv'
  BY <1>3, <1>4 DEF SendAdd, SendRemove, SendRemovePartition, SendSearch, SendModify
<1>5. CASE Receive
  <2>1. UNCHANGED <<mode, counter, channel, running>> /\ pc = "recv"
    BY <1>5 DEF Receive, ReceiveSearch, ReceiveAdd, DropAdd, ReceiveRemove,
                ReceiveRemovePartition, TakeModify
  <2>2. pc' \in {"recv", "reserve", "permit"}
    BY <1>5, <2>1 DEF Receive, ReceiveSearch, ReceiveAdd, DropAdd, ReceiveRemove,
                ReceiveRemovePartition, Dispatch
  <2> QED
    BY <1>2, <2>1, <2>2
<1>6. CASE PermitForReserve
  BY <1>0, <1>6, GrantKeepsPermits DEF PermitForReserve, Kinds
<1>7. CASE PermitForMessage
  <2>1. Mode(task) \in Kinds
    BY <1>0, <1>7 DEF PermitForMessage, ActorTypes, TaskType, Mode
  <2> QED
    BY <1>0, <1>7, <2>1, GrantKeepsPermits DEF PermitForMessage
<1>8. CASE \/ StartWaiting("loadedReserve", "waitingReserve")
           \/ StartWaiting("loaded", "waiting")
           \/ Notified("loadedReserve", "waitingReserve", "reserve")
           \/ Notified("loaded", "waiting", "permit")
  BY <1>2, <1>8 DEF StartWaiting, Notified
<1>9. CASE SkipReserve
  BY <1>0, <1>1, <1>9 DEF SkipReserve, PermitInv, PermitsCounted, OneMode, AloneIfExclusive,
                          Held, Running
<1>10. ASSUME NEW t \in TaskType, SendToWorkers(t), pc \in {"check", "send"},
              pc' \in {"permit", "recv"}, t.kind = mode
       PROVE  PermitInv'
  <2>1. /\ Running' = Running /\ running' = running /\ channel \in Seq(TaskType)
        /\ channel' = Append(channel, t) /\ mode' = mode /\ counter' = counter
    BY <1>0, <1>10, SendFacts DEF SendToWorkers, WorkerTypes
  <2>2. PermitsCounted' /\ AloneIfExclusive'
    BY <1>0, <1>1, <1>10, <2>1, AppendFacts DEF PermitsCounted, AloneIfExclusive, Held
  <2>3. OneMode'
    BY <1>0, <1>10, <2>1, AppendFacts DEF OneMode
  <2> QED
    BY <2>2, <2>3 DEF PermitInv
<1>11. CASE SendReserve
  <2>1. task.object \in Object /\ objects[task.object].capacity + Increment \in Nat
    BY <1>0, <1>11 DEF SendReserve, ActorTypes, TaskType, IndexTypes, ObjectType,
                       UsearchAssumption
  <2>2. Task("Reserve", task.object, objects[task.object].capacity + Increment, {}) \in TaskType
    BY <2>1 DEF Task, TaskType, Kinds
  <2> QED
    BY <1>0, <1>10, <1>11, <2>2 DEF SendReserve, OneMode, Task
<1>12. CASE SendTask
  BY <1>0, <1>10, <1>12 DEF SendTask, OneMode, ActorTypes, Mode
<1>13. ASSUME NEW w \in Worker, TakeTask(w) PROVE PermitInv'
  <2>1. UNCHANGED <<mode, counter, pc, task>> /\ channel \in Seq(TaskType)
    BY <1>0, <1>13 DEF TakeTask, WorkerTypes
  <2>2. /\ w \notin Running /\ Running' = Running \union {w}
        /\ running'[w] = channel[1] /\ \A v \in Running : running'[v] = running[v]
        /\ channel # <<>> /\ channel' = Tail(channel)
    BY <1>0, <1>13, TakeTaskFacts
  <2>3. Cardinality(Running') = Cardinality(Running) + 1
    BY <2>2, WorkerStarts DEF Running
  <2>4. PermitsCounted' /\ AloneIfExclusive'
    BY <1>0, <1>1, <2>1, <2>2, <2>3, TailFacts DEF PermitsCounted, AloneIfExclusive, Held
  <2>5. \A n \in DOMAIN channel' : channel'[n].kind = mode
    BY <1>0, <2>1, <2>2, TailFacts DEF OneMode
  <2>6. \A v \in Running' : running'[v].kind = mode
    BY <1>0, <2>1, <2>2, TailFacts DEF OneMode
  <2> QED
    BY <1>0, <2>1, <2>4, <2>5, <2>6 DEF PermitInv, OneMode, Mode
<1>14. ASSUME NEW w \in Worker, running[w] # None, DropPermit(w) PROVE PermitInv'
  <2>1. UNCHANGED <<mode, pc, task>> /\ counter' = counter - 1
    BY <1>14 DEF DropPermit
  <2>2. /\ w \in Running /\ Running' = Running \ {w} /\ channel' = channel
        /\ \A v \in Running' : running'[v] = running[v]
    BY <1>0, <1>14, DropPermitFacts
  <2>3. Cardinality(Running') = Cardinality(Running) - 1
    BY <2>2, WorkerStops DEF Running
  <2> QED
    BY <1>0, <1>1, <2>1, <2>2, <2>3
    DEF PermitInv, PermitsCounted, OneMode, AloneIfExclusive, Held, Mode
<1>15. ASSUME NEW w \in Worker, WorkerStep(w) PROVE PermitInv'
  BY <1>3, <1>13, <1>14, <1>15 DEF WorkerStep, FinishTask, FailTask, NotifyOne
<1>16. CASE UNCHANGED usearchVars
  BY <1>3, <1>16 DEF usearchVars
<1> QED
  BY <1>4, <1>5, <1>6, <1>7, <1>8, <1>9, <1>11, <1>12, <1>15, <1>16 DEF UsearchNext, Actor

-----------------------------------------------------------------------------
(* Ids.                                                                    *)

\* The ids keep their places when only messages other than adds move, or when
\* an add leaves the actor or a worker for nowhere.
LEMMA IdsKept ==
  ASSUME UsearchTypes, IdsInv,
         UNCHANGED <<rx_modify, sent, channel, objects>>,
         ActorAdds' => ActorAdds /\ task' = task,
         \A w \in Worker : Adding(w)' => Adding(w) /\ running'[w] = running[w]
  PROVE  IdsInv'
<1>1. Content' = Content /\ SentIds' = SentIds
  BY DEF Content, SentIds
<1>2. \A n : (Waiting(n)' <=> Waiting(n)) /\ (Queued(n)' <=> Queued(n))
  BY DEF Waiting, Queued
<1>3. WaitingFresh'
  BY <1>1, <1>2 DEF IdsInv, WaitingFresh
<1>4. AddedOnce'
  BY <1>1, <1>2 DEF IdsInv, AddedOnce
<1>5. SizesExact'
  BY DEF IdsInv, SizesExact
<1> QED
  BY <1>3, <1>4, <1>5 DEF IdsInv

\* A message enters the channel of modifications: an add brings a new id.
LEMMA SendModifyIds ==
  ASSUME UsearchAssumption, UsearchTypes, IdsInv, NEW op, NEW p, NEW id,
         [op |-> op, partition |-> p, id |-> id] \in Message,
         SendModify(op, p, id), op = "Insert" => id = sent + 1
  PROVE  IdsInv'
<1> USE DEF actorVars, permitVars, workerVars, inputVars, libraryVars, indexVars
<1> DEFINE x == [op |-> op, partition |-> p, id |-> id]
<1>1. /\ rx_modify \in Seq(Message) /\ rx_modify' = Append(rx_modify, x) /\ x \in Message
      /\ sent \in Nat /\ sent' = sent + 1 /\ x.op = op /\ x.id = id
      /\ UNCHANGED <<pc, task, channel, running, objects>>
  BY DEF SendModify, UsearchTypes, InputTypes, UsearchAssumption
<1> HIDE DEF x
<1>2. /\ Content' = Content /\ SentIds \subseteq SentIds' /\ ActorAdds' = ActorAdds
      /\ \A n : Queued(n)' <=> Queued(n)
      /\ \A w : Adding(w)' <=> Adding(w)
  BY <1>1 DEF Content, SentIds, ActorAdds, Queued, Adding, Running
<1>3. \A y \in SentIds : y \in Nat /\ y < sent + 1
  BY <1>1 DEF SentIds
<1>4. AddedOnce'
  BY <1>1, <1>2 DEF IdsInv, AddedOnce
<1>5. \A n \in DOMAIN rx_modify' :
        \/ n \in DOMAIN rx_modify /\ rx_modify'[n] = rx_modify[n]
           /\ (Waiting(n)' <=> Waiting(n))
        \/ n = Len(rx_modify) + 1 /\ rx_modify'[n] = x
           /\ (Waiting(n)' => x.id = sent + 1)
  BY <1>1, AppendFacts DEF Waiting
<1>6. \A n \in DOMAIN rx_modify : n \in Nat /\ n < Len(rx_modify) + 1
  BY <1>1
<1>7. WaitingFresh'
  <2>1. \A n \in DOMAIN rx_modify' : Waiting(n)' => rx_modify'[n].id \in SentIds'
    BY <1>1, <1>2, <1>5 DEF IdsInv, WaitingFresh, SentIds
  <2>2. \A m, n \in DOMAIN rx_modify' :
          Waiting(m)' /\ Waiting(n)' /\ m < n => rx_modify'[m].id < rx_modify'[n].id
    BY <1>1, <1>3, <1>5, <1>6 DEF IdsInv, WaitingFresh
  <2>3. ASSUME NEW n \in DOMAIN rx_modify', Waiting(n)'
        PROVE  /\ ActorAdds => task.id < rx_modify'[n].id
               /\ \A m \in DOMAIN channel : Queued(m) => channel[m].id < rx_modify'[n].id
               /\ \A w \in Worker : Adding(w) => running[w].id < rx_modify'[n].id
               /\ \A y \in Content : y < rx_modify'[n].id
    <3>1. CASE n \in DOMAIN rx_modify /\ rx_modify'[n] = rx_modify[n] /\ Waiting(n)
      BY <3>1 DEF IdsInv, WaitingFresh
    <3>2. CASE rx_modify'[n].id = sent + 1
      BY <1>3, <3>2 DEF IdsInv, AddedOnce
    <3> QED
      BY <1>5, <2>3, <3>1, <3>2
  <2> QED
    BY <1>1, <1>2, <2>1, <2>2, <2>3 DEF WaitingFresh
<1>8. SizesExact'
  BY <1>1 DEF IdsInv, SizesExact
<1> QED
  BY <1>4, <1>7, <1>8 DEF IdsInv

\* The actor takes a message: an add that it is going to dispatch has an id
\* that is nowhere else.
LEMMA TakeModifyIds ==
  ASSUME UsearchAssumption, UsearchTypes, IdsInv, NEW op, TakeModify(op), objects' = objects,
         ActorAdds' => op = "Insert" /\ task'.id = Head(rx_modify).id
  PROVE  IdsInv'
<1> USE DEF actorVars, permitVars, workerVars, inputVars, libraryVars, indexVars
<1>1. /\ rx_modify \in Seq(Message) /\ rx_modify # <<>> /\ rx_modify' = Tail(rx_modify)
      /\ UNCHANGED <<sent, channel, running>>
      /\ Head(rx_modify).op = op
  BY DEF TakeModify, UsearchTypes, InputTypes
<1>2. /\ Content' = Content /\ SentIds' = SentIds
      /\ \A n : Queued(n)' <=> Queued(n)
      /\ \A w : Adding(w)' <=> Adding(w)
  BY <1>1 DEF Content, SentIds, Queued, Adding, Running
<1>3. /\ 1 \in DOMAIN rx_modify /\ Head(rx_modify) = rx_modify[1]
      /\ \A n \in DOMAIN rx_modify' :
           /\ n \in Nat /\ 1 < n + 1 /\ n + 1 \in DOMAIN rx_modify
           /\ rx_modify'[n] = rx_modify[n + 1]
           /\ Waiting(n)' <=> Waiting(n + 1)
  <2>1. \A n \in DOMAIN rx_modify' :
           n \in Nat /\ n > 0 /\ n + 1 \in DOMAIN rx_modify /\ rx_modify'[n] = rx_modify[n + 1]
    BY <1>1, TailFacts
  <2>2. 1 \in DOMAIN rx_modify /\ Head(rx_modify) = rx_modify[1]
    BY <1>1, TailFacts
  <2> QED
    BY <2>1, <2>2 DEF Waiting
<1>4. ActorAdds' => Waiting(1) /\ task'.id = rx_modify[1].id
  BY <1>1, <1>3 DEF Waiting
<1>5. AddedOnce'
  <2>1. ActorAdds' =>
          /\ task'.id \in SentIds /\ task'.id \notin Content
          /\ \A n \in DOMAIN channel : Queued(n) => channel[n].id # task'.id
          /\ \A w \in Worker : Adding(w) => running[w].id # task'.id
    <3>1. \A y \in SentIds : ~(y < y)
      BY DEF SentIds
    <3> QED
      BY <1>3, <1>4, <3>1 DEF IdsInv, WaitingFresh
  <2> QED
    BY <1>1, <1>2, <2>1 DEF IdsInv, AddedOnce
<1>6. WaitingFresh'
  <2>1. \A n \in DOMAIN rx_modify' : Waiting(n)' => rx_modify'[n].id \in SentIds'
    BY <1>2, <1>3 DEF IdsInv, WaitingFresh
  <2>2. \A m, n \in DOMAIN rx_modify' :
          Waiting(m)' /\ Waiting(n)' /\ m < n => rx_modify'[m].id < rx_modify'[n].id
    <3>1. \A m, n \in DOMAIN rx_modify' : m < n => m + 1 < n + 1
      BY <1>3
    <3> QED
      BY <1>3, <3>1 DEF IdsInv, WaitingFresh
  <2>3. ASSUME NEW n \in DOMAIN rx_modify', Waiting(n)'
        PROVE  /\ ActorAdds' => task'.id < rx_modify'[n].id
               /\ \A m \in DOMAIN channel : Queued(m) => channel[m].id < rx_modify'[n].id
               /\ \A w \in Worker : Adding(w) => running[w].id < rx_modify'[n].id
               /\ \A y \in Content : y < rx_modify'[n].id
    BY <1>3, <1>4, <2>3 DEF IdsInv, WaitingFresh
  <2> QED
    BY <1>1, <1>2, <2>1, <2>2, <2>3 DEF WaitingFresh
<1>7. SizesExact'
  BY DEF IdsInv, SizesExact
<1> QED
  BY <1>5, <1>6, <1>7 DEF IdsInv

\* The actor sends a task: an add goes from the actor to the channel.
LEMMA SendIds ==
  ASSUME UsearchAssumption, UsearchTypes, IdsInv, NEW t \in TaskType, SendToWorkers(t),
         t.kind = "Insert" => ActorAdds /\ t = task /\ ~ActorAdds',
         ActorAdds' => ActorAdds
  PROVE  IdsInv'
<1> USE DEF actorVars, permitVars, workerVars, inputVars, libraryVars, indexVars
<1>1. /\ channel \in Seq(TaskType) /\ channel' = Append(channel, t)
      /\ UNCHANGED <<rx_modify, sent, task, running, objects>>
  BY DEF SendToWorkers, UsearchTypes, WorkerTypes
<1>2. /\ Content' = Content /\ SentIds' = SentIds
      /\ \A n : Waiting(n)' <=> Waiting(n)
      /\ \A w : Adding(w)' <=> Adding(w)
  BY <1>1 DEF Content, SentIds, Waiting, Adding, Running
<1>3. /\ \A n \in DOMAIN channel' :
           \/ n \in DOMAIN channel /\ channel'[n] = channel[n] /\ (Queued(n)' <=> Queued(n))
           \/ n = Len(channel) + 1 /\ channel'[n] = t
              /\ (Queued(n)' => ActorAdds /\ t = task /\ ~ActorAdds')
      /\ \A n \in DOMAIN channel : n \in DOMAIN channel' /\ channel'[n] = channel[n]
  BY <1>1, AppendFacts DEF Queued
<1>4. AddedOnce'
  <2>1. \A n \in DOMAIN channel' : Queued(n)' =>
          /\ channel'[n].id \in SentIds /\ channel'[n].id \notin Content
          /\ \A m \in DOMAIN channel' : Queued(m)' /\ channel'[m].id = channel'[n].id => m = n
          /\ \A w \in Worker : Adding(w) => running[w].id # channel'[n].id
    BY <1>3 DEF IdsInv, AddedOnce
  <2>2. ActorAdds' => \A n \in DOMAIN channel' : Queued(n)' => channel'[n].id # task.id
    BY <1>3 DEF IdsInv, AddedOnce
  <2> QED
    BY <1>1, <1>2, <2>1, <2>2 DEF IdsInv, AddedOnce
<1>5. WaitingFresh'
  BY <1>1, <1>2, <1>3 DEF IdsInv, WaitingFresh
<1>6. SizesExact'
  BY <1>1 DEF IdsInv, SizesExact
<1> QED
  BY <1>4, <1>5, <1>6 DEF IdsInv

\* A worker takes a task: an add goes from the channel to the worker.
LEMMA TakeTaskIds ==
  ASSUME UsearchAssumption, UsearchTypes, IdsInv, NEW w \in Worker, TakeTask(w)
  PROVE  IdsInv'
<1> USE DEF actorVars, permitVars, workerVars, inputVars, libraryVars, indexVars
<1>1. /\ channel \in Seq(TaskType) /\ channel # <<>> /\ channel' = Tail(channel)
      /\ UNCHANGED <<rx_modify, sent, pc, task, objects>>
      /\ w \notin Running /\ Running' = Running \union {w}
      /\ running'[w] = channel[1] /\ \A v \in Running : running'[v] = running[v]
  BY TakeTaskFacts DEF TakeTask, UsearchTypes, WorkerTypes
<1>2. /\ Content' = Content /\ SentIds' = SentIds /\ ActorAdds' = ActorAdds
      /\ \A n : Waiting(n)' <=> Waiting(n)
  BY <1>1 DEF Content, SentIds, Waiting, ActorAdds
<1>3. /\ 1 \in DOMAIN channel
      /\ \A n \in DOMAIN channel' :
           /\ n \in Nat /\ n + 1 # 1 /\ n + 1 \in DOMAIN channel /\ channel'[n] = channel[n + 1]
           /\ Queued(n)' <=> Queued(n + 1)
  <2>1. 1 \in DOMAIN channel /\ \A n \in DOMAIN channel' :
           n \in Nat /\ n > 0 /\ n + 1 \in DOMAIN channel /\ channel'[n] = channel[n + 1]
    BY <1>1, TailFacts
  <2> QED
    BY <2>1 DEF Queued
<1>4. \A v \in Worker : Adding(v)' =>
        \/ v = w /\ Queued(1) /\ running'[v] = channel[1] /\ ~Adding(v)
        \/ v # w /\ Adding(v) /\ running'[v] = running[v]
  BY <1>1, <1>3 DEF Adding, Queued
<1>5. AddedOnce'
  <2>1. ActorAdds' =>
          /\ task'.id \in SentIds' /\ task'.id \notin Content'
          /\ \A n \in DOMAIN channel' : Queued(n)' => channel'[n].id # task'.id
          /\ \A v \in Worker : Adding(v)' => running'[v].id # task'.id
    BY <1>1, <1>2, <1>3, <1>4 DEF IdsInv, AddedOnce
  <2>2. ASSUME NEW n \in DOMAIN channel', Queued(n)'
        PROVE  /\ channel'[n].id \in SentIds' /\ channel'[n].id \notin Content'
               /\ \A m \in DOMAIN channel' :
                    Queued(m)' /\ channel'[m].id = channel'[n].id => m = n
               /\ \A v \in Worker : Adding(v)' => running'[v].id # channel'[n].id
    <3>1. /\ n + 1 \in DOMAIN channel /\ Queued(n + 1) /\ channel'[n] = channel[n + 1]
          /\ n \in Nat /\ n + 1 # 1
      BY <1>3, <2>2
    <3>2. \A m \in DOMAIN channel' : Queued(m)' /\ channel'[m].id = channel'[n].id => m = n
      <4>1. \A m \in DOMAIN channel' :
              Queued(m)' /\ channel'[m].id = channel'[n].id => m + 1 = n + 1
        BY <1>3, <3>1 DEF IdsInv, AddedOnce
      <4> QED
        BY <1>3, <3>1, <4>1
    <3>3. \A v \in Worker : Adding(v)' => running'[v].id # channel'[n].id
      BY <1>3, <1>4, <3>1 DEF IdsInv, AddedOnce
    <3> QED
      BY <1>2, <3>1, <3>2, <3>3 DEF IdsInv, AddedOnce
  <2>3. \A v \in Worker : Adding(v)' =>
          /\ running'[v].id \in SentIds' /\ running'[v].id \notin Content'
          /\ \A u \in Worker : Adding(u)' /\ running'[u].id = running'[v].id => u = v
    BY <1>2, <1>3, <1>4 DEF IdsInv, AddedOnce
  <2> QED
    BY <1>2, <2>1, <2>2, <2>3 DEF IdsInv, AddedOnce
<1>6. WaitingFresh'
  BY <1>1, <1>2, <1>3, <1>4 DEF IdsInv, WaitingFresh
<1>7. SizesExact'
  BY <1>1 DEF IdsInv, SizesExact
<1> QED
  BY <1>5, <1>6, <1>7 DEF IdsInv

\* A worker finishes a task: an add goes from the worker to the object, or is
\* refused; nothing else comes into an object.
LEMMA FinishTaskIds ==
  ASSUME UsearchAssumption, UsearchTypes, IdsInv, ReservationsGrow,
         NEW w \in Worker, FinishTask(w)
  PROVE  IdsInv'
<1> USE DEF actorVars, permitVars, workerVars, inputVars, libraryVars, indexVars
<1> DEFINE t == running[w]
           e == Effect(t)
<1>1. /\ UNCHANGED <<rx_modify, sent, pc, task, channel>>
      /\ w \in Running /\ Running' = Running \ {w}
      /\ \A v \in Running' : running'[v] = running[v]
      /\ objects' = [objects EXCEPT ![t.object] = e]
  BY DropPermitFacts DEF FinishTask, DropPermit
<1>2. /\ t \in TaskType /\ t.object \in Object /\ e.size = Cardinality(e.content)
      /\ t.kind # "Insert" => e.content \subseteq objects[t.object].content
      /\ e.content \subseteq objects[t.object].content \union {t.id}
      /\ objects \in [Object -> ObjectType]
  BY <1>1, EffectFacts DEF TaskType, Kinds, UsearchTypes, IndexTypes
<1>3. SizesExact'
  BY <1>1, <1>2 DEF IdsInv, SizesExact
<1>4. \A x \in Content' : x \in Content \/ (Adding(w) /\ x = t.id)
  <2>1. \A o \in Object : objects'[o].content \subseteq objects[o].content \union {t.id}
    BY <1>1, <1>2
  <2>2. ~Adding(w) => \A o \in Object : objects'[o].content \subseteq objects[o].content
    BY <1>1, <1>2 DEF Adding
  <2> QED
    BY <2>1, <2>2 DEF Content
<1>5. /\ SentIds' = SentIds /\ ActorAdds' = ActorAdds
      /\ \A n : (Waiting(n)' <=> Waiting(n)) /\ (Queued(n)' <=> Queued(n))
      /\ \A v \in Worker : Adding(v)' => v # w /\ Adding(v) /\ running'[v] = running[v]
  BY <1>1 DEF SentIds, ActorAdds, Waiting, Queued, Adding
<1>6. AddedOnce'
  BY <1>1, <1>4, <1>5 DEF IdsInv, AddedOnce
<1>7. WaitingFresh'
  BY <1>1, <1>4, <1>5 DEF IdsInv, WaitingFresh
<1> QED
  BY <1>3, <1>6, <1>7 DEF IdsInv

\* Every step keeps every id in one place.
LEMMA IdsStep ==
  ASSUME UsearchAssumption, UsearchInv, [UsearchNext]_usearchVars
  PROVE  IdsInv'
<1> USE DEF actorVars, permitVars, workerVars, inputVars, libraryVars, indexVars
<1>0. /\ UsearchTypes /\ InputTypes /\ IndexTypes /\ ActorTypes /\ WorkerTypes
      /\ IdsInv /\ ReservationsGrow
  BY DEF UsearchInv, UsearchTypes, RoomInv
<1>1. ASSUME NEW p \in PartitionId, SendAdd(p) PROVE IdsInv'
  <2>1. sent + 1 \in VectorId
    BY <1>0, <1>1 DEF SendAdd, SendModify, InputTypes, VectorId, UsearchAssumption
  <2>2. [op |-> "Insert", partition |-> p, id |-> sent + 1] \in Message
    BY <2>1 DEF Message
  <2> QED
    BY <1>0, <1>1, <2>2, SendModifyIds DEF SendAdd
<1>2. ASSUME NEW p \in PartitionId, SendRemove(p) PROVE IdsInv'
  <2>1. PICK id \in live[p] : SendModify("Remove", p, id)
    BY <1>2 DEF SendRemove
  <2>2. [op |-> "Remove", partition |-> p, id |-> id] \in Message
    BY <1>0, <2>1 DEF Message, InputTypes
  <2> QED
    BY <1>0, <2>1, <2>2, SendModifyIds
<1>3. ASSUME NEW p \in PartitionId, SendRemovePartition(p) PROVE IdsInv'
  <2>1. [op |-> "RemovePartition", partition |-> p, id |-> None] \in Message
    BY DEF Message
  <2> QED
    BY <1>0, <1>3, <2>1, SendModifyIds DEF SendRemovePartition
<1>4. ASSUME UNCHANGED <<rx_modify, sent, channel, running, objects, task>>,
             pc # "recv" \/ pc' = "recv"
      PROVE  IdsInv'
  BY <1>0, <1>4, IdsKept DEF ActorAdds, Adding, Running
<1>5. ASSUME NEW p \in PartitionId, SendSearch(p) PROVE IdsInv'
  BY <1>4, <1>5 DEF SendSearch
<1>6. CASE ReceiveSearch
  <2>1. ~ActorAdds'
    <3>1. CASE partitions[Head(rx_search)] = None
      BY <1>6, <3>1 DEF ReceiveSearch, ActorAdds
    <3>2. CASE partitions[Head(rx_search)] # None
      BY <1>6, <3>2 DEF ReceiveSearch, Dispatch, Task, ActorAdds
    <3> QED
      BY <3>1, <3>2
  <2>2. UNCHANGED <<rx_modify, sent, channel, running, objects>>
    BY <1>6 DEF ReceiveSearch
  <2> QED
    BY <1>0, <2>1, <2>2, IdsKept DEF Adding, Running
<1>7. CASE ReceiveAdd
  <2>1. task'.id = Head(rx_modify).id /\ TakeModify("Insert") /\ objects' = objects
    BY <1>7 DEF ReceiveAdd, Dispatch, Task
  <2> QED
    BY <1>0, <2>1, TakeModifyIds
<1>8. CASE DropAdd
  <2>1. ~ActorAdds' /\ TakeModify("Insert") /\ objects' = objects
    BY <1>8 DEF DropAdd, TakeModify, ActorAdds
  <2> QED
    BY <1>0, <2>1, TakeModifyIds
<1>9. CASE ReceiveRemove
  <2>1. TakeModify("Remove") /\ objects' = objects
    BY <1>9 DEF ReceiveRemove
  <2>2. ~ActorAdds'
    <3>1. CASE partitions[Head(rx_modify).partition] = None
      BY <1>9, <3>1 DEF ReceiveRemove, TakeModify, ActorAdds
    <3>2. CASE partitions[Head(rx_modify).partition] # None
      BY <1>9, <3>2 DEF ReceiveRemove, Dispatch, Task, ActorAdds
    <3> QED
      BY <3>1, <3>2
  <2> QED
    BY <1>0, <2>1, <2>2, TakeModifyIds
<1>10. CASE ReceiveRemovePartition
  <2>1. ~ActorAdds' /\ TakeModify("RemovePartition") /\ objects' = objects
    BY <1>10 DEF ReceiveRemovePartition, TakeModify, ActorAdds
  <2> QED
    BY <1>0, <2>1, TakeModifyIds
<1>11. CASE PermitForReserve \/ PermitForMessage
  BY <1>4, <1>11 DEF PermitForReserve, PermitForMessage, Permit
<1>12. CASE \/ StartWaiting("loadedReserve", "waitingReserve")
            \/ StartWaiting("loaded", "waiting")
            \/ Notified("loadedReserve", "waitingReserve", "reserve")
            \/ Notified("loaded", "waiting", "permit")
  BY <1>4, <1>12 DEF StartWaiting, Notified
<1>13. CASE SkipReserve
  BY <1>4, <1>13 DEF SkipReserve
<1>14. CASE SendReserve
  <2> DEFINE t == Task("Reserve", task.object, objects[task.object].capacity + Increment, {})
  <2>1. task.object \in Object /\ objects[task.object].capacity + Increment \in Nat
    BY <1>0, <1>14 DEF SendReserve, ActorTypes, TaskType, IndexTypes, ObjectType,
                       UsearchAssumption
  <2>2. t \in TaskType /\ t.kind # "Insert"
    BY <2>1 DEF Task, TaskType, Kinds
  <2>3. SendToWorkers(t) /\ (ActorAdds' => ActorAdds)
    BY <1>14 DEF SendReserve, SendToWorkers, ActorAdds
  <2> QED
    BY <1>0, <2>2, <2>3, SendIds
<1>15. CASE SendTask
  <2>1. SendToWorkers(task) /\ task \in TaskType /\ ~ActorAdds'
        /\ (task.kind = "Insert" => ActorAdds)
    BY <1>0, <1>15 DEF SendTask, ActorTypes, ActorAdds
  <2> QED
    BY <1>0, <2>1, SendIds
<1>16. ASSUME NEW w \in Worker, FailTask(w) PROVE IdsInv'
  <2>1. /\ UNCHANGED <<rx_modify, sent, channel, objects, pc, task>>
        /\ Running' = Running \ {w} /\ \A v \in Running' : running'[v] = running[v]
    BY <1>0, <1>16, DropPermitFacts DEF FailTask, DropPermit
  <2> QED
    BY <1>0, <2>1, IdsKept DEF ActorAdds, Adding
<1>17. ASSUME NEW w \in Worker, WorkerStep(w) PROVE IdsInv'
  BY <1>0, <1>4, <1>16, <1>17, TakeTaskIds, FinishTaskIds DEF WorkerStep, NotifyOne
<1>18. CASE UNCHANGED usearchVars
  BY <1>4, <1>18 DEF usearchVars
<1> QED
  BY <1>1, <1>2, <1>3, <1>5, <1>6, <1>7, <1>8, <1>9, <1>10, <1>11, <1>12, <1>13, <1>14,
     <1>15, <1>17, <1>18
  DEF UsearchNext, Actor, Receive

-----------------------------------------------------------------------------
(* Room.                                                                   *)

\* Counting places of a channel whose first message was taken.
LEMMA ShiftDown ==
  ASSUME NEW k \in Nat, NEW S \in SUBSET (1 .. k), NEW R,
         R = {n \in 1 .. (k - 1) : n + 1 \in S}
  PROVE  /\ IsFiniteSet(S) /\ IsFiniteSet(R)
         /\ Cardinality(S) \in Nat /\ Cardinality(R) \in Nat
         /\ Cardinality(R) = IF 1 \in S THEN Cardinality(S) - 1 ELSE Cardinality(S)
<1>1. IsFiniteSet(1 .. k)
  BY FS_Interval
<1>2. IsFiniteSet(S) /\ IsFiniteSet(R)
  <2>1. R \subseteq 1 .. k
    OBVIOUS
  <2> QED
    BY <1>1, <2>1, FS_Subset
<1>3. Cardinality(S) \in Nat /\ Cardinality(R) \in Nat
  BY <1>2, FS_CardinalityType
<1> DEFINE f == [n \in R |-> n + 1]
<1>4. f \in Bijection(R, S \ {1})
  <2>1. \A n \in R : n \in Nat /\ n + 1 \in S \ {1}
    OBVIOUS
  <2>2. f \in [R -> S \ {1}]
    BY <2>1
  <2>3. \A m, n \in R : f[m] = f[n] => m = n
    BY <2>1
  <2>4. \A n \in S \ {1} : n - 1 \in R /\ f[n - 1] = n
    OBVIOUS
  <2> QED
    BY <2>2, <2>3, <2>4 DEF Bijection, Injection, Surjection, IsInjective
<1>5. Cardinality(S \ {1}) = Cardinality(R)
  <2>1. ExistsBijection(R, S \ {1})
    BY <1>4 DEF ExistsBijection
  <2> QED
    BY <1>2, <2>1, FS_Bijection
<1>6. Cardinality(S \ {1}) = IF 1 \in S THEN Cardinality(S) - 1 ELSE Cardinality(S)
  BY <1>2, FS_RemoveElement
<1> QED
  BY <1>2, <1>3, <1>5, <1>6

\* The adds on their way are finitely many, at most the slots of the channel
\* and the workers.
LEMMA ComingBounded ==
  ASSUME UsearchAssumption, UsearchTypes, NEW o
  PROVE  /\ IsFiniteSet(QueuedAdds(o)) /\ IsFiniteSet(RunningAdds(o))
         /\ Cardinality(QueuedAdds(o)) \in Nat /\ Cardinality(RunningAdds(o)) \in Nat
         /\ Coming(o) \in Nat
         /\ Coming(o) <= ChannelSize + Cardinality(Worker)
         /\ Cardinality(Worker) \in Nat
<1>1. QueuedAdds(o) \subseteq 1 .. Len(channel) /\ Len(channel) \in Nat
      /\ Len(channel) <= ChannelSize /\ ChannelSize \in Nat
  BY DEF QueuedAdds, UsearchTypes, WorkerTypes, UsearchAssumption
<1>2. /\ IsFiniteSet(QueuedAdds(o)) /\ Cardinality(QueuedAdds(o)) \in Nat
      /\ Cardinality(QueuedAdds(o)) <= Len(channel)
  <2>1. IsFiniteSet(1 .. Len(channel)) /\ Cardinality(1 .. Len(channel)) = Len(channel)
    <3>1. 1 \in Int /\ Len(channel) \in Int
      BY <1>1
    <3>2. /\ IsFiniteSet(1 .. Len(channel))
          /\ Cardinality(1 .. Len(channel)) = IF 1 > Len(channel) THEN 0 ELSE Len(channel) - 1 + 1
      BY <3>1, FS_Interval
    <3> QED
      BY <1>1, <3>2
  <2> QED
    BY <1>1, <2>1, FS_Subset, FS_CardinalityType
<1>3. /\ IsFiniteSet(RunningAdds(o)) /\ Cardinality(RunningAdds(o)) \in Nat
      /\ Cardinality(RunningAdds(o)) <= Cardinality(Worker) /\ Cardinality(Worker) \in Nat
  BY WorkersFinite DEF RunningAdds, Running
<1> QED
  BY <1>1, <1>2, <1>3 DEF Coming

RoomForComing ==
  failures = 0 => \A o \in Object : objects[o].size + Coming(o) <= objects[o].capacity

\* RoomForAdds in terms of the adds that are coming.
LEMMA RoomOf ==
  UsearchAssumption /\ UsearchTypes => (RoomForAdds <=> RoomForComing)
<1> SUFFICES ASSUME UsearchAssumption, UsearchTypes
             PROVE  RoomForAdds <=> RoomForComing
  OBVIOUS
<1>0. RoomForAdds <=> (failures = 0 =>
        \A o \in Object :
          objects[o].size + Cardinality(QueuedAdds(o)) + Cardinality(RunningAdds(o))
            <= objects[o].capacity)
  BY DEF RoomForAdds, QueuedAdds, RunningAdds
<1>1. \A o \in Object : objects[o].size \in Nat /\ objects[o].capacity \in Nat
  BY DEF UsearchTypes, IndexTypes, ObjectType
<1>2. \A o \in Object :
        objects[o].size + Cardinality(QueuedAdds(o)) + Cardinality(RunningAdds(o))
          = objects[o].size + Coming(o)
  <2> TAKE o \in Object
  <2>1. Cardinality(QueuedAdds(o)) \in Nat /\ Cardinality(RunningAdds(o)) \in Nat
    BY ComingBounded
  <2> QED
    BY <1>1, <2>1 DEF Coming
<1> QED
  BY <1>0, <1>2 DEF RoomForComing

\* The same after a step.
LEMMA RoomOfNext ==
  ASSUME UsearchAssumption, UsearchTypes'
  PROVE  RoomForAdds' <=> RoomForComing'
<1>1. (UsearchAssumption /\ UsearchTypes => (RoomForAdds <=> RoomForComing))'
  BY RoomOf, PTL
<1> QED
  BY <1>1 DEF UsearchAssumption

\* What is coming when a worker takes a task: the same.
LEMMA ComingKeptByTake ==
  ASSUME UsearchAssumption, UsearchTypes, NEW w \in Worker, TakeTask(w), NEW o
  PROVE  Coming(o)' = Coming(o)
<1>1. /\ channel \in Seq(TaskType) /\ channel # <<>> /\ channel' = Tail(channel)
      /\ w \notin Running /\ Running' = Running \union {w}
      /\ running'[w] = channel[1] /\ \A v \in Running : running'[v] = running[v]
  BY TakeTaskFacts DEF UsearchTypes, WorkerTypes
<1>2. Len(channel) \in Nat /\ DOMAIN channel = 1 .. Len(channel) /\ 1 \in DOMAIN channel
      /\ DOMAIN channel' = 1 .. (Len(channel) - 1)
      /\ \A n \in DOMAIN channel' : channel'[n] = channel[n + 1] /\ n + 1 \in DOMAIN channel
  BY <1>1, TailFacts
<1>3. QueuedAdds(o)' = {n \in 1 .. (Len(channel) - 1) : n + 1 \in QueuedAdds(o)}
  BY <1>2 DEF QueuedAdds
<1>4. QueuedAdds(o) \in SUBSET (1 .. Len(channel))
  BY <1>2 DEF QueuedAdds
<1>5. /\ Cardinality(QueuedAdds(o)) \in Nat
      /\ Cardinality(QueuedAdds(o)') =
           IF 1 \in QueuedAdds(o) THEN Cardinality(QueuedAdds(o)) - 1
           ELSE Cardinality(QueuedAdds(o))
  BY <1>2, <1>3, <1>4, ShiftDown
<1>6. RunningAdds(o) \in SUBSET Worker /\ w \notin RunningAdds(o)
      /\ Cardinality(RunningAdds(o)) \in Nat
  BY <1>1, ComingBounded DEF RunningAdds, Running
<1>7. CASE 1 \in QueuedAdds(o)
  <2>1. RunningAdds(o)' = RunningAdds(o) \union {w}
    BY <1>1, <1>7 DEF RunningAdds, QueuedAdds
  <2>2. Cardinality(RunningAdds(o)') = Cardinality(RunningAdds(o)) + 1
    BY <1>6, <2>1, WorkerStarts
  <2> QED
    BY <1>5, <1>6, <1>7, <2>2 DEF Coming
<1>8. CASE 1 \notin QueuedAdds(o)
  <2>1. RunningAdds(o)' = RunningAdds(o)
    BY <1>1, <1>2, <1>8 DEF RunningAdds, QueuedAdds
  <2> QED
    BY <1>5, <1>6, <1>8, <2>1 DEF Coming
<1> QED
  BY <1>7, <1>8

\* What is coming when a task is over: one less if it was an add.
LEMMA ComingAfterDrop ==
  ASSUME UsearchAssumption, UsearchTypes, NEW w \in Worker, running[w] # None, DropPermit(w),
         NEW o
  PROVE  /\ running[w].kind = "Insert" /\ running[w].object = o =>
              Coming(o)' = Coming(o) - 1 /\ Coming(o) > 0
         /\ ~(running[w].kind = "Insert" /\ running[w].object = o) => Coming(o)' = Coming(o)
<1>1. /\ channel' = channel /\ w \in Running /\ Running' = Running \ {w}
      /\ \A v \in Running' : running'[v] = running[v]
  BY DropPermitFacts
<1>2. QueuedAdds(o)' = QueuedAdds(o)
  BY <1>1 DEF QueuedAdds
<1>3. RunningAdds(o) \in SUBSET Worker
  BY DEF RunningAdds, Running
<1>4. /\ Cardinality(QueuedAdds(o)) \in Nat /\ Cardinality(RunningAdds(o)) \in Nat
  BY ComingBounded
<1>5. CASE running[w].kind = "Insert" /\ running[w].object = o
  <2>1. RunningAdds(o)' = RunningAdds(o) \ {w} /\ w \in RunningAdds(o)
    BY <1>1, <1>5 DEF RunningAdds
  <2>2. /\ Cardinality(RunningAdds(o)') = Cardinality(RunningAdds(o)) - 1
        /\ Cardinality(RunningAdds(o)) > 0
    BY <1>3, <2>1, WorkerStops
  <2> QED
    BY <1>2, <1>4, <1>5, <2>2 DEF Coming
<1>6. CASE ~(running[w].kind = "Insert" /\ running[w].object = o)
  <2>1. RunningAdds(o)' = RunningAdds(o)
    BY <1>1, <1>6 DEF RunningAdds
  <2> QED
    BY <1>2, <1>6, <2>1 DEF Coming
<1> QED
  BY <1>5, <1>6

\* What is coming when the actor sends a task: one more if it is an add.
LEMMA ComingAfterSend ==
  ASSUME UsearchAssumption, UsearchTypes, NEW t \in TaskType, SendToWorkers(t), NEW o
  PROVE  Coming(o)' = IF t.kind = "Insert" /\ t.object = o THEN Coming(o) + 1 ELSE Coming(o)
<1>1. /\ channel \in Seq(TaskType) /\ channel' = Append(channel, t) /\ Len(channel) \in Nat
      /\ running' = running /\ Running' = Running
  BY SendFacts DEF UsearchTypes, WorkerTypes
<1>2. RunningAdds(o)' = RunningAdds(o)
  BY <1>1 DEF RunningAdds
<1>3. /\ IsFiniteSet(QueuedAdds(o)) /\ Cardinality(QueuedAdds(o)) \in Nat
      /\ Cardinality(RunningAdds(o)) \in Nat
  BY ComingBounded
<1>4. CASE t.kind = "Insert" /\ t.object = o
  <2>1. QueuedAdds(o)' = QueuedAdds(o) \union {Len(channel) + 1}
    BY <1>1, <1>4, AppendFacts DEF QueuedAdds
  <2>2. Len(channel) + 1 \notin QueuedAdds(o)
    BY <1>1 DEF QueuedAdds
  <2>3. Cardinality(QueuedAdds(o)') = Cardinality(QueuedAdds(o)) + 1
    BY <1>3, <2>1, <2>2, FS_AddElement
  <2> QED
    BY <1>2, <1>3, <1>4, <2>3 DEF Coming
<1>5. CASE ~(t.kind = "Insert" /\ t.object = o)
  <2>1. QueuedAdds(o)' = QueuedAdds(o)
    BY <1>1, <1>5, AppendFacts DEF QueuedAdds
  <2> QED
    BY <1>2, <1>5, <2>1 DEF Coming
<1> QED
  BY <1>4, <1>5

\* A partition that needs no more capacity has room for what is coming and
\* for one more add.
LEMMA EnoughRoom ==
  ASSUME UsearchAssumption, UsearchTypes, NEW o \in Object, ~NeedsMoreCapacity(o)
  PROVE  objects[o].size + Coming(o) + 1 <= objects[o].capacity
<1>1. objects[o].size \in Nat /\ objects[o].capacity \in Nat
  BY DEF UsearchTypes, IndexTypes, ObjectType
<1>2. Coming(o) \in Nat /\ Coming(o) <= ChannelSize + Cardinality(Worker)
      /\ Cardinality(Worker) \in Nat /\ ChannelSize \in Nat
  BY ComingBounded DEF UsearchAssumption
<1>3. ~((IF objects[o].capacity - objects[o].size > 0
         THEN objects[o].capacity - objects[o].size ELSE 0) < FreeThreshold)
  BY DEF NeedsMoreCapacity
<1> QED
  BY <1>1, <1>2, <1>3 DEF FreeThreshold

\* A task that runs in an exclusive mode is the last one there is.
LEMMA ExclusiveIsLast ==
  ASSUME UsearchAssumption, UsearchTypes, PermitInv, NEW w \in Running, IsExclusive(mode)
  PROVE  Running = {w} /\ channel = <<>> /\ Dispatched = {running[w]}
<1>1. IsFiniteSet(Running) /\ Cardinality(Running) \in Nat /\ Len(channel) \in Nat
      /\ counter \in Nat
  BY WorkersFinite DEF Running, UsearchTypes, WorkerTypes
<1>2. Cardinality(Running) > 0
  BY WorkerStops DEF Running
<1>3. Cardinality(Running) = 1 /\ Len(channel) = 0
  BY <1>1, <1>2 DEF PermitInv, PermitsCounted, AloneIfExclusive, Held
<1>4. \E x : Running = {x}
  BY <1>1, <1>3, FS_Singleton
<1>5. Running = {w}
  BY <1>4
<1>6. channel = <<>>
  BY <1>3 DEF UsearchTypes, WorkerTypes
<1> QED
  BY <1>5, <1>6 DEF Dispatched

\* Room is kept where sizes, capacities and tasks stay as they are.
LEMMA RoomKept ==
  ASSUME RoomInv, UNCHANGED <<objects, failures, channel, running>>,
         ActorAdds' /\ pc' \in MessagePc => ActorAdds /\ pc \in MessagePc /\ task' = task
  PROVE  RoomInv'
<1>1. Running' = Running /\ Dispatched' = Dispatched
  BY DEF Running, Dispatched
<1>2. \A o : QueuedAdds(o)' = QueuedAdds(o) /\ RunningAdds(o)' = RunningAdds(o)
             /\ Coming(o)' = Coming(o) /\ (Reserving(o)' <=> Reserving(o))
  BY <1>1 DEF QueuedAdds, RunningAdds, Coming, Reserving
<1>3. RoomForAdds'
  BY <1>1 DEF RoomInv, RoomForAdds
<1>4. RoomForNext'
  BY <1>2 DEF RoomInv, RoomForNext
<1>5. ReservationsGrow'
  BY <1>1 DEF RoomInv, ReservationsGrow
<1> QED
  BY <1>3, <1>4, <1>5 DEF RoomInv

\* The actor receives an add: either it reserves first or there is room.
LEMMA ReceiveAddRoom ==
  ASSUME UsearchAssumption, UsearchInv, UsearchTypes', ReceiveAdd
  PROVE  RoomInv'
<1> USE DEF actorVars, permitVars, workerVars, inputVars, libraryVars, indexVars
<1>1. /\ UNCHANGED <<objects, failures, channel, running>> /\ pc = "recv"
      /\ UsearchTypes /\ RoomInv
  BY DEF ReceiveAdd, TakeModify, UsearchInv
<1>2. /\ pc' \in MessagePc => ~NeedsMoreCapacity(task'.object)
      /\ pc' # "recv"
  BY DEF ReceiveAdd, Dispatch, Task, MessagePc
<1>3. task'.object \in Object
  BY <1>2 DEF UsearchTypes, ActorTypes, TaskType
<1>4. Running' = Running /\ Dispatched' = Dispatched
      /\ \A o : Coming(o)' = Coming(o)
  BY <1>1 DEF Running, Dispatched, Coming, QueuedAdds, RunningAdds
<1>5. RoomForNext'
  <2>1. pc' \in MessagePc =>
          objects[task'.object].size + Coming(task'.object) + 1 <= objects[task'.object].capacity
    BY <1>1, <1>2, <1>3, EnoughRoom
  <2> QED
    BY <1>1, <1>4, <2>1 DEF RoomForNext
<1>6. RoomForAdds' /\ ReservationsGrow'
  BY <1>1, <1>4 DEF RoomInv, RoomForAdds, ReservationsGrow
<1> QED
  BY <1>5, <1>6 DEF RoomInv

\* There is room by now: the reservation is not needed any more.
LEMMA SkipReserveRoom ==
  ASSUME UsearchAssumption, UsearchInv, SkipReserve
  PROVE  RoomInv'
<1> USE DEF actorVars, permitVars, workerVars, inputVars, libraryVars, indexVars
<1>1. /\ UNCHANGED <<objects, failures, channel, running, task>> /\ pc = "check"
      /\ ~NeedsMoreCapacity(task.object) /\ UsearchTypes /\ RoomInv
  BY DEF SkipReserve, UsearchInv
<1>2. task.object \in Object
  BY <1>1 DEF UsearchTypes, ActorTypes, TaskType
<1>3. Running' = Running /\ Dispatched' = Dispatched
      /\ \A o : Coming(o)' = Coming(o)
  BY <1>1 DEF Running, Dispatched, Coming, QueuedAdds, RunningAdds
<1>4. RoomForNext'
  <2>1. objects[task.object].size + Coming(task.object) + 1 <= objects[task.object].capacity
    BY <1>1, <1>2, EnoughRoom
  <2> QED
    BY <1>1, <1>3, <2>1 DEF RoomForNext
<1>5. RoomForAdds' /\ ReservationsGrow'
  BY <1>1, <1>3 DEF RoomInv, RoomForAdds, ReservationsGrow
<1> QED
  BY <1>4, <1>5 DEF RoomInv

\* A reservation goes to the workers; the add that asked for it waits.
LEMMA SendReserveRoom ==
  ASSUME UsearchAssumption, UsearchInv, UsearchTypes', SendReserve
  PROVE  RoomInv'
<1> USE DEF actorVars, permitVars, workerVars, inputVars, libraryVars, indexVars
<1> DEFINE t == Task("Reserve", task.object, objects[task.object].capacity + Increment, {})
<1>1. /\ UNCHANGED <<objects, failures, task>> /\ SendToWorkers(t) /\ UsearchTypes /\ RoomInv
  BY DEF SendReserve, SendToWorkers, UsearchInv
<1>2. task.object \in Object /\ objects[task.object].capacity + Increment \in Nat
  BY DEF UsearchInv, UsearchTypes, SendReserve, ActorTypes, TaskType, IndexTypes, ObjectType,
         UsearchAssumption
<1>3. /\ t \in TaskType /\ t.kind = "Reserve" /\ t.object = task.object
      /\ t.id = objects[task.object].capacity + Increment
  BY <1>2 DEF Task, TaskType, Kinds
<1> HIDE DEF t
<1>4. Dispatched' = Dispatched \union {t}
  BY <1>1, <1>3, SendFacts
<1>5. \A o \in Object : Coming(o)' = Coming(o)
  <2> TAKE o \in Object
  <2> QED
    BY <1>1, <1>3, ComingAfterSend
<1>6. RoomForAdds'
  <2>1. failures = 0 => \A o \in Object : objects[o].size + Coming(o) <= objects[o].capacity
    BY <1>1, RoomOf DEF RoomInv, RoomForComing
  <2>2. failures' = 0 =>
          \A o \in Object : objects'[o].size + Coming(o)' <= objects'[o].capacity
    BY <1>1, <1>5, <2>1
  <2> QED
    BY <2>2, RoomOfNext DEF RoomForComing
<1>7. RoomForNext'
  BY <1>1, <1>3, <1>4 DEF RoomForNext, Reserving
<1>8. ReservationsGrow'
  BY <1>1, <1>3, <1>4 DEF RoomInv, ReservationsGrow
<1> QED
  BY <1>6, <1>7, <1>8 DEF RoomInv

\* An add goes to the workers: there is room for it, because no reservation
\* is on its way while adds have the permits.
LEMMA SendTaskRoom ==
  ASSUME UsearchAssumption, UsearchInv, UsearchTypes', SendTask
  PROVE  RoomInv'
<1> USE DEF actorVars, permitVars, workerVars, inputVars, libraryVars, indexVars
<1>1. /\ UNCHANGED <<objects, failures, task>> /\ SendToWorkers(task) /\ pc = "send"
      /\ pc' = "recv" /\ UsearchTypes /\ RoomInv /\ task \in TaskType
      /\ task.kind # "Reserve" /\ task.object \in Object /\ mode = task.kind
  BY DEF SendTask, SendToWorkers, UsearchInv, UsearchTypes, ActorTypes, PermitInv, OneMode, Mode,
         TaskType
<1>2. Dispatched' = Dispatched \union {task}
  BY <1>1, SendFacts
<1>3. ~Reserving(task.object)
  BY <1>1 DEF Reserving, Dispatched, UsearchInv, PermitInv, OneMode
<1>4. RoomForAdds'
  <2>1. failures = 0 => \A o \in Object : objects[o].size + Coming(o) <= objects[o].capacity
    BY <1>1, RoomOf DEF RoomInv, RoomForComing
  <2>2. failures = 0 /\ task.kind = "Insert" =>
          objects[task.object].size + Coming(task.object) + 1 <= objects[task.object].capacity
    BY <1>1, <1>3 DEF RoomInv, RoomForNext, ActorAdds, MessagePc
  <2>3. ASSUME failures' = 0, NEW o \in Object
        PROVE  objects'[o].size + Coming(o)' <= objects'[o].capacity
    <3>1. Coming(o)' = IF task.kind = "Insert" /\ task.object = o
                       THEN Coming(o) + 1 ELSE Coming(o)
      BY <1>1, ComingAfterSend
    <3>2. Coming(o) \in Nat /\ objects[o].size \in Nat /\ objects[o].capacity \in Nat
      BY <1>1, ComingBounded DEF UsearchTypes, IndexTypes, ObjectType
    <3> QED
      BY <1>1, <2>1, <2>2, <2>3, <3>1, <3>2
  <2> QED
    BY <2>3, RoomOfNext DEF RoomForComing
<1>5. RoomForNext'
  BY <1>1 DEF RoomForNext, ActorAdds
<1>6. ReservationsGrow'
  BY <1>1, <1>2 DEF RoomInv, ReservationsGrow
<1> QED
  BY <1>4, <1>5, <1>6 DEF RoomInv

\* A task moves from the channel to a worker: no room is used.
LEMMA TakeTaskRoom ==
  ASSUME UsearchAssumption, UsearchInv, UsearchTypes', NEW w \in Worker, TakeTask(w)
  PROVE  RoomInv'
<1> USE DEF actorVars, permitVars, workerVars, inputVars, libraryVars, indexVars
<1>1. /\ UNCHANGED <<objects, failures, pc, task>> /\ UsearchTypes /\ RoomInv
      /\ Dispatched' = Dispatched
  BY TakeTaskFacts DEF TakeTask, UsearchInv
<1>2. \A o : Coming(o)' = Coming(o)
  BY <1>1, ComingKeptByTake
<1>3. RoomForAdds'
  <2>1. failures = 0 => \A o \in Object : objects[o].size + Coming(o) <= objects[o].capacity
    BY <1>1, RoomOf DEF RoomInv, RoomForComing
  <2>2. failures' = 0 =>
          \A o \in Object : objects'[o].size + Coming(o)' <= objects'[o].capacity
    BY <1>1, <1>2, <2>1
  <2> QED
    BY <2>2, RoomOfNext DEF RoomForComing
<1>4. RoomForNext'
  <2>1. \A o : Reserving(o)' <=> Reserving(o)
    BY <1>1 DEF Reserving
  <2> QED
    BY <1>1, <1>2, <2>1 DEF RoomInv, RoomForNext, ActorAdds
<1>5. ReservationsGrow'
  BY <1>1 DEF RoomInv, ReservationsGrow
<1> QED
  BY <1>3, <1>4, <1>5 DEF RoomInv

\* A task is over: what an add brings to the size it takes from what is
\* coming, and a reservation makes room for the add that asked for it.
LEMMA FinishTaskRoom ==
  ASSUME UsearchAssumption, UsearchInv, UsearchTypes', NEW w \in Worker, FinishTask(w)
  PROVE  RoomInv'
<1> USE DEF actorVars, permitVars, workerVars, inputVars, libraryVars, indexVars
<1> DEFINE t == running[w]
           e == Effect(t)
<1>1. /\ UNCHANGED <<failures, pc, task>> /\ UsearchTypes /\ RoomInv /\ PermitInv /\ IdsInv
      /\ objects' = [objects EXCEPT ![t.object] = e] /\ objects \in [Object -> ObjectType]
      /\ t # None /\ DropPermit(w) /\ w \in Running /\ Increment \in Nat /\ Increment > 0
  BY DEF FinishTask, DropPermit, UsearchInv, UsearchTypes, IndexTypes, Running, UsearchAssumption
<1>2. /\ t \in TaskType /\ t.object \in Object /\ t.kind \in Kinds
      /\ e \in ObjectType /\ objects[t.object] \in ObjectType
      /\ t.kind = "Reserve" =>
           e.size = objects[t.object].size /\ e.capacity = objects[t.object].capacity + Increment
      /\ t.kind # "Reserve" => e.capacity = objects[t.object].capacity
      /\ t.kind = "Insert" /\ objects[t.object].size < objects[t.object].capacity =>
           e.size = objects[t.object].size + 1
      /\ t.kind \in {"Remove", "Search"} => e.size <= objects[t.object].size
  <2>1. t \in TaskType /\ t.object \in Object /\ t.kind \in Kinds
    BY <1>1, EffectFacts DEF RoomInv, TaskType
  <2>2. e \in ObjectType /\ objects[t.object] \in ObjectType /\ objects[t.object].size \in Nat
    BY <1>1, <2>1, EffectFacts DEF RoomInv, ObjectType
  <2> QED
    BY <1>1, <2>1, <2>2, EffectFacts DEF RoomInv
<1> HIDE DEF e
<1>3. ASSUME NEW o \in Object
      PROVE  /\ objects[o].size \in Nat /\ objects[o].capacity \in Nat
             /\ objects'[o].size \in Nat /\ objects'[o].capacity \in Nat
             /\ Coming(o) \in Nat /\ Coming(o)' \in Nat
             /\ objects'[o].capacity >= objects[o].capacity
             /\ t.kind = "Reserve" /\ t.object = o =>
                  objects'[o].capacity >= objects[o].capacity + 1
             /\ failures = 0 =>
                  /\ objects[o].size + Coming(o) <= objects[o].capacity
                  /\ objects'[o].size + Coming(o)' <= objects[o].size + Coming(o)
  <2>1. /\ objects[o].size \in Nat /\ objects[o].capacity \in Nat
        /\ objects'[o].size \in Nat /\ objects'[o].capacity \in Nat
    BY <1>1, <1>2 DEF ObjectType
  <2>2. Coming(o) \in Nat
    BY <1>1, ComingBounded
  <2>3. failures = 0 => objects[o].size + Coming(o) <= objects[o].capacity
    BY <1>1, RoomOf DEF RoomInv, RoomForComing
  <2>4. CASE t.object # o
    <3>1. Coming(o)' = Coming(o)
      BY <1>1, <2>4, ComingAfterDrop
    <3>2. objects'[o] = objects[o]
      BY <1>1, <2>4
    <3> QED
      BY <2>1, <2>2, <2>3, <2>4, <3>1, <3>2
  <2>5. CASE t.object = o /\ t.kind = "Insert"
    <3>1. Coming(o)' = Coming(o) - 1 /\ Coming(o) > 0
      BY <1>1, <2>5, ComingAfterDrop
    <3>2. objects'[o] = e /\ e.capacity = objects[o].capacity
      BY <1>1, <1>2, <2>5
    <3>3. failures = 0 => e.size = objects[o].size + 1
      BY <1>2, <2>1, <2>2, <2>3, <2>5, <3>1
    <3> QED
      BY <2>1, <2>2, <2>3, <2>5, <3>1, <3>2, <3>3
  <2>6. CASE t.object = o /\ t.kind # "Insert"
    <3>1. Coming(o)' = Coming(o)
      BY <1>1, <2>6, ComingAfterDrop
    <3>2. objects'[o] = e
      BY <1>1, <2>6
    <3>3. e.size <= objects[o].size /\ (t.kind # "Reserve" => e.capacity = objects[o].capacity)
          /\ (t.kind = "Reserve" => e.capacity = objects[o].capacity + Increment)
      BY <1>2, <2>1, <2>6, <3>2 DEF Kinds
    <3> QED
      BY <1>1, <2>1, <2>2, <2>3, <2>6, <3>1, <3>2, <3>3
  <2> QED
    BY <2>4, <2>5, <2>6
<1>4. RoomForAdds'
  <2>1. failures' = 0 =>
          \A o \in Object : objects'[o].size + Coming(o)' <= objects'[o].capacity
    BY <1>1, <1>3
  <2> QED
    BY <2>1, RoomOfNext DEF RoomForComing
<1>5. RoomForNext'
  <2> SUFFICES ASSUME failures = 0, ActorAdds, pc \in MessagePc, NEW o \in Object,
                      o = task.object, ~Reserving(o)'
               PROVE  objects'[o].size + Coming(o)' + 1 <= objects'[o].capacity
    BY <1>1 DEF RoomForNext, ActorAdds
  <2>1. CASE objects[o].size + Coming(o) + 1 <= objects[o].capacity
    BY <1>3, <2>1
  <2>2. CASE Reserving(o)
    <3>1. t.kind = "Reserve" /\ t.object = o
      BY <1>1, <2>2, DropPermitFacts DEF Reserving
    <3> QED
      BY <1>3, <3>1
  <2> QED
    BY <1>1, <2>1, <2>2 DEF RoomInv, RoomForNext
<1>6. ReservationsGrow'
  <2>1. CASE t.kind = "Reserve"
    <3>1. IsExclusive(mode)
      BY <1>1, <2>1 DEF IsExclusive, PermitInv, OneMode
    <3>2. Running = {w} /\ channel = <<>>
      BY <1>1, <3>1, ExclusiveIsLast
    <3>3. Running' = {} /\ channel' = <<>>
      BY <1>1, <3>2, DropPermitFacts
    <3>4. Dispatched' = {}
      BY <3>3 DEF Dispatched
    <3> QED
      BY <3>4 DEF ReservationsGrow
  <2>2. CASE t.kind # "Reserve"
    <3>1. \A o \in Object : objects'[o].capacity = objects[o].capacity
      BY <1>1, <1>2, <2>2
    <3>2. Dispatched' \subseteq Dispatched
      BY <1>1, DropPermitFacts
    <3>3. \A u \in Dispatched : u.object \in Object
      BY <1>1, DispatchedTypes DEF TaskType
    <3> QED
      BY <1>1, <3>1, <3>2, <3>3 DEF RoomInv, ReservationsGrow
  <2> QED
    BY <2>1, <2>2
<1> QED
  BY <1>4, <1>5, <1>6 DEF RoomInv

\* Every step keeps room for the adds on their way, while nothing fails.
LEMMA RoomStep ==
  ASSUME UsearchAssumption, UsearchInv, UsearchTypes', [UsearchNext]_usearchVars
  PROVE  RoomInv'
<1> USE DEF actorVars, permitVars, workerVars, inputVars, libraryVars, indexVars
<1>0. /\ UsearchTypes /\ ActorTypes /\ IndexTypes /\ RoomInv
  BY DEF UsearchInv, UsearchTypes
<1>1. ASSUME UNCHANGED <<objects, failures, channel, running, task>>,
             pc' \in MessagePc => pc \in MessagePc
      PROVE  RoomInv'
  BY <1>0, <1>1, RoomKept DEF ActorAdds, MessagePc
<1>2. ASSUME NEW p \in PartitionId,
             SendAdd(p) \/ SendRemove(p) \/ SendRemovePartition(p) \/ SendSearch(p)
      PROVE  RoomInv'
  BY <1>1, <1>2 DEF SendAdd, SendRemove, SendRemovePartition, SendSearch, SendModify
<1>3. CASE ReceiveSearch
  <2>1. ~ActorAdds'
    <3>1. CASE partitions[Head(rx_search)] = None
      BY <1>3, <3>1 DEF ReceiveSearch, ActorAdds
    <3>2. CASE partitions[Head(rx_search)] # None
      BY <1>3, <3>2 DEF ReceiveSearch, Dispatch, Task, ActorAdds
    <3> QED
      BY <3>1, <3>2
  <2>2. UNCHANGED <<objects, failures, channel, running>>
    BY <1>3 DEF ReceiveSearch
  <2> QED
    BY <1>0, <2>1, <2>2, RoomKept
<1>4. CASE ReceiveRemove
  <2>1. ~ActorAdds'
    <3>1. CASE partitions[Head(rx_modify).partition] = None
      BY <1>4, <3>1 DEF ReceiveRemove, TakeModify, ActorAdds
    <3>2. CASE partitions[Head(rx_modify).partition] # None
      BY <1>4, <3>2 DEF ReceiveRemove, Dispatch, Task, ActorAdds
    <3> QED
      BY <3>1, <3>2
  <2>2. UNCHANGED <<objects, failures, channel, running>>
    BY <1>4 DEF ReceiveRemove, TakeModify
  <2> QED
    BY <1>0, <2>1, <2>2, RoomKept
<1>5. CASE DropAdd \/ ReceiveRemovePartition
  BY <1>1, <1>5 DEF DropAdd, ReceiveRemovePartition, TakeModify
<1>6. CASE PermitForReserve \/ PermitForMessage
  BY <1>1, <1>6 DEF PermitForReserve, PermitForMessage, Permit, MessagePc
<1>7. CASE \/ StartWaiting("loadedReserve", "waitingReserve")
           \/ StartWaiting("loaded", "waiting")
           \/ Notified("loadedReserve", "waitingReserve", "reserve")
           \/ Notified("loaded", "waiting", "permit")
  BY <1>1, <1>7 DEF StartWaiting, Notified, MessagePc
<1>8. ASSUME NEW w \in Worker, FailTask(w) PROVE RoomInv'
  <2>1. failures' # 0 /\ objects' = objects /\ Dispatched' \subseteq Dispatched
    BY <1>0, <1>8, DropPermitFacts DEF FailTask, IndexTypes
  <2> QED
    BY <1>0, <2>1 DEF RoomInv, RoomForAdds, RoomForNext, ReservationsGrow
<1>9. ASSUME NEW w \in Worker, WorkerStep(w) PROVE RoomInv'
  BY <1>1, <1>8, <1>9, TakeTaskRoom, FinishTaskRoom DEF WorkerStep, NotifyOne
<1>10. CASE UNCHANGED usearchVars
  BY <1>1, <1>10 DEF usearchVars
<1> QED
  BY <1>2, <1>3, <1>4, <1>5, <1>6, <1>7, <1>9, <1>10, ReceiveAddRoom, SkipReserveRoom,
     SendReserveRoom, SendTaskRoom
  DEF UsearchNext, Actor, Receive

-----------------------------------------------------------------------------
(* Effects.                                                                *)

\* Tasks on their way are all of the mode, so adds and removals are never on
\* their way together.
LEMMA OneKindOnItsWay ==
  ASSUME PermitInv
  PROVE  /\ \A t \in Dispatched : t.kind = mode
         /\ \A k, o : k # mode => IdsOf(k, o) = {}
<1>1. \A t \in Dispatched : t.kind = mode
  BY DEF PermitInv, OneMode, Dispatched
<1> QED
  BY <1>1 DEF IdsOf

\* What is due stays due where objects and tasks stay as they are.
LEMMA EffectsKept ==
  ASSUME EffectsInv, UNCHANGED <<objects, expected, failures, channel, running, task>>,
         pc' = "recv" <=> pc = "recv"
  PROVE  EffectsInv'
<1>1. Dispatched' = Dispatched
  BY DEF Dispatched, Running
<1>2. \A k, o : IdsOf(k, o)' = IdsOf(k, o)
  BY <1>1 DEF IdsOf
<1>3. \A o : Finally(o)' = Finally(o)
  BY <1>2 DEF Finally, Settled
<1> QED
  BY <1>1, <1>3 DEF EffectsInv, EffectsDue, SnapshotTaken, SearchReadsSnapshot

\* The actor receives a message: the history of what is expected and the
\* actor's task change together.
LEMMA ReceiveEffects ==
  ASSUME UsearchTypes', EffectsInv, pc = "recv",
         UNCHANGED <<objects, failures, channel, running>>,
         \/ /\ expected' = expected /\ pc' = "recv"
         \/ /\ expected' = expected /\ pc' # "recv" /\ task'.kind = "Search"
            /\ task'.snapshot = expected[task'.object]
         \/ /\ expected' = [expected EXCEPT ![task'.object] = @ \union {task'.id}]
            /\ pc' # "recv" /\ task'.kind = "Insert"
         \/ /\ expected' = [expected EXCEPT ![task'.object] = @ \ {task'.id}]
            /\ pc' # "recv" /\ task'.kind = "Remove",
         expected \in [Object -> SUBSET VectorId]
  PROVE  EffectsInv'
<1>1. Dispatched' = Dispatched
  BY DEF Dispatched, Running
<1>2. \A o : Settled(o)' = Settled(o)
  <2>1. \A k, o : IdsOf(k, o)' = IdsOf(k, o)
    BY <1>1 DEF IdsOf
  <2> QED
    BY <2>1 DEF Settled
<1>3. failures = 0 => \A o \in Object : expected[o] = Settled(o)
  BY DEF EffectsInv, EffectsDue, Finally
<1>4. EffectsDue'
  <2> SUFFICES ASSUME failures = 0, NEW o \in Object
               PROVE  expected'[o] = Finally(o)'
    BY DEF EffectsDue
  <2>1. expected[o] = Settled(o) /\ Settled(o)' = Settled(o)
    BY <1>2, <1>3
  <2>2. CASE expected' = expected /\ (pc' = "recv" \/ task'.kind = "Search")
    BY <2>1, <2>2 DEF Finally
  <2>3. CASE /\ expected' = [expected EXCEPT ![task'.object] = @ \union {task'.id}]
             /\ pc' # "recv" /\ task'.kind = "Insert"
    BY <2>1, <2>3 DEF Finally
  <2>4. CASE /\ expected' = [expected EXCEPT ![task'.object] = @ \ {task'.id}]
             /\ pc' # "recv" /\ task'.kind = "Remove"
    BY <2>1, <2>4 DEF Finally
  <2> QED
    BY <2>2, <2>3, <2>4
<1>5. SnapshotTaken'
  BY DEF SnapshotTaken
<1>6. SearchReadsSnapshot'
  BY <1>1 DEF EffectsInv, SearchReadsSnapshot
<1> QED
  BY <1>4, <1>5, <1>6 DEF EffectsInv

\* The actor sends a task: the ids it is about move from the actor's account
\* to that of the workers, and a search finds what it was promised.
LEMMA SendEffects ==
  ASSUME UsearchAssumption, UsearchTypes, PermitInv, EffectsInv, NEW t \in TaskType,
         SendToWorkers(t),
         \/ t.kind = "Reserve" /\ pc # "recv" /\ pc' # "recv"
         \/ t = task /\ pc = "send" /\ pc' = "recv" /\ t.kind # "Reserve"
  PROVE  EffectsInv'
<1> USE DEF actorVars, permitVars, workerVars, inputVars, libraryVars, indexVars
<1>1. UNCHANGED <<objects, expected, failures, task>> /\ Dispatched' = Dispatched \union {t}
  BY SendFacts DEF SendToWorkers
<1>2. \A k, o : IdsOf(k, o)' =
        IF t.kind = k /\ t.object = o THEN IdsOf(k, o) \union {t.id} ELSE IdsOf(k, o)
  BY <1>1 DEF IdsOf
<1>3. CASE t.kind = "Reserve" /\ pc # "recv" /\ pc' # "recv"
  <2>1. \A o : Settled(o)' = Settled(o)
    BY <1>1, <1>2, <1>3 DEF Settled
  <2>2. \A o : Finally(o)' = Finally(o)
    BY <1>1, <1>3, <2>1 DEF Finally
  <2> QED
    BY <1>1, <1>3, <2>2 DEF EffectsInv, EffectsDue, SnapshotTaken, SearchReadsSnapshot
<1>4. CASE t = task /\ pc = "send" /\ pc' = "recv" /\ t.kind # "Reserve"
  <2>1. t.kind = mode /\ t.kind \in {"Insert", "Remove", "Search"} /\ t.object \in Object
    BY <1>4 DEF PermitInv, OneMode, Mode, TaskType, Kinds
  <2>2. EffectsDue'
    <3> SUFFICES ASSUME failures = 0, NEW o \in Object
                 PROVE  expected[o] = Finally(o)'
      BY <1>1 DEF EffectsDue
    <3>1. expected[o] = Finally(o)
      BY DEF EffectsInv, EffectsDue
    <3>2. Finally(o)' = (objects[o].content \union IdsOf("Insert", o)') \ IdsOf("Remove", o)'
      BY <1>1, <1>4 DEF Finally, Settled
    <3>3. CASE t.object # o \/ t.kind = "Search"
      BY <1>2, <1>4, <2>1, <3>1, <3>2, <3>3 DEF Finally, Settled
    <3>4. CASE t.object = o /\ t.kind = "Insert"
      <4>1. IdsOf("Remove", o) = {}
        BY <2>1, <3>4, OneKindOnItsWay
      <4> QED
        BY <1>2, <1>4, <3>1, <3>2, <3>4, <4>1 DEF Finally, Settled
    <3>5. CASE t.object = o /\ t.kind = "Remove"
      BY <1>2, <1>4, <3>1, <3>2, <3>5 DEF Finally, Settled
    <3> QED
      BY <2>1, <3>3, <3>4, <3>5
  <2>3. SearchReadsSnapshot'
    <3> SUFFICES ASSUME failures = 0, t.kind = "Search"
                 PROVE  objects[t.object].content = t.snapshot
      BY <1>1 DEF EffectsInv, SearchReadsSnapshot
    <3>1. t.snapshot = expected[t.object]
      BY <1>4 DEF EffectsInv, SnapshotTaken
    <3>2. expected[t.object] = Settled(t.object)
      BY <1>4, <2>1 DEF EffectsInv, EffectsDue, Finally
    <3>3. IdsOf("Insert", t.object) = {} /\ IdsOf("Remove", t.object) = {}
      BY <2>1, OneKindOnItsWay
    <3> QED
      BY <3>1, <3>2, <3>3 DEF Settled
  <2>4. SnapshotTaken'
    BY <1>4 DEF SnapshotTaken
  <2> QED
    BY <2>2, <2>3, <2>4 DEF EffectsInv
<1> QED
  BY <1>3, <1>4

\* A task is over: what it did is what was due.
LEMMA FinishTaskEffects ==
  ASSUME UsearchAssumption, UsearchInv, NEW w \in Worker, FinishTask(w)
  PROVE  EffectsInv'
<1> USE DEF actorVars, permitVars, workerVars, inputVars, libraryVars, indexVars
<1> DEFINE t == running[w]
           e == Effect(t)
<1>1. /\ UNCHANGED <<expected, failures, pc, task>> /\ t # None /\ DropPermit(w) /\ w \in Running
      /\ objects' = [objects EXCEPT ![t.object] = e] /\ objects \in [Object -> ObjectType]
      /\ UsearchTypes /\ PermitInv /\ IdsInv /\ RoomInv /\ EffectsInv /\ ReservationsGrow
  BY DEF FinishTask, DropPermit, UsearchInv, UsearchTypes, IndexTypes, RoomInv, Running
<1>2. /\ Dispatched' \subseteq Dispatched /\ Dispatched \subseteq Dispatched' \union {t}
      /\ t \in Dispatched
  BY <1>1, DropPermitFacts DEF Dispatched
<1>3. t \in TaskType /\ t.object \in Object /\ t.kind \in Kinds /\ t.kind = mode
  BY <1>1, <1>2, EffectFacts, OneKindOnItsWay DEF TaskType
<1>4. failures = 0 => \A o \in Object : Settled(o)' = Settled(o)
  <2> SUFFICES ASSUME failures = 0, NEW o \in Object
               PROVE  Settled(o)' = Settled(o)
    OBVIOUS
  <2>1. CASE t.kind = "Insert"
    <3>1. e.content = objects[t.object].content \union {t.id}
      <4>1. Coming(t.object) > 0 /\ Coming(t.object) \in Nat
        BY <1>1, <2>1, ComingAfterDrop, ComingBounded
      <4>2. objects[t.object].size + Coming(t.object) <= objects[t.object].capacity
        BY <1>1, <1>3, RoomOf DEF RoomInv, RoomForComing
      <4>3. objects[t.object].size \in Nat /\ objects[t.object].capacity \in Nat
        BY <1>1, <1>3 DEF ObjectType
      <4>4. objects[t.object].size < objects[t.object].capacity
        BY <4>1, <4>2, <4>3
      <4> QED
        BY <1>1, <2>1, <4>4, EffectFacts
    <3>2. IdsOf("Remove", o) = {} /\ IdsOf("Remove", o)' = {}
      <4>1. IdsOf("Remove", o) = {}
        BY <1>1, <1>3, <2>1, OneKindOnItsWay
      <4> QED
        BY <1>2, <4>1 DEF IdsOf
    <3>3. CASE t.object = o
      <4>1. /\ IdsOf("Insert", o)' \subseteq IdsOf("Insert", o)
            /\ IdsOf("Insert", o) \subseteq IdsOf("Insert", o)' \union {t.id}
            /\ t.id \in IdsOf("Insert", o)
        BY <1>2, <2>1, <3>3 DEF IdsOf
      <4>2. objects'[o].content = objects[o].content \union {t.id}
        BY <1>1, <3>1, <3>3
      <4> QED
        BY <3>2, <4>1, <4>2 DEF Settled
    <3>4. CASE t.object # o
      <4>1. IdsOf("Insert", o)' = IdsOf("Insert", o)
        BY <1>2, <3>4 DEF IdsOf
      <4>2. objects'[o] = objects[o]
        BY <1>1, <3>4
      <4> QED
        BY <3>2, <4>1, <4>2 DEF Settled
    <3> QED
      BY <3>3, <3>4
  <2>2. CASE t.kind = "Remove"
    <3>1. e.content = objects[t.object].content \ {t.id}
      BY <1>1, <2>2, EffectFacts
    <3>2. Dispatched = {t} /\ Dispatched' = {}
      <4>1. Running = {w} /\ channel = <<>> /\ Dispatched = {t}
        BY <1>1, <1>3, <2>2, ExclusiveIsLast DEF IsExclusive
      <4>2. Running' = {} /\ channel' = <<>>
        BY <1>1, <4>1, DropPermitFacts
      <4> QED
        BY <4>1, <4>2 DEF Dispatched
    <3>3. Settled(o)' = objects'[o].content
      BY <3>2 DEF Settled, IdsOf
    <3>4. Settled(o) = IF t.object = o THEN objects[o].content \ {t.id} ELSE objects[o].content
      BY <2>2, <3>2 DEF Settled, IdsOf
    <3> QED
      BY <1>1, <3>1, <3>3, <3>4
  <2>3. CASE t.kind \in {"Reserve", "Search"}
    <3>1. objects'[o].content = objects[o].content
      <4>1. e.content = objects[t.object].content
        BY <1>1, <2>3, EffectFacts
      <4> QED
        BY <1>1, <4>1
    <3>2. \A k \in {"Insert", "Remove"} : IdsOf(k, o)' = IdsOf(k, o)
      BY <1>2, <2>3 DEF IdsOf
    <3> QED
      BY <3>1, <3>2 DEF Settled
  <2> QED
    BY <1>3, <2>1, <2>2, <2>3 DEF Kinds
<1>5. EffectsDue'
  <2> SUFFICES ASSUME failures = 0, NEW o \in Object
               PROVE  expected[o] = Finally(o)'
    BY <1>1 DEF EffectsDue
  <2>1. expected[o] = Finally(o) /\ Settled(o)' = Settled(o)
    BY <1>1, <1>4 DEF EffectsInv, EffectsDue
  <2> QED
    BY <1>1, <2>1 DEF Finally
<1>6. SnapshotTaken'
  BY <1>1 DEF EffectsInv, SnapshotTaken
<1>7. SearchReadsSnapshot'
  <2> SUFFICES ASSUME failures = 0, NEW u \in Dispatched', u.kind = "Search"
               PROVE  objects'[u.object].content = u.snapshot
    BY <1>1 DEF SearchReadsSnapshot
  <2>1. objects[u.object].content = u.snapshot
    BY <1>1, <1>2 DEF EffectsInv, SearchReadsSnapshot
  <2>2. t.kind = "Search"
    BY <1>1, <1>2, <1>3, OneKindOnItsWay
  <2>3. e = objects[t.object]
    BY <1>1, <2>2, EffectFacts
  <2> QED
    BY <1>1, <1>3, <2>1, <2>3
<1> QED
  BY <1>5, <1>6, <1>7 DEF EffectsInv

\* Every step keeps what is due, while nothing fails.
LEMMA EffectsStep ==
  ASSUME UsearchAssumption, UsearchInv, UsearchTypes', [UsearchNext]_usearchVars
  PROVE  EffectsInv'
<1> USE DEF actorVars, permitVars, workerVars, inputVars, libraryVars, indexVars
<1>0. /\ UsearchTypes /\ ActorTypes /\ IndexTypes /\ PermitInv /\ EffectsInv
      /\ expected \in [Object -> SUBSET VectorId]
  BY DEF UsearchInv, UsearchTypes, IndexTypes
<1>1. ASSUME UNCHANGED <<objects, expected, failures, channel, running, task>>,
             pc' = "recv" <=> pc = "recv"
      PROVE  EffectsInv'
  BY <1>0, <1>1, EffectsKept
<1>2. ASSUME NEW p \in PartitionId,
             SendAdd(p) \/ SendRemove(p) \/ SendRemovePartition(p) \/ SendSearch(p)
      PROVE  EffectsInv'
  BY <1>1, <1>2 DEF SendAdd, SendRemove, SendRemovePartition, SendSearch, SendModify
<1>3. CASE ReceiveSearch
  <2>1. /\ UNCHANGED <<objects, failures, channel, running>> /\ pc = "recv"
        /\ expected' = expected
    BY <1>3 DEF ReceiveSearch
  <2>2. CASE partitions[Head(rx_search)] = None
    BY <1>1, <1>3, <2>1, <2>2 DEF ReceiveSearch
  <2>3. CASE partitions[Head(rx_search)] # None
    <3>1. pc' # "recv" /\ task'.kind = "Search" /\ task'.snapshot = expected[task'.object]
      BY <1>3, <2>3 DEF ReceiveSearch, Dispatch, Task
    <3> QED
      BY <1>0, <2>1, <3>1, ReceiveEffects
  <2> QED
    BY <2>2, <2>3
<1>4. CASE ReceiveAdd
  <2>1. UNCHANGED <<objects, failures, channel, running>> /\ pc = "recv"
    BY <1>4 DEF ReceiveAdd, TakeModify
  <2>2. /\ expected' = [expected EXCEPT ![task'.object] = @ \union {task'.id}]
        /\ pc' # "recv" /\ task'.kind = "Insert"
    BY <1>4 DEF ReceiveAdd, Dispatch, Task
  <2> QED
    BY <1>0, <2>1, <2>2, ReceiveEffects
<1>5. CASE ReceiveRemove
  <2>1. UNCHANGED <<objects, failures, channel, running>> /\ pc = "recv"
    BY <1>5 DEF ReceiveRemove, TakeModify
  <2>2. CASE partitions[Head(rx_modify).partition] = None
    BY <1>1, <1>5, <2>1, <2>2 DEF ReceiveRemove
  <2>3. CASE partitions[Head(rx_modify).partition] # None
    <3>1. /\ expected' = [expected EXCEPT ![task'.object] = @ \ {task'.id}]
          /\ pc' # "recv" /\ task'.kind = "Remove"
      BY <1>5, <2>3 DEF ReceiveRemove, Dispatch, Task
    <3> QED
      BY <1>0, <2>1, <3>1, ReceiveEffects
  <2> QED
    BY <2>2, <2>3
<1>6. CASE DropAdd \/ ReceiveRemovePartition
  BY <1>1, <1>6 DEF DropAdd, ReceiveRemovePartition, TakeModify
<1>7. CASE PermitForReserve \/ PermitForMessage
  BY <1>1, <1>7 DEF PermitForReserve, PermitForMessage, Permit
<1>8. CASE \/ StartWaiting("loadedReserve", "waitingReserve")
           \/ StartWaiting("loaded", "waiting")
           \/ Notified("loadedReserve", "waitingReserve", "reserve")
           \/ Notified("loaded", "waiting", "permit")
  BY <1>1, <1>8 DEF StartWaiting, Notified
<1>9. CASE SkipReserve
  BY <1>1, <1>9 DEF SkipReserve
<1>10. CASE SendReserve
  <2> DEFINE t == Task("Reserve", task.object, objects[task.object].capacity + Increment, {})
  <2>1. task.object \in Object /\ objects[task.object].capacity + Increment \in Nat
    BY <1>0, <1>10 DEF SendReserve, ActorTypes, TaskType, IndexTypes, ObjectType,
                       UsearchAssumption
  <2>2. t \in TaskType /\ t.kind = "Reserve"
    BY <2>1 DEF Task, TaskType, Kinds
  <2> QED
    BY <1>0, <1>10, <2>2, SendEffects DEF SendReserve
<1>11. CASE SendTask
  <2>1. task \in TaskType /\ task.kind # "Reserve"
    BY <1>0, <1>11 DEF SendTask, ActorTypes
  <2> QED
    BY <1>0, <1>11, <2>1, SendEffects DEF SendTask
<1>12. ASSUME NEW w \in Worker, TakeTask(w) PROVE EffectsInv'
  <2>1. UNCHANGED <<objects, expected, failures, pc, task>> /\ Dispatched' = Dispatched
    BY <1>0, <1>12, TakeTaskFacts DEF TakeTask
  <2>2. \A k, o : IdsOf(k, o)' = IdsOf(k, o)
    BY <2>1 DEF IdsOf
  <2>3. \A o : Finally(o)' = Finally(o)
    BY <2>1, <2>2 DEF Finally, Settled
  <2> QED
    BY <1>0, <2>1, <2>3 DEF EffectsInv, EffectsDue, SnapshotTaken, SearchReadsSnapshot
<1>13. ASSUME NEW w \in Worker, FailTask(w) PROVE EffectsInv'
  <2>1. failures' # 0
    BY <1>0, <1>13 DEF FailTask, IndexTypes
  <2> QED
    BY <2>1 DEF EffectsInv, EffectsDue, SnapshotTaken, SearchReadsSnapshot
<1>14. ASSUME NEW w \in Worker, WorkerStep(w) PROVE EffectsInv'
  BY <1>1, <1>12, <1>13, <1>14, FinishTaskEffects DEF WorkerStep, NotifyOne
<1>15. CASE UNCHANGED usearchVars
  BY <1>1, <1>15 DEF usearchVars
<1> QED
  BY <1>2, <1>3, <1>4, <1>5, <1>6, <1>7, <1>8, <1>9, <1>10, <1>11, <1>14, <1>15
  DEF UsearchNext, Actor, Receive

-----------------------------------------------------------------------------
(* The theorems.                                                           *)

\* The initial state satisfies the invariant.
LEMMA UsearchInitInv ==
  ASSUME UsearchAssumption, UsearchInit
  PROVE  UsearchInv
<1>1. /\ Running = {} /\ channel = <<>> /\ rx_modify = <<>> /\ pc = "recv" /\ Dispatched = {}
      /\ DOMAIN channel = {} /\ DOMAIN rx_modify = {} /\ Len(channel) = 0
      /\ objects = [o \in Object |-> [size |-> 0, capacity |-> 0, content |-> {}]]
      /\ expected = [o \in Object |-> {}] /\ counter = 0 /\ mode = "Insert"
  BY DEF UsearchInit, Running, Dispatched
<1>2. UsearchTypes
  <2>1. [size |-> 0, capacity |-> 0, content |-> {}] \in ObjectType
    BY DEF ObjectType
  <2> QED
    BY <2>1 DEF UsearchInit, UsearchAssumption, UsearchTypes, InputTypes, IndexTypes,
                ActorTypes, WorkerTypes, ReservePc, MessagePc, Kinds
<1>3. PermitInv
  BY <1>1, FS_EmptySet
  DEF PermitInv, PermitsCounted, OneMode, AloneIfExclusive, Held, IsExclusive
<1>4. IdsInv
  <2>1. Content = {}
    BY <1>1 DEF Content
  <2> QED
    BY <1>1, <2>1, FS_EmptySet
    DEF IdsInv, WaitingFresh, AddedOnce, SizesExact, ActorAdds, Adding
<1>5. RoomInv
  <2>1. \A o : QueuedAdds(o) = {} /\ RunningAdds(o) = {}
    BY <1>1 DEF QueuedAdds, RunningAdds
  <2>2. \A o : Coming(o) = 0
    <3>1. Cardinality({}) = 0
      BY FS_EmptySet
    <3>2. \A o : Cardinality(QueuedAdds(o)) = 0 /\ Cardinality(RunningAdds(o)) = 0
      <4> TAKE o
      <4>1. QueuedAdds(o) = {} /\ RunningAdds(o) = {}
        BY <2>1
      <4> QED
        BY <3>1, <4>1
    <3> QED
      BY <3>2 DEF Coming
  <2>3. RoomForAdds
    BY <1>1, <1>2, <2>2, RoomOf DEF RoomForComing
  <2> QED
    BY <1>1, <2>3 DEF RoomInv, RoomForNext, ReservationsGrow, ActorAdds
<1>6. EffectsInv
  BY <1>1 DEF EffectsInv, EffectsDue, SnapshotTaken, SearchReadsSnapshot, Finally, Settled,
              IdsOf
<1> QED
  BY <1>2, <1>3, <1>4, <1>5, <1>6 DEF UsearchInv

\* The invariant that the theorems rest on, for every number of workers, size
\* of the channels and increment of the reservations.
THEOREM UsearchInvariant == UsearchSpec => []UsearchInv
<1>1. UsearchInit => UsearchInv
  BY UsearchAssumption, UsearchInitInv
<1>2. UsearchInv /\ [UsearchNext]_usearchVars => UsearchInv'
  <2> SUFFICES ASSUME UsearchInv, [UsearchNext]_usearchVars
               PROVE  UsearchInv'
    OBVIOUS
  <2>1. UsearchTypes'
    BY UsearchAssumption, TypesStep
  <2> QED
    BY UsearchAssumption, <2>1, PermitStep, IdsStep, RoomStep, EffectsStep DEF UsearchInv
<1> QED
  BY <1>1, <1>2, PTL DEF UsearchSpec

\* Operation::permit keeps operations apart that exclude each other: only adds
\* or only searches run together, a removal and a reservation run alone.
THEOREM OperationsExclusive == UsearchSpec => []Exclusive
<1>1. UsearchInv => Exclusive
  <2> SUFFICES ASSUME UsearchInv, NEW v \in Running, NEW w \in Running
               PROVE  /\ running[v].kind = running[w].kind
                      /\ running[v].kind \in {"Reserve", "Remove"} => v = w
    BY DEF Exclusive
  <2>1. running[v].kind = mode /\ running[w].kind = mode
    BY DEF UsearchInv, PermitInv, OneMode
  <2>2. IsExclusive(mode) => Running = {v}
    BY UsearchAssumption, ExclusiveIsLast DEF UsearchInv
  <2> QED
    BY <2>1, <2>2 DEF IsExclusive
<1> QED
  BY <1>1, UsearchInvariant, PTL

\* Every add that reaches the library finds room, however the reservations
\* and the adds of any number of workers interleave: what free_threshold and
\* needs_more_capacity are for.
THEOREM AddsFindRoom == UsearchSpec => []RoomForAdds
<1>1. UsearchInv => RoomForAdds
  BY DEF UsearchInv, RoomInv
<1> QED
  BY <1>1, UsearchInvariant, PTL

\* A search that was dispatched reads its partition as it was when the search
\* was received, though the actor goes on receiving.
THEOREM SearchesReadSnapshots == UsearchSpec => []SearchReadsSnapshot
<1>1. UsearchInv => SearchReadsSnapshot
  BY DEF UsearchInv, EffectsInv
<1> QED
  BY <1>1, UsearchInvariant, PTL

\* The pool of workers loses, repeats and reorders no modification: when
\* nothing is in progress, every partition object is what the modifications
\* received so far make of it, one by one.
THEOREM ModificationsInOrder == UsearchSpec => []EffectsInOrder
<1>1. UsearchInv => EffectsInOrder
  <2> SUFFICES ASSUME UsearchInv, AtRest, NEW o \in Object
               PROVE  /\ objects[o].content = expected[o]
                      /\ objects[o].size = Cardinality(expected[o])
    BY DEF EffectsInOrder
  <2>1. UsearchTypes /\ PermitsCounted /\ pc = "recv" /\ counter = 0 /\ failures = 0
    BY DEF UsearchInv, PermitInv, AtRest
  <2>2. IsFiniteSet(Running) /\ Cardinality(Running) \in Nat /\ Len(channel) \in Nat
    BY <2>1, UsearchAssumption, WorkersFinite DEF Running, UsearchTypes, WorkerTypes
  <2>3. Len(channel) = 0 /\ Cardinality(Running) = 0
    BY <2>1, <2>2 DEF PermitsCounted, Held
  <2>4. Running = {} /\ DOMAIN channel = {}
    BY <2>1, <2>2, <2>3, FS_EmptySet DEF UsearchTypes, WorkerTypes
  <2>5. Dispatched = {}
    BY <2>4 DEF Dispatched
  <2>6. expected[o] = objects[o].content
    <3>1. expected[o] = Settled(o)
      BY <2>1 DEF UsearchInv, EffectsInv, EffectsDue, Finally
    <3>2. IdsOf("Insert", o) = {} /\ IdsOf("Remove", o) = {}
      BY <2>5 DEF IdsOf
    <3> QED
      BY <3>1, <3>2 DEF Settled
  <2> QED
    BY <2>6 DEF UsearchInv, IdsInv, SizesExact
<1> QED
  BY <1>1, UsearchInvariant, PTL

-----------------------------------------------------------------------------
(* Sums of sizes.                                                          *)

SizeSum(obs, S) == MapThenSumSet(LAMBDA o : obs[o].size, S)

AnyOf(s) == CHOOSE x \in s : TRUE
SumStep(obs, F, s) == IF s = {} THEN 0 ELSE obs[AnyOf(s)].size + F[s \ {AnyOf(s)}]

\* F sums the sizes over the subsets of S, whatever the order.
IsSum(obs, S, F) ==
  /\ F \in [SUBSET S -> Nat]
  /\ F[{}] = 0
  /\ \A s \in SUBSET S : \A x \in s : F[s] = obs[x].size + F[s \ {x}]

\* MapThenSumSet is a recursive function on subsets.
LEMMA SumUnfolds ==
  ASSUME NEW obs, NEW S
  PROVE  SizeSum(obs, S) =
           (CHOOSE F : F = [s \in SUBSET S |-> IF s = {} THEN 0
                              ELSE obs[AnyOf(s)].size + F[s \ {AnyOf(s)}]])[S]
BY DEF SizeSum, MapThenSumSet, MapThenFoldSet, AnyOf

\* Subsets of a finite set, without one of their elements.
LEMMA Smaller ==
  ASSUME NEW S, IsFiniteSet(S), NEW s \in SUBSET S
  PROVE  /\ IsFiniteSet(s) /\ Cardinality(s) \in Nat /\ Cardinality(s) <= Cardinality(S)
         /\ Cardinality(S) \in Nat
         /\ \A x \in s : s \ {x} \in SUBSET S /\ Cardinality(s \ {x}) = Cardinality(s) - 1
         /\ s # {} => Cardinality(s) > 0
<1>1. IsFiniteSet(s) /\ Cardinality(s) <= Cardinality(S)
  BY FS_Subset
<1>2. Cardinality(s) \in Nat /\ Cardinality(S) \in Nat
  BY <1>1, FS_CardinalityType
<1>3. \A x \in s : s \ {x} \in SUBSET S /\ Cardinality(s \ {x}) = Cardinality(s) - 1
  BY <1>1, FS_RemoveElement
<1>4. s # {} => Cardinality(s) # 0
  BY <1>1, FS_EmptySet
<1> QED
  BY <1>1, <1>2, <1>3, <1>4

\* The recursive function exists: from a function that is right for subsets
\* of n elements the step makes one that is right for n + 1.
LEMMA SumExists ==
  ASSUME NEW obs, NEW S, IsFiniteSet(S), \A o \in S : obs[o].size \in Nat
  PROVE  \E F \in [SUBSET S -> Nat] : \A s \in SUBSET S : F[s] = SumStep(obs, F, s)
<1> DEFINE N == Cardinality(S)
           Good(G, n) == \A s \in SUBSET S : Cardinality(s) <= n => G[s] = SumStep(obs, G, s)
           T == {n \in 0..N : \E G \in [SUBSET S -> Nat] : Good(G, n)}
<1>1. /\ N \in Nat
      /\ \A s \in SUBSET S : Cardinality(s) \in Nat /\ Cardinality(s) <= N
      /\ \A s \in SUBSET S : s # {} =>
           /\ AnyOf(s) \in s /\ s \ {AnyOf(s)} \in SUBSET S
           /\ Cardinality(s \ {AnyOf(s)}) = Cardinality(s) - 1
  <2>1. \A s : s # {} => AnyOf(s) \in s
    BY DEF AnyOf
  <2> QED
    BY <2>1, Smaller
<1> HIDE DEF N
<1>2. ASSUME NEW G \in [SUBSET S -> Nat], NEW s \in SUBSET S
      PROVE  SumStep(obs, G, s) \in Nat
  <2>1. CASE s = {}
    BY <2>1 DEF SumStep
  <2>2. CASE s # {}
    <3>1. AnyOf(s) \in S /\ s \ {AnyOf(s)} \in SUBSET S
      BY <1>1, <2>2
    <3>2. obs[AnyOf(s)].size \in Nat /\ G[s \ {AnyOf(s)}] \in Nat
      BY <3>1
    <3> QED
      BY <2>2, <3>2 DEF SumStep
  <2> QED
    BY <2>1, <2>2
<1>3. 0 \in T
  <2> DEFINE G == [s \in SUBSET S |-> 0]
  <2>1. G \in [SUBSET S -> Nat]
    OBVIOUS
  <2>2. ASSUME NEW s \in SUBSET S, Cardinality(s) <= 0 PROVE G[s] = SumStep(obs, G, s)
    <3>1. s = {}
      BY <2>2, Smaller
    <3> QED
      BY <3>1 DEF SumStep
  <2>3. Good(G, 0)
    BY <2>2
  <2> HIDE DEF G, Good
  <2> QED
    BY <1>1, <2>1, <2>3
<1>4. ASSUME NEW n \in 0..(N - 1), n \in T PROVE n + 1 \in T
  <2>1. PICK G \in [SUBSET S -> Nat] : Good(G, n)
    BY <1>4
  <2> DEFINE H == [s \in SUBSET S |-> SumStep(obs, G, s)]
  <2>2. H \in [SUBSET S -> Nat] /\ \A s \in SUBSET S : H[s] = SumStep(obs, G, s)
    BY <1>2
  <2> HIDE DEF H
  <2>3. ASSUME NEW s \in SUBSET S, Cardinality(s) <= n + 1 PROVE H[s] = SumStep(obs, H, s)
    <3>1. CASE s = {}
      BY <2>2, <3>1 DEF SumStep
    <3>2. CASE s # {}
      <4> DEFINE u == s \ {AnyOf(s)}
      <4>1. u \in SUBSET S /\ Cardinality(u) <= n
        BY <1>1, <2>3, <3>2
      <4>2. H[u] = G[u]
        BY <2>1, <2>2, <4>1
      <4> QED
        BY <2>2, <3>2, <4>2 DEF SumStep
    <3> QED
      BY <3>1, <3>2
  <2>4. Good(H, n + 1) /\ n + 1 \in 0..N
    BY <1>1, <2>3
  <2> HIDE DEF Good
  <2> QED
    BY <2>2, <2>4
<1>5. N \in T
  <2>1. \A n \in 0..(N - 1) : n \in T => n + 1 \in T
    BY <1>4
  <2> HIDE DEF T
  <2>2. \A n \in 0..N : n \in T
    BY <1>1, <1>3, <2>1, UpTo
  <2> QED
    BY <1>1, <2>2
<1>6. PICK G \in [SUBSET S -> Nat] : Good(G, N)
  BY <1>5
<1> QED
  BY <1>1, <1>6

\* A function made by steps that take any element is a sum.
LEMMA SumAnyOrder ==
  ASSUME NEW obs, NEW S, IsFiniteSet(S), \A o \in S : obs[o].size \in Nat,
         NEW F \in [SUBSET S -> Nat], \A s \in SUBSET S : F[s] = SumStep(obs, F, s)
  PROVE  IsSum(obs, S, F)
<1> DEFINE N == Cardinality(S)
           Fine(s) == \A x \in s : F[s] = obs[x].size + F[s \ {x}]
           T == {n \in 0..N : \A s \in SUBSET S : Cardinality(s) <= n => Fine(s)}
<1>1. /\ N \in Nat
      /\ \A s \in SUBSET S : Cardinality(s) \in Nat /\ Cardinality(s) <= N
      /\ \A s \in SUBSET S : \A x \in s :
           s \ {x} \in SUBSET S /\ Cardinality(s \ {x}) = Cardinality(s) - 1
      /\ \A s \in SUBSET S : s # {} => AnyOf(s) \in s /\ Cardinality(s) > 0
  <2>1. \A s : s # {} => AnyOf(s) \in s
    BY DEF AnyOf
  <2> QED
    BY <2>1, Smaller
<1> HIDE DEF N
<1>2. 0 \in T
  <2>1. ASSUME NEW s \in SUBSET S, Cardinality(s) <= 0 PROVE Fine(s)
    BY <1>1, <2>1
  <2> QED
    BY <1>1, <2>1
<1>3. ASSUME NEW n \in 0..(N - 1), n \in T PROVE n + 1 \in T
  <2>1. ASSUME NEW s \in SUBSET S, Cardinality(s) <= n + 1, NEW y \in s
        PROVE  F[s] = obs[y].size + F[s \ {y}]
    <3> DEFINE x == AnyOf(s)
    <3>1. x \in s /\ F[s] = obs[x].size + F[s \ {x}]
      BY <1>1, <2>1 DEF SumStep
    <3> HIDE DEF x
    <3>2. CASE y = x
      BY <3>1, <3>2
    <3>3. CASE y # x
      <4>1. /\ s \ {x} \in SUBSET S /\ Cardinality(s \ {x}) <= n /\ y \in s \ {x}
            /\ s \ {y} \in SUBSET S /\ Cardinality(s \ {y}) <= n /\ x \in s \ {y}
            /\ (s \ {x}) \ {y} = (s \ {y}) \ {x} /\ (s \ {x}) \ {y} \in SUBSET S
        BY <1>1, <2>1, <3>1, <3>3
      <4>2. Fine(s \ {x}) /\ Fine(s \ {y})
        BY <1>3, <4>1
      <4>3. F[s \ {x}] = obs[y].size + F[(s \ {x}) \ {y}]
        BY <4>1, <4>2
      <4>4. F[s \ {y}] = obs[x].size + F[(s \ {x}) \ {y}]
        BY <4>1, <4>2
      <4>5. /\ F[(s \ {x}) \ {y}] \in Nat /\ obs[x].size \in Nat /\ obs[y].size \in Nat
        BY <2>1, <3>1, <4>1
      <4> QED
        BY <3>1, <4>3, <4>4, <4>5
    <3> QED
      BY <3>2, <3>3
  <2>2. n + 1 \in 0..N
    BY <1>1
  <2> QED
    BY <2>1, <2>2
<1>4. N \in T
  <2>1. \A n \in 0..(N - 1) : n \in T => n + 1 \in T
    BY <1>3
  <2> HIDE DEF T
  <2>2. \A n \in 0..N : n \in T
    BY <1>1, <1>2, <2>1, UpTo
  <2> QED
    BY <1>1, <2>2
<1>5. \A s \in SUBSET S : Fine(s)
  BY <1>1, <1>4
<1>6. F[{}] = 0
  BY DEF SumStep
<1> QED
  BY <1>5, <1>6 DEF IsSum

\* What MapThenSumSet computes is a sum.
LEMMA SizeSumIs ==
  ASSUME NEW obs, NEW S, IsFiniteSet(S), \A o \in S : obs[o].size \in Nat
  PROVE  \E F : IsSum(obs, S, F) /\ SizeSum(obs, S) = F[S]
<1> DEFINE Fix(F) == F = [s \in SUBSET S |-> IF s = {} THEN 0
                            ELSE obs[AnyOf(s)].size + F[s \ {AnyOf(s)}]]
           F == CHOOSE G : Fix(G)
<1>1. PICK G \in [SUBSET S -> Nat] : \A s \in SUBSET S : G[s] = SumStep(obs, G, s)
  BY SumExists
<1>2. Fix(G)
  <2>1. G = [s \in SUBSET S |-> G[s]]
    OBVIOUS
  <2> QED
    BY <1>1, <2>1 DEF SumStep
<1>3. Fix(F)
  <2> HIDE DEF Fix
  <2> QED
    BY <1>2, Zenon
<1>4. SizeSum(obs, S) = F[S]
  BY SumUnfolds
<1> HIDE DEF F
<1>5. \A s \in SUBSET S : F[s] = SumStep(obs, F, s)
  BY <1>3 DEF SumStep
<1>6. ASSUME NEW s \in SUBSET S PROVE F[s] \in Nat
  <2> DEFINE N == Cardinality(S)
             T == {n \in 0..N : \A u \in SUBSET S : Cardinality(u) <= n => F[u] \in Nat}
  <2>1. /\ N \in Nat
        /\ \A u \in SUBSET S : Cardinality(u) \in Nat /\ Cardinality(u) <= N
        /\ \A u \in SUBSET S : u # {} =>
             /\ AnyOf(u) \in u /\ u \ {AnyOf(u)} \in SUBSET S /\ Cardinality(u) > 0
             /\ Cardinality(u \ {AnyOf(u)}) = Cardinality(u) - 1
    <3>1. \A u : u # {} => AnyOf(u) \in u
      BY DEF AnyOf
    <3> QED
      BY <3>1, Smaller
  <2> HIDE DEF N
  <2>2. 0 \in T
    <3>1. ASSUME NEW u \in SUBSET S, Cardinality(u) <= 0 PROVE F[u] \in Nat
      <4>1. Cardinality(u) \in Nat /\ (u # {} => Cardinality(u) > 0)
        BY <2>1
      <4>2. u = {}
        BY <3>1, <4>1
      <4>3. F[u] = SumStep(obs, F, u)
        BY <1>5
      <4> QED
        BY <4>2, <4>3 DEF SumStep
    <3> QED
      BY <2>1, <3>1
  <2>3. ASSUME NEW n \in 0..(N - 1), n \in T PROVE n + 1 \in T
    <3>1. ASSUME NEW u \in SUBSET S, Cardinality(u) <= n + 1 PROVE F[u] \in Nat
      <4>0. F[u] = SumStep(obs, F, u)
        BY <1>5
      <4>1. CASE u = {}
        BY <4>0, <4>1 DEF SumStep
      <4>2. CASE u # {}
        <5>1. F[u \ {AnyOf(u)}] \in Nat /\ obs[AnyOf(u)].size \in Nat
          BY <2>1, <2>3, <3>1, <4>2
        <5> QED
          BY <4>0, <4>2, <5>1 DEF SumStep
      <4> QED
        BY <4>1, <4>2
    <3>2. n + 1 \in 0..N
      BY <2>1
    <3> QED
      BY <3>1, <3>2
  <2>4. N \in T
    <3>1. \A n \in 0..(N - 1) : n \in T => n + 1 \in T
      BY <2>3
    <3> HIDE DEF T
    <3>2. \A n \in 0..N : n \in T
      BY <2>1, <2>2, <3>1, UpTo
    <3> QED
      BY <2>1, <3>2
  <2> QED
    BY <2>1, <2>4
<1>7. F \in [SUBSET S -> Nat]
  <2>1. F = [s \in SUBSET S |-> F[s]]
    BY <1>3
  <2> HIDE DEF Fix
  <2> QED
    BY <1>6, <2>1
<1> HIDE DEF Fix
<1>8. IsSum(obs, S, F)
  BY <1>5, <1>7, SumAnyOrder
<1> QED
  BY <1>4, <1>8

\* Two sums agree where the sizes agree.
LEMMA SumsAgree ==
  ASSUME NEW obs, NEW obs2, NEW S, NEW U, IsFiniteSet(S), S \subseteq U, NEW F, NEW G,
         IsSum(obs, S, F), IsSum(obs2, U, G), \A o \in S : obs[o].size = obs2[o].size
  PROVE  \A s \in SUBSET S : F[s] = G[s]
<1> DEFINE T == {s \in SUBSET S : F[s] = G[s]}
<1>1. {} \in T
  BY DEF IsSum
<1>2. ASSUME NEW s \in SUBSET S, NEW x \in S \ s, s \in T PROVE s \cup {x} \in T
  <2>1. s \cup {x} \in SUBSET S /\ s \cup {x} \in SUBSET U /\ (s \cup {x}) \ {x} = s
    OBVIOUS
  <2>2. F[s \cup {x}] = obs[x].size + F[s] /\ G[s \cup {x}] = obs2[x].size + G[s]
    BY <2>1 DEF IsSum
  <2> QED
    BY <1>2, <2>1, <2>2
<1>3. \A s \in SUBSET S : \A x \in S \ s : s \in T => s \cup {x} \in T
  BY <1>2
<1> HIDE DEF T
<1>4. \A s \in SUBSET S : s \in T
  BY <1>1, <1>3, SubsetsUpTo
<1> QED
  BY <1>4 DEF T

\* The sum over a set is that over the set without an element, and that
\* element; and it depends on the sizes in the set only.
LEMMA SumFacts ==
  ASSUME NEW obs, NEW S, IsFiniteSet(S), \A o \in S : obs[o].size \in Nat
  PROVE  /\ SizeSum(obs, S) \in Nat
         /\ S = {} => SizeSum(obs, S) = 0
         /\ \A x \in S : SizeSum(obs, S) = obs[x].size + SizeSum(obs, S \ {x})
         /\ \A obs2 : (\A o \in S : obs2[o].size = obs[o].size) =>
              SizeSum(obs2, S) = SizeSum(obs, S)
<1>1. PICK F : IsSum(obs, S, F) /\ SizeSum(obs, S) = F[S]
  BY SizeSumIs
<1>2. SizeSum(obs, S) \in Nat /\ (S = {} => SizeSum(obs, S) = 0)
  BY <1>1 DEF IsSum
<1>3. ASSUME NEW x \in S PROVE SizeSum(obs, S) = obs[x].size + SizeSum(obs, S \ {x})
  <2> DEFINE R == S \ {x}
  <2>1. IsFiniteSet(R) /\ R \subseteq S /\ \A o \in R : obs[o].size \in Nat
    BY FS_Subset
  <2>2. F[S] = obs[x].size + F[R]
    BY <1>1 DEF IsSum
  <2> HIDE DEF R
  <2>3. PICK G : IsSum(obs, R, G) /\ SizeSum(obs, R) = G[R]
    BY <2>1, SizeSumIs
  <2>4. \A s \in SUBSET R : G[s] = F[s]
    BY <1>1, <2>1, <2>3, SumsAgree
  <2>5. SizeSum(obs, S) = obs[x].size + SizeSum(obs, R)
    BY <1>1, <2>2, <2>3, <2>4
  <2> QED
    BY <2>5 DEF R
<1>4. ASSUME NEW obs2, \A o \in S : obs2[o].size = obs[o].size
      PROVE  SizeSum(obs2, S) = SizeSum(obs, S)
  <2>1. \A o \in S : obs2[o].size \in Nat
    BY <1>4
  <2>2. PICK G : IsSum(obs2, S, G) /\ SizeSum(obs2, S) = G[S]
    BY <2>1, SizeSumIs
  <2>3. \A s \in SUBSET S : G[s] = F[s]
    BY <1>1, <1>4, <2>2, SumsAgree
  <2> QED
    BY <1>1, <2>2, <2>3
<1> QED
  BY <1>2, <1>3, <1>4

\* Objects of size zero do not count.
LEMMA SumOfSome ==
  ASSUME NEW obs, NEW U, IsFiniteSet(U), \A o \in U : obs[o].size \in Nat,
         NEW S \in SUBSET U, \A o \in U \ S : obs[o].size = 0
  PROVE  SizeSum(obs, U) = SizeSum(obs, S)
<1> DEFINE R == U \ S
           T == {s \in SUBSET R : SizeSum(obs, S \cup s) = SizeSum(obs, S)}
<1>1. IsFiniteSet(R)
  BY FS_Subset
<1>2. {} \in T
  OBVIOUS
<1>3. ASSUME NEW s \in SUBSET R, NEW x \in R \ s, s \in T PROVE s \cup {x} \in T
  <2> DEFINE V == S \cup (s \cup {x})
  <2>1. V \subseteq U /\ x \in V /\ V \ {x} = S \cup s /\ obs[x].size = 0
    OBVIOUS
  <2> HIDE DEF V
  <2>2. IsFiniteSet(V) /\ \A o \in V : obs[o].size \in Nat
    BY <2>1, FS_Subset
  <2>3. SizeSum(obs, V) = obs[x].size + SizeSum(obs, V \ {x})
    BY <2>1, <2>2, SumFacts
  <2>4. SizeSum(obs, V \ {x}) \in Nat
    <3>1. IsFiniteSet(V \ {x}) /\ \A o \in V \ {x} : obs[o].size \in Nat
      BY <2>2, FS_Subset
    <3> HIDE DEF R, T
    <3> QED
      BY <3>1, SumFacts
  <2>5. SizeSum(obs, V) = SizeSum(obs, S)
    <3>1. SizeSum(obs, S \cup s) = SizeSum(obs, S)
      BY <1>3
    <3>2. SizeSum(obs, V \ {x}) = SizeSum(obs, S)
      BY <2>1, <3>1, Zenon
    <3> HIDE DEF T, R
    <3> QED
      BY <2>1, <2>3, <2>4, <3>2
  <2> QED
    BY <2>5 DEF V
<1>4. \A s \in SUBSET R : \A x \in R \ s : s \in T => s \cup {x} \in T
  BY <1>3
<1> HIDE DEF T
<1>5. R \in T
  <2> HIDE DEF R
  <2>1. \A s \in SUBSET R : s \in T
    BY <1>1, <1>2, <1>4, SubsetsUpTo
  <2> QED
    BY <2>1
<1>6. S \cup R = U
  OBVIOUS
<1> QED
  BY <1>5, <1>6 DEF T

\* One object changes.
LEMMA SumChanges ==
  ASSUME NEW obs, NEW obs2, NEW S, IsFiniteSet(S), NEW x \in S,
         \A o \in S : obs[o].size \in Nat /\ obs2[o].size \in Nat,
         \A o \in S \ {x} : obs2[o].size = obs[o].size
  PROVE  SizeSum(obs2, S) = SizeSum(obs, S) + obs2[x].size - obs[x].size
<1> DEFINE R == S \ {x}
<1>1. IsFiniteSet(R) /\ \A o \in R : obs[o].size \in Nat
  BY FS_Subset
<1>2. SizeSum(obs, S) = obs[x].size + SizeSum(obs, R)
  BY SumFacts
<1>3. SizeSum(obs2, S) = obs2[x].size + SizeSum(obs2, R)
  BY SumFacts
<1> HIDE DEF R
<1>4. SizeSum(obs, R) \in Nat
  BY <1>1, SumFacts
<1>5. SizeSum(obs2, R) = SizeSum(obs, R)
  <2>1. \A o \in R : obs2[o].size = obs[o].size
    BY DEF R
  <2> QED
    BY <1>1, <2>1, SumFacts
<1> QED
  BY <1>2, <1>3, <1>4, <1>5

-----------------------------------------------------------------------------
(* The count.  That nothing of a removed partition is counted rests on the *)
(* promise of the table that a partition is removed when nothing is left   *)
(* in it, and on the order of the channel, which carries the promise to    *)
(* the actor: what the partition still has when its removal waits is       *)
(* removed before.                                                         *)

IsAdd(m, p) == m.op = "Insert" /\ m.partition = p
IsRemoval(m, p, id) == m.op = "Remove" /\ m.partition = p /\ m.id = id
IsDrop(m, p) == m.op = "RemovePartition" /\ m.partition = p

\* The channel rx after which lv is live, when the partitions have pr.
OrderKept(rx, lv, pr) ==
  \A p \in PartitionId :
    /\ \A id \in pr[p] :
         id \in lv[p] \/ \E k \in DOMAIN rx : IsRemoval(rx[k], p, id)
    /\ \A n \in DOMAIN rx : IsDrop(rx[n], p) =>
         \A id \in pr[p] : \E k \in DOMAIN rx : k < n /\ IsRemoval(rx[k], p, id)
    /\ \A n \in DOMAIN rx : IsAdd(rx[n], p) =>
         \/ rx[n].id \in lv[p]
         \/ \E k \in DOMAIN rx : n < k /\ IsRemoval(rx[k], p, rx[n].id)
    /\ \A n, m \in DOMAIN rx : n < m /\ IsAdd(rx[n], p) /\ IsDrop(rx[m], p) =>
         \E k \in DOMAIN rx : n < k /\ k < m /\ IsRemoval(rx[k], p, rx[n].id)

Present ==
  [p \in PartitionId |-> IF partitions[p] = None THEN {} ELSE expected[partitions[p]]]

Owned ==
  \A p \in PartitionId : partitions[p] # None =>
    /\ partitions[p] \in 1 .. created
    /\ \A q \in PartitionId : partitions[q] = partitions[p] => q = p
NothingLost ==
  \A o \in Object : (\A p \in PartitionId : partitions[p] # o) => expected[o] = {}

CountInv ==
  /\ count = SizeSum(objects, Object)
  /\ Owned /\ NothingLost /\ OrderKept(rx_modify, live, Present)

\* A message is sent.
LEMMA OrderAfterSend ==
  ASSUME NEW rx \in Seq(Message), NEW m \in Message, NEW lv, NEW lv2, NEW pr,
         OrderKept(rx, lv, pr),
         \A p \in PartitionId : \A id \in lv[p] : id \in lv2[p] \/ IsRemoval(m, p, id),
         \A p \in PartitionId : IsAdd(m, p) => m.id \in lv2[p],
         \A p \in PartitionId : IsDrop(m, p) => lv[p] = {}
  PROVE  OrderKept(Append(rx, m), lv2, pr)
<1> DEFINE r == Append(rx, m)
           N == Len(rx) + 1
<1>1. /\ N \in DOMAIN r /\ r[N] = m /\ DOMAIN r = DOMAIN rx \cup {N} /\ N \notin DOMAIN rx
      /\ N \in Nat /\ \A n \in DOMAIN rx : n \in Nat /\ n < N /\ r[n] = rx[n] /\ n \in DOMAIN r
  OBVIOUS
<1> HIDE DEF r, N
<1> SUFFICES ASSUME NEW p \in PartitionId
             PROVE  /\ \A id \in pr[p] :
                         id \in lv2[p] \/ \E k \in DOMAIN r : IsRemoval(r[k], p, id)
                    /\ \A n \in DOMAIN r : IsDrop(r[n], p) =>
                         \A id \in pr[p] : \E k \in DOMAIN r : k < n /\ IsRemoval(r[k], p, id)
                    /\ \A n \in DOMAIN r : IsAdd(r[n], p) =>
                         \/ r[n].id \in lv2[p]
                         \/ \E k \in DOMAIN r : n < k /\ IsRemoval(r[k], p, r[n].id)
                    /\ \A n, j \in DOMAIN r : n < j /\ IsAdd(r[n], p) /\ IsDrop(r[j], p) =>
                         \E k \in DOMAIN r : n < k /\ k < j /\ IsRemoval(r[k], p, r[n].id)
  BY DEF OrderKept, r
<1>2. /\ \A id \in pr[p] :
           id \in lv[p] \/ \E k \in DOMAIN rx : IsRemoval(rx[k], p, id)
      /\ \A n \in DOMAIN rx : IsDrop(rx[n], p) =>
           \A id \in pr[p] : \E k \in DOMAIN rx : k < n /\ IsRemoval(rx[k], p, id)
      /\ \A n \in DOMAIN rx : IsAdd(rx[n], p) =>
           \/ rx[n].id \in lv[p]
           \/ \E k \in DOMAIN rx : n < k /\ IsRemoval(rx[k], p, rx[n].id)
      /\ \A n, j \in DOMAIN rx : n < j /\ IsAdd(rx[n], p) /\ IsDrop(rx[j], p) =>
           \E k \in DOMAIN rx : n < k /\ k < j /\ IsRemoval(rx[k], p, rx[n].id)
  BY DEF OrderKept
<1>3. ASSUME NEW id \in pr[p]
      PROVE  id \in lv2[p] \/ \E k \in DOMAIN r : IsRemoval(r[k], p, id)
  <2>1. CASE id \in lv[p]
    BY <1>1, <2>1
  <2>2. CASE \E k \in DOMAIN rx : IsRemoval(rx[k], p, id)
    BY <1>1, <2>2
  <2> QED
    BY <1>2, <2>1, <2>2
<1>4. ASSUME NEW n \in DOMAIN r, IsDrop(r[n], p), NEW id \in pr[p]
      PROVE  \E k \in DOMAIN r : k < n /\ IsRemoval(r[k], p, id)
  <2>1. CASE n = N
    <3>1. lv[p] = {}
      BY <1>1, <1>4, <2>1
    <3>2. PICK k \in DOMAIN rx : IsRemoval(rx[k], p, id)
      BY <1>2, <3>1
    <3> QED
      BY <1>1, <2>1, <3>2
  <2>2. CASE n \in DOMAIN rx
    <3>1. PICK k \in DOMAIN rx : k < n /\ IsRemoval(rx[k], p, id)
      BY <1>1, <1>2, <1>4, <2>2
    <3> QED
      BY <1>1, <3>1
  <2> QED
    BY <1>1, <2>1, <2>2
<1>5. ASSUME NEW n \in DOMAIN r, IsAdd(r[n], p)
      PROVE  \/ r[n].id \in lv2[p]
             \/ \E k \in DOMAIN r : n < k /\ IsRemoval(r[k], p, r[n].id)
  <2>1. CASE n = N
    BY <1>1, <1>5, <2>1
  <2>2. CASE n \in DOMAIN rx
    <3>1. CASE rx[n].id \in lv[p]
      BY <1>1, <2>2, <3>1
    <3>2. CASE \E k \in DOMAIN rx : n < k /\ IsRemoval(rx[k], p, rx[n].id)
      BY <1>1, <2>2, <3>2
    <3> QED
      BY <1>1, <1>2, <1>5, <2>2, <3>1, <3>2
  <2> QED
    BY <1>1, <2>1, <2>2
<1>6. ASSUME NEW n \in DOMAIN r, NEW j \in DOMAIN r, n < j, IsAdd(r[n], p), IsDrop(r[j], p)
      PROVE  \E k \in DOMAIN r : n < k /\ k < j /\ IsRemoval(r[k], p, r[n].id)
  <2>1. n \in DOMAIN rx /\ IsAdd(rx[n], p) /\ r[n] = rx[n]
    BY <1>1, <1>6
  <2>2. CASE j = N
    <3>1. lv[p] = {}
      BY <1>1, <1>6, <2>2
    <3>2. PICK k \in DOMAIN rx : n < k /\ IsRemoval(rx[k], p, rx[n].id)
      BY <1>2, <2>1, <3>1
    <3> QED
      BY <1>1, <2>1, <2>2, <3>2
  <2>3. CASE j \in DOMAIN rx
    <3>1. PICK k \in DOMAIN rx : n < k /\ k < j /\ IsRemoval(rx[k], p, rx[n].id)
      BY <1>1, <1>2, <1>6, <2>1, <2>3
    <3> QED
      BY <1>1, <2>1, <3>1
  <2> QED
    BY <1>1, <2>2, <2>3
<1> QED
  BY <1>3, <1>4, <1>5, <1>6

\* A message is taken: what the partitions have then they had before, or it
\* is what the message adds, and not what the message removes.
LEMMA OrderAfterTake ==
  ASSUME NEW rx \in Seq(Message), rx # <<>>, NEW lv, NEW pr, NEW pr2, OrderKept(rx, lv, pr),
         \A p \in PartitionId : \A id \in pr2[p] :
           /\ id \in pr[p] \/ (IsAdd(Head(rx), p) /\ id = Head(rx).id)
           /\ ~IsRemoval(Head(rx), p, id)
  PROVE  OrderKept(Tail(rx), lv, pr2)
<1> DEFINE r == Tail(rx)
<1>1. /\ 1 \in DOMAIN rx /\ Head(rx) = rx[1]
      /\ \A n \in DOMAIN r : n \in Nat /\ n + 1 \in DOMAIN rx /\ r[n] = rx[n + 1] /\ 1 < n + 1
      /\ \A n \in DOMAIN rx :
           n \in Nat /\ (n # 1 => n - 1 \in DOMAIN r /\ r[n - 1] = rx[n] /\ 1 < n)
  OBVIOUS
<1> HIDE DEF r
<1> SUFFICES ASSUME NEW p \in PartitionId
             PROVE  /\ \A id \in pr2[p] :
                         id \in lv[p] \/ \E k \in DOMAIN r : IsRemoval(r[k], p, id)
                    /\ \A n \in DOMAIN r : IsDrop(r[n], p) =>
                         \A id \in pr2[p] : \E k \in DOMAIN r : k < n /\ IsRemoval(r[k], p, id)
                    /\ \A n \in DOMAIN r : IsAdd(r[n], p) =>
                         \/ r[n].id \in lv[p]
                         \/ \E k \in DOMAIN r : n < k /\ IsRemoval(r[k], p, r[n].id)
                    /\ \A n, j \in DOMAIN r : n < j /\ IsAdd(r[n], p) /\ IsDrop(r[j], p) =>
                         \E k \in DOMAIN r : n < k /\ k < j /\ IsRemoval(r[k], p, r[n].id)
  BY DEF OrderKept, r
<1>2. /\ \A id \in pr[p] :
           id \in lv[p] \/ \E k \in DOMAIN rx : IsRemoval(rx[k], p, id)
      /\ \A n \in DOMAIN rx : IsDrop(rx[n], p) =>
           \A id \in pr[p] : \E k \in DOMAIN rx : k < n /\ IsRemoval(rx[k], p, id)
      /\ \A n \in DOMAIN rx : IsAdd(rx[n], p) =>
           \/ rx[n].id \in lv[p]
           \/ \E k \in DOMAIN rx : n < k /\ IsRemoval(rx[k], p, rx[n].id)
      /\ \A n, j \in DOMAIN rx : n < j /\ IsAdd(rx[n], p) /\ IsDrop(rx[j], p) =>
           \E k \in DOMAIN rx : n < k /\ k < j /\ IsRemoval(rx[k], p, rx[n].id)
  BY DEF OrderKept
<1>3. ASSUME NEW id \in pr2[p]
      PROVE  id \in lv[p] \/ \E k \in DOMAIN r : IsRemoval(r[k], p, id)
  <2>1. id \in lv[p] \/ \E k \in DOMAIN rx : IsRemoval(rx[k], p, id)
    BY <1>1, <1>2
  <2> QED
    BY <1>1, <2>1
<1>4. ASSUME NEW n \in DOMAIN r, IsDrop(r[n], p), NEW id \in pr2[p]
      PROVE  \E k \in DOMAIN r : k < n /\ IsRemoval(r[k], p, id)
  <2>1. n + 1 \in DOMAIN rx /\ IsDrop(rx[n + 1], p) /\ 1 < n + 1 /\ n \in Nat
    BY <1>1, <1>4
  <2>2. PICK k \in DOMAIN rx : k < n + 1 /\ IsRemoval(rx[k], p, id)
    <3>1. CASE id \in pr[p]
      BY <1>2, <2>1, <3>1
    <3>2. CASE IsAdd(rx[1], p) /\ id = rx[1].id
      BY <1>1, <1>2, <2>1, <3>2
    <3> QED
      BY <1>1, <3>1, <3>2
  <2>3. k # 1
    BY <1>1, <2>2
  <2>4. k - 1 \in DOMAIN r /\ r[k - 1] = rx[k] /\ k \in Nat
    BY <1>1, <2>3
  <2>5. k - 1 < n
    BY <2>1, <2>2, <2>4
  <2> QED
    BY <2>2, <2>4, <2>5
<1>5. ASSUME NEW n \in DOMAIN r, IsAdd(r[n], p)
      PROVE  \/ r[n].id \in lv[p]
             \/ \E k \in DOMAIN r : n < k /\ IsRemoval(r[k], p, r[n].id)
  <2>1. n + 1 \in DOMAIN rx /\ IsAdd(rx[n + 1], p) /\ r[n] = rx[n + 1] /\ n \in Nat
    BY <1>1, <1>5
  <2>2. CASE \E k \in DOMAIN rx : n + 1 < k /\ IsRemoval(rx[k], p, rx[n + 1].id)
    <3>1. PICK k \in DOMAIN rx : n + 1 < k /\ IsRemoval(rx[k], p, rx[n + 1].id)
      BY <2>2
    <3>2. k \in Nat /\ k # 1
      BY <1>1, <2>1, <3>1
    <3>3. k - 1 \in DOMAIN r /\ r[k - 1] = rx[k] /\ n < k - 1
      BY <1>1, <2>1, <3>1, <3>2
    <3> QED
      BY <2>1, <3>1, <3>3
  <2> QED
    BY <1>2, <2>1, <2>2
<1>6. ASSUME NEW n \in DOMAIN r, NEW j \in DOMAIN r, n < j, IsAdd(r[n], p), IsDrop(r[j], p)
      PROVE  \E k \in DOMAIN r : n < k /\ k < j /\ IsRemoval(r[k], p, r[n].id)
  <2>1. /\ n + 1 \in DOMAIN rx /\ IsAdd(rx[n + 1], p) /\ r[n] = rx[n + 1] /\ n \in Nat
        /\ j + 1 \in DOMAIN rx /\ IsDrop(rx[j + 1], p) /\ j \in Nat /\ n + 1 < j + 1
    BY <1>1, <1>6
  <2>2. PICK k \in DOMAIN rx : n + 1 < k /\ k < j + 1 /\ IsRemoval(rx[k], p, rx[n + 1].id)
    BY <1>2, <2>1
  <2>3. k \in Nat /\ k # 1
    BY <1>1, <2>1, <2>2
  <2>4. k - 1 \in DOMAIN r /\ r[k - 1] = rx[k]
    BY <1>1, <2>3
  <2>5. n < k - 1 /\ k - 1 < j
    BY <2>1, <2>2, <2>3
  <2> QED
    BY <2>1, <2>2, <2>4, <2>5
<1> QED
  BY <1>3, <1>4, <1>5, <1>6

\* Nothing is in a partition that is being removed.
LEMMA DroppedEmpty ==
  ASSUME NEW rx \in Seq(Message), rx # <<>>, NEW lv, NEW pr, OrderKept(rx, lv, pr),
         NEW p \in PartitionId, IsDrop(Head(rx), p)
  PROVE  pr[p] = {}
<1>1. 1 \in DOMAIN rx /\ Head(rx) = rx[1] /\ \A k \in DOMAIN rx : ~(k < 1)
  OBVIOUS
<1> QED
  BY <1>1 DEF OrderKept

\* A client sends a modification.
LEMMA CountSent ==
  ASSUME UsearchAssumption, UsearchTypes, CountInv, NEW p \in PartitionId,
         SendAdd(p) \/ SendRemove(p) \/ SendRemovePartition(p)
  PROVE  CountInv'
<1>1. UNCHANGED <<partitions, created, expected, objects, count>>
  BY DEF SendAdd, SendRemove, SendRemovePartition, SendModify, indexVars, libraryVars
<1>2. Present' = Present
  BY <1>1 DEF Present
<1>3. /\ rx_modify \in Seq(Message) /\ OrderKept(rx_modify, live, Present)
      /\ live \in [PartitionId -> SUBSET VectorId] /\ sent \in Nat
  BY DEF UsearchTypes, InputTypes, CountInv, UsearchAssumption
<1>4. OrderKept(rx_modify', live', Present)
  <2>1. CASE SendAdd(p)
    <3> DEFINE m == [op |-> "Insert", partition |-> p, id |-> sent + 1]
    <3>1. /\ rx_modify' = Append(rx_modify, m) /\ sent < MaxModify
          /\ live' = [live EXCEPT ![p] = @ \union {sent + 1}]
      BY <2>1 DEF SendAdd, SendModify
    <3>2. m \in Message
      BY <1>3, <3>1 DEF Message, VectorId, UsearchAssumption
    <3>3. /\ \A q \in PartitionId : \A id \in live[q] : id \in live'[q]
          /\ \A q \in PartitionId : IsAdd(m, q) => m.id \in live'[q]
          /\ \A q \in PartitionId : ~IsDrop(m, q)
      BY <1>3, <3>1 DEF IsAdd, IsDrop
    <3> HIDE DEF m
    <3> QED
      BY <1>3, <3>1, <3>2, <3>3, OrderAfterSend
  <2>2. CASE SendRemove(p)
    <3>1. PICK id \in live[p] : /\ SendModify("Remove", p, id)
                                /\ live' = [live EXCEPT ![p] = @ \ {id}]
      BY <2>2 DEF SendRemove
    <3> DEFINE m == [op |-> "Remove", partition |-> p, id |-> id]
    <3>2. rx_modify' = Append(rx_modify, m)
      BY <3>1 DEF SendModify
    <3>3. m \in Message
      BY <1>3 DEF Message
    <3>4. /\ \A q \in PartitionId : \A x \in live[q] : x \in live'[q] \/ IsRemoval(m, q, x)
          /\ \A q \in PartitionId : ~IsAdd(m, q) /\ ~IsDrop(m, q)
      BY <1>3, <3>1 DEF IsAdd, IsDrop, IsRemoval
    <3> HIDE DEF m
    <3> QED
      BY <1>3, <3>2, <3>3, <3>4, OrderAfterSend
  <2>3. CASE SendRemovePartition(p)
    <3> DEFINE m == [op |-> "RemovePartition", partition |-> p, id |-> None]
    <3>1. rx_modify' = Append(rx_modify, m) /\ live' = live /\ live[p] = {}
      BY <2>3 DEF SendRemovePartition, SendModify
    <3>2. m \in Message
      BY DEF Message
    <3>3. \A q \in PartitionId : ~IsAdd(m, q) /\ (IsDrop(m, q) => live[q] = {})
      BY <3>1 DEF IsAdd, IsDrop
    <3> HIDE DEF m
    <3> QED
      BY <1>3, <3>1, <3>2, <3>3, OrderAfterSend
  <2> QED
    BY <2>1, <2>2, <2>3
<1> QED
  BY <1>1, <1>2, <1>4 DEF CountInv, Owned, NothingLost

\* What a message that the actor takes leaves in the channel.
LEMMA TakenFacts ==
  ASSUME UsearchTypes, CountInv, NEW op, TakeModify(op)
  PROVE  LET m == Head(rx_modify)
         IN /\ rx_modify # <<>> /\ rx_modify \in Seq(Message) /\ rx_modify' = Tail(rx_modify)
            /\ live' = live /\ m \in Message /\ m.op = op /\ m.partition \in PartitionId
            /\ OrderKept(rx_modify, live, Present)
<1>1. rx_modify # <<>> /\ rx_modify \in Seq(Message)
  BY DEF TakeModify, UsearchTypes, InputTypes
<1>2. Head(rx_modify) \in Message
  BY <1>1
<1> QED
  BY <1>1, <1>2 DEF TakeModify, CountInv, Message

\* The actor receives an add.  A new partition gets a new object.
LEMMA CountAdd ==
  ASSUME UsearchAssumption, UsearchTypes, UsearchTypes', CountInv, ReceiveAdd
  PROVE  CountInv'
<1> DEFINE m == Head(rx_modify)
           p == m.partition
           o == IF partitions[p] = None THEN created + 1 ELSE partitions[p]
<1>1. /\ TakeModify("Insert") /\ created' = IF partitions[p] = None THEN created + 1 ELSE created
      /\ created' <= MaxObject /\ partitions' = [partitions EXCEPT ![p] = o]
      /\ expected' = [expected EXCEPT ![o] = @ \union {m.id}] /\ UNCHANGED <<objects, count>>
  BY DEF ReceiveAdd, libraryVars
<1>2. /\ rx_modify # <<>> /\ rx_modify \in Seq(Message) /\ rx_modify' = Tail(rx_modify)
      /\ live' = live /\ m \in Message /\ m.op = "Insert" /\ p \in PartitionId
      /\ OrderKept(rx_modify, live, Present)
  BY <1>1, TakenFacts
<1>3. /\ partitions \in [PartitionId -> Object \union {None}] /\ created \in Nat
      /\ expected \in [Object -> SUBSET VectorId] /\ None \notin Nat
  BY DEF UsearchTypes, IndexTypes, UsearchAssumption
<1>4. Owned /\ NothingLost
  BY DEF CountInv
<1>5. o \in Object /\ o \in Nat /\ o # None
  BY <1>1, <1>2, <1>3 DEF Object, UsearchAssumption
<1>6. \A q \in PartitionId \ {p} : partitions[q] # o
  <2>1. CASE partitions[p] = None
    BY <1>3, <1>4, <2>1 DEF Owned
  <2>2. CASE partitions[p] # None
    BY <1>2, <1>4, <2>2 DEF Owned
  <2> QED
    BY <2>1, <2>2
<1>7. partitions[p] = None => expected[o] = {}
  BY <1>4, <1>5, <1>6 DEF NothingLost
<1>8. o \in 1 .. created'
  <2>1. CASE partitions[p] = None
    BY <1>1, <1>3, <2>1
  <2>2. CASE partitions[p] # None
    BY <1>1, <1>2, <1>4, <2>2 DEF Owned
  <2> QED
    BY <2>1, <2>2
<1>9. \A n \in 1 .. created : n \in 1 .. created'
  BY <1>1, <1>3
<1>10. expected[o] = Present[p] /\ \A q \in PartitionId : Present[q] =
         IF partitions[q] = None THEN {} ELSE expected[partitions[q]]
  BY <1>2, <1>7 DEF Present
<1> HIDE DEF o
<1>11. /\ partitions'[p] = o /\ \A q \in PartitionId \ {p} : partitions'[q] = partitions[q]
       /\ expected'[o] = expected[o] \union {m.id}
       /\ \A x \in Object \ {o} : expected'[x] = expected[x]
  BY <1>1, <1>2, <1>3, <1>5
<1>12. Owned'
  <2> SUFFICES ASSUME NEW q \in PartitionId, partitions'[q] # None
               PROVE  /\ partitions'[q] \in 1 .. created'
                      /\ \A r \in PartitionId : partitions'[r] = partitions'[q] => r = q
    BY DEF Owned
  <2>1. CASE q = p
    BY <1>6, <1>8, <1>11, <2>1
  <2>2. CASE q # p
    BY <1>4, <1>6, <1>9, <1>11, <2>2 DEF Owned
  <2> QED
    BY <2>1, <2>2
<1>13. NothingLost'
  <2> SUFFICES ASSUME NEW x \in Object, \A q \in PartitionId : partitions'[q] # x
               PROVE  expected'[x] = {}
    BY DEF NothingLost
  <2>1. x # o
    BY <1>2, <1>11
  <2>2. \A q \in PartitionId : partitions[q] # x
    <3> TAKE q \in PartitionId
    <3>1. CASE q = p
      BY <1>3, <2>1, <3>1 DEF o, Object
    <3>2. CASE q # p
      BY <1>11, <3>2
    <3> QED
      BY <3>1, <3>2
  <2> QED
    BY <1>4, <1>11, <2>1, <2>2 DEF NothingLost
<1>14. ASSUME NEW q \in PartitionId, NEW id \in Present'[q]
       PROVE  /\ id \in Present[q] \/ (IsAdd(m, q) /\ id = m.id)
              /\ ~IsRemoval(m, q, id)
  <2>1. Present'[q] = IF partitions'[q] = None THEN {} ELSE expected'[partitions'[q]]
    BY DEF Present
  <2>2. CASE q = p
    <3>1. Present'[q] = Present[q] \union {m.id}
      BY <1>5, <1>10, <1>11, <2>1, <2>2
    <3> QED
      BY <1>2, <1>14, <2>2, <3>1 DEF IsAdd, IsRemoval
  <2>3. CASE q # p
    <3>1. partitions'[q] = partitions[q] /\ partitions[q] # o
      BY <1>6, <1>11, <2>3
    <3>2. Present'[q] = Present[q]
      BY <1>3, <1>10, <1>11, <2>1, <3>1
    <3> QED
      BY <1>2, <1>14, <3>2 DEF IsRemoval
  <2> QED
    BY <2>2, <2>3
<1>15. OrderKept(rx_modify', live', Present')
  BY <1>2, <1>14, OrderAfterTake
<1> QED
  BY <1>1, <1>12, <1>13, <1>15 DEF CountInv

\* The actor receives a removal, or drops an add.
LEMMA CountRemove ==
  ASSUME UsearchAssumption, UsearchTypes, CountInv, ReceiveRemove \/ DropAdd
  PROVE  CountInv'
<1> DEFINE m == Head(rx_modify)
           p == m.partition
           o == partitions[p]
<1>1. /\ UNCHANGED <<partitions, created, objects, count>>
      /\ \/ expected' = expected /\ (TakeModify("Insert") \/ (o = None /\ TakeModify("Remove")))
         \/ o # None /\ expected' = [expected EXCEPT ![o] = @ \ {m.id}] /\ TakeModify("Remove")
  BY DEF ReceiveRemove, DropAdd, indexVars, libraryVars
<1>2. /\ rx_modify # <<>> /\ rx_modify \in Seq(Message) /\ rx_modify' = Tail(rx_modify)
      /\ live' = live /\ m \in Message /\ p \in PartitionId
      /\ OrderKept(rx_modify, live, Present)
      /\ \A op : TakeModify(op) => m.op = op
  BY <1>1, TakenFacts DEF TakeModify
<1>3. /\ partitions \in [PartitionId -> Object \union {None}]
      /\ expected \in [Object -> SUBSET VectorId]
      /\ Owned /\ NothingLost
  BY DEF UsearchTypes, IndexTypes, CountInv
<1>4. \A q \in PartitionId : /\ Present[q] = IF partitions[q] = None THEN {} ELSE expected[partitions[q]]
                             /\ Present'[q] = IF partitions[q] = None THEN {} ELSE expected'[partitions[q]]
  BY <1>1 DEF Present
<1>5. ASSUME NEW q \in PartitionId, NEW id \in Present'[q]
      PROVE  id \in Present[q] /\ ~IsRemoval(m, q, id)
  <2>1. CASE expected' = expected /\ TakeModify("Insert")
    BY <1>2, <1>4, <1>5, <2>1 DEF IsRemoval
  <2>2. CASE expected' = expected /\ o = None
    BY <1>2, <1>4, <1>5, <2>2 DEF IsRemoval
  <2>3. CASE o # None /\ expected' = [expected EXCEPT ![o] = @ \ {m.id}]
    <3>1. partitions[q] \in Object
      BY <1>3, <1>4, <1>5
    <3>2. expected'[partitions[q]] =
            IF partitions[q] = o THEN expected[o] \ {m.id} ELSE expected[partitions[q]]
      BY <1>3, <2>3, <3>1
    <3>3. partitions[q] # None
      BY <1>4, <1>5
    <3> QED
      BY <1>4, <1>5, <3>2, <3>3 DEF IsRemoval
  <2> QED
    BY <1>1, <2>1, <2>2, <2>3
<1>6. OrderKept(rx_modify', live', Present')
  BY <1>2, <1>5, OrderAfterTake
<1>7. \A x \in Object : expected'[x] \subseteq expected[x]
  BY <1>1, <1>3
<1>8. Owned' /\ NothingLost'
  BY <1>1, <1>3, <1>7 DEF Owned, NothingLost
<1> QED
  BY <1>1, <1>6, <1>8 DEF CountInv

\* The actor removes a partition, in which nothing is left.
LEMMA CountDrop ==
  ASSUME UsearchAssumption, UsearchTypes, CountInv, ReceiveRemovePartition
  PROVE  CountInv'
<1> DEFINE m == Head(rx_modify)
           p == m.partition
<1>1. /\ TakeModify("RemovePartition") /\ partitions' = [partitions EXCEPT ![p] = None]
      /\ UNCHANGED <<created, expected, objects, count>>
  BY DEF ReceiveRemovePartition, libraryVars
<1>2. /\ rx_modify # <<>> /\ rx_modify \in Seq(Message) /\ rx_modify' = Tail(rx_modify)
      /\ live' = live /\ m \in Message /\ m.op = "RemovePartition" /\ p \in PartitionId
      /\ OrderKept(rx_modify, live, Present)
  BY <1>1, TakenFacts
<1>3. /\ partitions \in [PartitionId -> Object \union {None}] /\ Owned /\ NothingLost
  BY DEF UsearchTypes, IndexTypes, CountInv
<1>4. partitions'[p] = None /\ \A q \in PartitionId \ {p} : partitions'[q] = partitions[q]
  BY <1>1, <1>2, <1>3
<1>5. Present[p] = {}
  <2>1. IsDrop(m, p)
    BY <1>2 DEF IsDrop
  <2> QED
    BY <1>2, <2>1, DroppedEmpty
<1>6. \A q \in PartitionId : /\ Present[q] = IF partitions[q] = None THEN {} ELSE expected[partitions[q]]
                             /\ Present'[q] = IF partitions'[q] = None THEN {} ELSE expected[partitions'[q]]
  BY <1>1 DEF Present
<1> HIDE DEF p
<1>7. \A q \in PartitionId : Present'[q] \subseteq Present[q]
  BY <1>4, <1>6
<1>8. \A q, id : ~IsRemoval(m, q, id)
  BY <1>2 DEF IsRemoval
<1>9. OrderKept(rx_modify', live', Present')
  BY <1>2, <1>7, <1>8, OrderAfterTake
<1>10. Owned'
  BY <1>1, <1>3, <1>4 DEF Owned
<1>11. NothingLost'
  <2> SUFFICES ASSUME NEW x \in Object, \A q \in PartitionId : partitions'[q] # x
               PROVE  expected[x] = {}
    BY <1>1 DEF NothingLost
  <2>1. CASE partitions[p] = x
    <3>1. x # None
      BY <1>2, <1>4
    <3> QED
      BY <1>2, <1>5, <1>6, <2>1, <3>1
  <2>2. CASE partitions[p] # x
    BY <1>3, <1>4, <2>2 DEF NothingLost
  <2> QED
    BY <2>1, <2>2
<1> QED
  BY <1>1, <1>9, <1>10, <1>11 DEF CountInv

\* A task takes effect: both counters move.
LEMMA CountFinish ==
  ASSUME UsearchAssumption, UsearchInv, CountInv, NEW w \in Worker, FinishTask(w)
  PROVE  CountInv'
<1> DEFINE t == running[w]
           x == t.object
           e == Effect(t)
<1>1. /\ w \in Running /\ objects' = [objects EXCEPT ![x] = e]
      /\ count' = count + e.size - objects[x].size
      /\ UNCHANGED <<partitions, created, expected, rx_modify, live>>
  BY DEF FinishTask, DropPermit, Running, inputVars, CountAfter
<1>2. t \in TaskType /\ e \in ObjectType
  BY <1>1, EffectFacts DEF UsearchInv, RoomInv
<1>3. x \in Object /\ e.size \in Nat
  BY <1>2 DEF TaskType, ObjectType
<1>4. /\ objects \in [Object -> ObjectType] /\ IsFiniteSet(Object)
      /\ \A o \in Object : objects[o].size \in Nat
  <2>1. objects \in [Object -> ObjectType] /\ 1 \in Int /\ MaxObject \in Int
    BY DEF UsearchInv, UsearchTypes, IndexTypes, UsearchAssumption
  <2>2. IsFiniteSet(Object)
    BY <2>1, FS_Interval DEF Object
  <2> QED
    BY <2>1, <2>2 DEF ObjectType
<1> HIDE DEF e, x
<1>5. /\ objects'[x] = e /\ \A o \in Object \ {x} : objects'[o] = objects[o]
  BY <1>1, <1>3, <1>4
<1>6. \A o \in Object : objects'[o].size \in Nat
  BY <1>3, <1>4, <1>5
<1>7. SizeSum(objects', Object) = SizeSum(objects, Object) + objects'[x].size - objects[x].size
  BY <1>3, <1>4, <1>5, <1>6, SumChanges
<1>8. count' = SizeSum(objects, Object)'
  <2>1. SizeSum(objects, Object)' = SizeSum(objects', Object)
    BY DEF SizeSum, MapThenSumSet, MapThenFoldSet, Object
  <2> QED
    BY <1>1, <1>5, <1>7, <2>1 DEF CountInv
<1>9. Present' = Present
  BY <1>1 DEF Present
<1> QED
  BY <1>1, <1>8, <1>9 DEF CountInv, Owned, NothingLost

\* Every step preserves the invariant of the count.
LEMMA CountStep ==
  ASSUME UsearchAssumption, UsearchInv, UsearchTypes', CountInv, [UsearchNext]_usearchVars
  PROVE  CountInv'
<1> USE DEF actorVars, permitVars, workerVars, inputVars, libraryVars, indexVars
<1>0. UsearchTypes
  BY DEF UsearchInv
<1>1. CASE UNCHANGED <<partitions, created, expected, objects, count, rx_modify, live>>
  BY <1>1 DEF CountInv, Owned, NothingLost, Present
<1>2. ASSUME NEW p \in PartitionId, SendAdd(p) \/ SendRemove(p) \/ SendRemovePartition(p)
      PROVE  CountInv'
  BY <1>0, <1>2, CountSent
<1>3. CASE ReceiveAdd
  BY <1>0, <1>3, CountAdd
<1>4. CASE ReceiveRemove \/ DropAdd
  BY <1>0, <1>4, CountRemove
<1>5. CASE ReceiveRemovePartition
  BY <1>0, <1>5, CountDrop
<1>6. ASSUME NEW w \in Worker, FinishTask(w) PROVE CountInv'
  BY <1>6, CountFinish
<1>7. ASSUME NEW w \in Worker, TakeTask(w) \/ FailTask(w) \/ NotifyOne(w) PROVE CountInv'
  BY <1>1, <1>7 DEF TakeTask, FailTask, NotifyOne, DropPermit
<1>8. ASSUME NEW p \in PartitionId, SendSearch(p) PROVE CountInv'
  BY <1>1, <1>8 DEF SendSearch
<1>9. CASE ReceiveSearch \/ PermitForReserve \/ PermitForMessage \/ SkipReserve \/ SendReserve \/ SendTask
  BY <1>1, <1>9 DEF ReceiveSearch, PermitForReserve, PermitForMessage, Permit, SkipReserve,
     SendReserve, SendTask, SendToWorkers
<1>10. ASSUME NEW l, NEW m, NEW a, StartWaiting(l, m) \/ Notified(l, m, a) PROVE CountInv'
  BY <1>1, <1>10 DEF StartWaiting, Notified
<1>11. CASE UNCHANGED usearchVars
  BY <1>1, <1>11 DEF usearchVars
<1> QED
  BY <1>2, <1>3, <1>4, <1>5, <1>6, <1>7, <1>8, <1>9, <1>10, <1>11
  DEF UsearchNext, Actor, Receive, WorkerStep

\* Nothing is counted at the start.
LEMMA CountInitInv ==
  ASSUME UsearchAssumption, UsearchInit
  PROVE  CountInv
<1>1. /\ objects = [o \in Object |-> [size |-> 0, capacity |-> 0, content |-> {}]] /\ count = 0
      /\ partitions = [p \in PartitionId |-> None] /\ expected = [o \in Object |-> {}]
      /\ rx_modify = <<>>
  BY DEF UsearchInit
<1>2. SizeSum(objects, Object) = 0
  <2>1. IsFiniteSet(Object)
    <3>1. 1 \in Int /\ MaxObject \in Int
      BY DEF UsearchAssumption
    <3> QED
      BY <3>1, FS_Interval DEF Object
  <2>2. \A o \in Object : objects[o].size = 0
    BY <1>1
  <2>3. \A o \in Object : objects[o].size \in Nat
    BY <2>2
  <2>4. SizeSum(objects, Object) = SizeSum(objects, {})
    BY <2>1, <2>2, <2>3, SumOfSome
  <2>5. SizeSum(objects, {}) = 0
    <3>1. IsFiniteSet({})
      BY FS_EmptySet
    <3> QED
      BY <3>1, SumFacts
  <2> QED
    BY <2>4, <2>5
<1>3. Present = [p \in PartitionId |-> {}]
  BY <1>1 DEF Present
<1> QED
  BY <1>1, <1>2, <1>3 DEF CountInv, Owned, NothingLost, OrderKept

\* The answer to Count is the number of vectors in the partitions that the
\* actor knows: what fails or is refused is not counted, and no vector of a
\* removed partition still is.
THEOREM CountsExact == UsearchSpec => []CountExact
<1>1. UsearchInit => UsearchInv /\ CountInv
  BY UsearchAssumption, UsearchInitInv, CountInitInv
<1>2. (UsearchInv /\ UsearchInv') /\ CountInv /\ [UsearchNext]_usearchVars => CountInv'
  BY UsearchAssumption, CountStep DEF UsearchInv
<1>3. UsearchInv /\ CountInv /\ EffectsInOrder => CountExact
  <2> SUFFICES ASSUME UsearchInv, CountInv, EffectsInOrder, AtRest
               PROVE  count = SizeSum(objects, {partitions[p] : p \in PartitionId} \ {None})
    BY DEF CountExact, SizeSum, MapThenSumSet, MapThenFoldSet
  <2> DEFINE S == {partitions[p] : p \in PartitionId} \ {None}
  <2>1. /\ partitions \in [PartitionId -> Object \union {None}]
        /\ objects \in [Object -> ObjectType] /\ 1 \in Int /\ MaxObject \in Int
    BY UsearchAssumption DEF UsearchInv, UsearchTypes, IndexTypes, UsearchAssumption
  <2>2. IsFiniteSet(Object) /\ S \in SUBSET Object
    BY <2>1, FS_Interval DEF Object
  <2>3. \A o \in Object : objects[o].size \in Nat
    BY <2>1 DEF ObjectType
  <2>4. ASSUME NEW o \in Object \ S PROVE objects[o].size = 0
    <3>1. o # None
      BY UsearchAssumption DEF UsearchAssumption, Object
    <3>2. expected[o] = {}
      BY <3>1 DEF CountInv, NothingLost
    <3>3. objects[o].size = Cardinality({})
      BY <3>2 DEF EffectsInOrder
    <3> QED
      BY <3>3, FS_EmptySet
  <2> HIDE DEF S
  <2>5. SizeSum(objects, Object) = SizeSum(objects, S)
    BY <2>2, <2>3, <2>4, SumOfSome
  <2> QED
    BY <2>5 DEF CountInv, S
<1> QED
  BY <1>1, <1>2, <1>3, UsearchInvariant, ModificationsInOrder, PTL DEF UsearchSpec

-----------------------------------------------------------------------------
(* The life of the nodes of a DiskANN index.                               *)

AddWork ==
  [at : {"add", "link", "complete"}, op : {m \in Modification : m.op = "add"},
   arc : Nat \ {0}, place : Nat]
RemoveWork ==
  [at : {"remove", "repair", "reap"}, op : {m \in Modification : m.op = "remove"},
   arc : Nat \ {0}, place : Nat]
NodeName == Parts \X VectorIds

DiskannTypes ==
  /\ modifies \in Seq(Modification)
  /\ stored \in [VectorIds -> RowKinds]
  /\ arcs \in [Parts -> Nat] /\ nextArc \in Nat \ {0}
  /\ size \in 0 .. SizeWrap - 1
  /\ nodes \in [NodeName -> {"absent", "live", "dead"}]
  /\ work \subseteq AddWork \union RemoveWork
  /\ IsFiniteSet(work)
  /\ faults \in Nat

\* Every message has its own task.
PlacesInv ==
  /\ \A t \in work : t.place > Len(modifies)
  /\ \A t, u \in work : t.place = u.place => t = u

\* Insertions with a guard, and deletions of a node that they marked.
Guarded == {t \in work : t.at \in {"link", "complete"}}
Marking == {t \in work : t.at \in {"repair", "reap"}}

\* Whatever is not at rest has the task that will see to it.
NodesInv ==
  /\ \A n \in NodeName :
       /\ nodes[n] = "live" => n[2] \in inserted \/ \E t \in Guarded : Node(t) = n
       /\ nodes[n] = "dead" => \E t \in Marking : Node(t) = n
  /\ \A f \in inflight : \E t \in Guarded : f = <<t.arc, t.op.id>>

\* Of an id that has not been removed, an insertion works on its node alone.
InsertedInv ==
  /\ \A t \in work : t.op.op = "remove" => t.op.id \in removed
  /\ \A t \in Guarded : t.op.id \notin removed =>
       /\ nodes[Node(t)] = "live"
       /\ \A u \in Guarded : Node(u) = Node(t) => u = t
  /\ \A id \in inserted \ removed :
       \E n \in NodeName : /\ n[2] = id /\ nodes[n] = "live"
                           /\ \A t \in Guarded : Node(t) # n

\* The count, up to the tasks that have yet to change it and to its width.
Counted == Cardinality(LiveNodes) + Cardinality(Marking) - Cardinality(Guarded)
SizeInv == faults = 0 => \E q \in Int : Counted = size + q * SizeWrap

DiskannInv == DiskannTypes /\ PlacesInv /\ NodesInv /\ InsertedInv /\ SizeInv

\* One more or one less, within the width of the counter.
LEMMA Wraps ==
  ASSUME NEW W \in Nat \ {0}, NEW s \in 0 .. W - 1
  PROVE  /\ (s + 1) % W \in 0 .. W - 1 /\ (s - 1) % W \in 0 .. W - 1
         /\ \E d \in {0, 1} : (s + 1) % W = s + 1 - d * W
         /\ \E d \in {0, 1} : (s - 1) % W = s - 1 + d * W
<1>1. (s + 1) % W = IF s + 1 = W THEN 0 ELSE s + 1
  OBVIOUS
<1>2. (s - 1) % W = IF s = 0 THEN W - 1 ELSE s - 1
  OBVIOUS
<1>3. 0 * W = 0 /\ 1 * W = W
  OBVIOUS
<1> QED
  BY <1>1, <1>2, <1>3

\* What holds of the parts when nothing runs.
LEMMA DiskannAtRest == DiskannInv => NothingLeftBehind
<1> SUFFICES ASSUME DiskannInv, AllAtRest
             PROVE  /\ \A n \in DOMAIN nodes : nodes[n] # "dead"
                    /\ inflight = {}
                    /\ inserted \ removed \subseteq {n[2] : n \in LiveNodes}
                    /\ {n[2] : n \in LiveNodes} \subseteq inserted
                    /\ faults = 0 => size = Cardinality(LiveNodes)
  BY DEF NothingLeftBehind
<1>1. Guarded = {} /\ Marking = {} /\ DOMAIN nodes = NodeName
  BY DEF Guarded, Marking, AllAtRest, DiskannInv, DiskannTypes
<1>2. (\A n \in DOMAIN nodes : nodes[n] # "dead") /\ inflight = {}
  BY <1>1 DEF DiskannInv, NodesInv
<1>3. {n[2] : n \in LiveNodes} \subseteq inserted
  BY <1>1 DEF DiskannInv, NodesInv, LiveNodes
<1>4. inserted \ removed \subseteq {n[2] : n \in LiveNodes}
  BY <1>1 DEF DiskannInv, InsertedInv, LiveNodes
<1>5. ASSUME faults = 0
      PROVE  size = Cardinality(LiveNodes)
  <2>1. PICK q \in Int : Cardinality(LiveNodes) + Cardinality({}) - Cardinality({}) = size + q * SizeWrap
    BY <1>1, <1>5 DEF DiskannInv, SizeInv, Counted
  <2>2. IsFiniteSet(NodeName) /\ LiveNodes \subseteq NodeName
    BY <1>1, FS_Product, DiskannAssumption DEF NodeName, LiveNodes
  <2>3. Cardinality(LiveNodes) \in Nat /\ Cardinality(LiveNodes) < SizeWrap /\ Cardinality({}) = 0
    <3>1. Cardinality(LiveNodes) <= Cardinality(NodeName) /\ IsFiniteSet(LiveNodes)
      BY <2>2, FS_Subset
    <3>2. Cardinality(LiveNodes) \in Nat /\ Cardinality(NodeName) \in Nat
      BY <2>2, <3>1, FS_CardinalityType
    <3> QED
      BY <3>1, <3>2, DiskannAssumption, FS_EmptySet DEF NodeName
  <2>4. size \in 0 .. SizeWrap - 1 /\ SizeWrap \in Nat
    BY DiskannAssumption DEF DiskannInv, DiskannTypes
  <2> DEFINE c == Cardinality(LiveNodes)
  <2>5. c = size + q * SizeWrap /\ c \in Nat /\ c < SizeWrap
    BY <2>1, <2>3, <2>4
  <2> HIDE DEF c
  <2>6. CASE q >= 1
    <3>1. q * SizeWrap >= SizeWrap
      BY <2>4, <2>6
    <3> QED
      BY <3>1, <2>4, <2>5
  <2>7. CASE q <= -1
    <3>1. q * SizeWrap <= -SizeWrap
      BY <2>4, <2>7
    <3> QED
      BY <3>1, <2>4, <2>5
  <2>8. CASE q = 0
    BY <2>4, <2>5, <2>8 DEF c
  <2> QED
    BY <2>6, <2>7, <2>8
<1> QED
  BY <1>2, <1>3, <1>4, <1>5

LEMMA DiskannInitInv == DiskannInit \/ DiskannRests => DiskannInv
<1> SUFFICES ASSUME DiskannInit \/ DiskannRests
             PROVE  DiskannInv
  OBVIOUS
<1>1. /\ arcs = [p \in Parts |-> 0] /\ nextArc = 1 /\ size = 0
      /\ nodes = [n \in NodeName |-> "absent"]
      /\ inflight = {} /\ work = {} /\ inserted = {} /\ removed = {} /\ faults = 0
  BY DEF DiskannInit, DiskannRests, NodeName
<1>2. modifies \in Seq(Modification) /\ stored \in [VectorIds -> RowKinds]
  <2>1. CASE DiskannInit
    BY <2>1, DiskannAssumption DEF DiskannInit
  <2>2. CASE DiskannRests
    <3>1. <<>> \in Seq(Modification) /\ "no row" \in RowKinds
      BY DEF RowKinds
    <3> QED
      BY <2>2, <3>1 DEF DiskannRests
  <2> QED
    BY <2>1, <2>2
<1>3. SizeWrap \in Nat \ {0}
  <2>1. Cardinality(Parts \X VectorIds) \in Nat
    BY FS_Product, FS_CardinalityType, DiskannAssumption
  <2> QED
    BY <2>1, DiskannAssumption
<1>4. DiskannTypes
  BY <1>1, <1>2, <1>3, FS_EmptySet DEF DiskannTypes
<1>5. PlacesInv /\ NodesInv /\ InsertedInv
  BY <1>1 DEF PlacesInv, NodesInv, InsertedInv, Guarded, Marking
<1>6. SizeInv
  <2>1. LiveNodes = {} /\ Guarded = {} /\ Marking = {}
    BY <1>1 DEF LiveNodes, Guarded, Marking
  <2>2. Cardinality({}) = 0 /\ 0 \in Int /\ 0 + 0 - 0 = 0 + 0 * SizeWrap
    BY FS_EmptySet, <1>3
  <2> QED
    BY <1>1, <2>1, <2>2 DEF SizeInv, Counted
<1> QED
  BY <1>4, <1>5, <1>6 DEF DiskannInv

\* The sets that are counted are finite.
LEMMA DiskannFinite ==
  ASSUME DiskannTypes
  PROVE  /\ IsFiniteSet(LiveNodes) /\ IsFiniteSet(Guarded) /\ IsFiniteSet(Marking)
         /\ Cardinality(LiveNodes) \in Nat /\ Cardinality(Guarded) \in Nat
         /\ Cardinality(Marking) \in Nat
         /\ SizeWrap \in Nat \ {0}
<1>1. IsFiniteSet(NodeName) /\ LiveNodes \subseteq NodeName
  BY FS_Product, DiskannAssumption DEF DiskannTypes, NodeName, LiveNodes
<1>2. IsFiniteSet(LiveNodes) /\ IsFiniteSet(Guarded) /\ IsFiniteSet(Marking)
  BY <1>1, FS_Subset DEF DiskannTypes, Guarded, Marking
<1>3. Cardinality(NodeName) \in Nat
  BY <1>1, FS_CardinalityType
<1> QED
  BY <1>2, <1>3, FS_CardinalityType, DiskannAssumption DEF NodeName

\* What a change of the count leaves of its invariant.
LEMMA SizeKept ==
  ASSUME DiskannTypes, SizeInv, faults' = 0 => faults = 0,
         \/ Counted' = Counted /\ size' = size
         \/ Counted' = Counted + 1 /\ size' = (size + 1) % SizeWrap
         \/ Counted' = Counted - 1 /\ size' = (size - 1) % SizeWrap
  PROVE  SizeInv'
<1> SUFFICES ASSUME faults' = 0
             PROVE  \E q \in Int : Counted' = size' + q * SizeWrap
  BY DEF SizeInv
<1>1. PICK q \in Int : Counted = size + q * SizeWrap
  BY DEF SizeInv
<1>2. Counted \in Int /\ SizeWrap \in Nat \ {0} /\ size \in 0 .. SizeWrap - 1
  BY DiskannFinite DEF DiskannTypes, Counted
<1>3. PICK d \in {0, 1} : (size + 1) % SizeWrap = size + 1 - d * SizeWrap
  BY <1>2, Wraps
<1>4. PICK e \in {0, 1} : (size - 1) % SizeWrap = size - 1 + e * SizeWrap
  BY <1>2, Wraps
<1> DEFINE z == q * SizeWrap
<1>5. /\ (q + d) * SizeWrap = z + d * SizeWrap /\ q + d \in Int
      /\ (q - e) * SizeWrap = z - e * SizeWrap /\ q - e \in Int
      /\ z \in Int /\ d * SizeWrap \in Int /\ e * SizeWrap \in Int
  BY <1>2
<1>6. Counted = size + z
  BY <1>1
<1> DEFINE q1 == q + d
           q2 == q - e
           zd == d * SizeWrap
           ze == e * SizeWrap
<1>7. q1 \in Int /\ q2 \in Int /\ q1 * SizeWrap = z + zd /\ q2 * SizeWrap = z - ze
      /\ z \in Int /\ zd \in Int /\ ze \in Int
  BY <1>5
<1>8. (size + 1) % SizeWrap = size + 1 - zd /\ (size - 1) % SizeWrap = size - 1 + ze
  BY <1>3, <1>4
<1> HIDE DEF z, zd, ze, q1, q2
<1> DEFINE up == (size + 1) % SizeWrap
           down == (size - 1) % SizeWrap
<1>9. up = size + 1 - zd /\ down = size - 1 + ze
  BY <1>8
<1>10. \/ Counted' = Counted /\ size' = size
       \/ Counted' = Counted + 1 /\ size' = up
       \/ Counted' = Counted - 1 /\ size' = down
  OBVIOUS
<1> HIDE DEF up, down
<1>11. CASE Counted' = Counted /\ size' = size
  BY <1>1, <1>11
<1>12. CASE Counted' = Counted + 1 /\ size' = up
  <2>1. Counted' = size' + (z + zd)
    BY <1>2, <1>6, <1>7, <1>9, <1>12
  <2> QED
    BY <1>7, <2>1
<1>13. CASE Counted' = Counted - 1 /\ size' = down
  <2>1. Counted' = size' + (z - ze)
    BY <1>2, <1>6, <1>7, <1>9, <1>13
  <2> QED
    BY <1>7, <2>1
<1> QED
  BY <1>10, <1>11, <1>12, <1>13

\* The actor takes a message, and perhaps starts its task.
LEMMA MessageTaken ==
  ASSUME DiskannInv, modifies # <<>>, modifies' = Tail(modifies),
         UNCHANGED <<size, nodes, inflight, inserted, stored>>, removed \subseteq removed',
         arcs' \in [Parts -> Nat], nextArc' \in Nat \ {0},
         faults' \in Nat, faults' = 0 => faults = 0,
         NEW op, op = Head(modifies),
         \/ work' = work
         \/ /\ op.op \in {"add", "remove"}
            /\ op.op = "remove" => op.id \in removed'
            /\ \E arc \in Nat \ {0} : Spawn(op, arc)
  PROVE  DiskannInv'
<1>1. /\ DiskannTypes /\ op \in Modification /\ modifies' \in Seq(Modification)
      /\ Len(modifies) \in Nat /\ Len(modifies') = Len(modifies) - 1 /\ Len(modifies) > 0
  BY DEF DiskannInv, DiskannTypes
<1> DEFINE New(u) == /\ u \in AddWork \union RemoveWork
                     /\ u.at \in {"add", "remove"} /\ u.place = Len(modifies)
                     /\ u.op = op /\ (op.op = "remove" => op.id \in removed')
<1>2. work' = work \/ \E u : New(u) /\ work' = work \union {u}
  <2>1. CASE work' = work
    BY <2>1
  <2>2. ASSUME op.op \in {"add", "remove"}, op.op = "remove" => op.id \in removed',
               NEW arc \in Nat \ {0}, Spawn(op, arc)
        PROVE  \E u : New(u) /\ work' = work \union {u}
    <3> DEFINE u == [at |-> op.op, op |-> op, arc |-> arc, place |-> Len(modifies)]
    <3>1. work' = work \union {u}
      BY <2>2 DEF Spawn
    <3>2. u \in AddWork \union RemoveWork
      <4>1. CASE op.op = "add"
        BY <1>1, <4>1 DEF AddWork
      <4>2. CASE op.op = "remove"
        BY <1>1, <4>2 DEF RemoveWork
      <4> QED
        BY <2>2, <4>1, <4>2
    <3>3. New(u)
      BY <2>2, <3>2
    <3> QED
      BY <3>1, <3>3
  <2> QED
    BY <2>1, <2>2
<1>3. Guarded' = Guarded /\ Marking' = Marking
  BY <1>2 DEF Guarded, Marking
<1>4. DiskannTypes'
  <2>1. work' \subseteq AddWork \union RemoveWork
    BY <1>1, <1>2 DEF DiskannTypes
  <2>2. IsFiniteSet(work')
    <3>1. IsFiniteSet(work)
      BY <1>1 DEF DiskannTypes
    <3> HIDE DEF New
    <3> QED
      BY <1>2, <3>1, FS_AddElement
  <2> QED
    BY <1>1, <2>1, <2>2 DEF DiskannTypes
<1>5. PlacesInv'
  <2>1. \A t \in work : t.place \in Nat /\ t.place > Len(modifies)
    BY <1>1 DEF DiskannInv, DiskannTypes, PlacesInv, AddWork, RemoveWork
  <2>2. \A t \in work' : t.place > Len(modifies')
    BY <1>1, <1>2, <2>1
  <2>3. \A t, u \in work' : t.place = u.place => t = u
    <3>1. \A t, u \in work : t.place = u.place => t = u
      BY DEF DiskannInv, PlacesInv
    <3>2. \A t \in work : t.place # Len(modifies)
      BY <1>1, <2>1
    <3> QED
      BY <1>2, <3>1, <3>2
  <2> QED
    BY <2>2, <2>3 DEF PlacesInv
<1>6. NodesInv'
  BY <1>3 DEF DiskannInv, NodesInv, Node
<1>7. InsertedInv'
  <2>1. \A t \in work' : t.op.op = "remove" => t.op.id \in removed'
    BY <1>2 DEF DiskannInv, InsertedInv
  <2> QED
    BY <1>3, <2>1 DEF DiskannInv, InsertedInv, Node
<1>8. SizeInv'
  <2>1. Counted' = Counted /\ size' = size
    BY <1>3 DEF Counted, LiveNodes
  <2> QED
    BY <1>1, <2>1, SizeKept DEF DiskannInv
<1> QED
  BY <1>4, <1>5, <1>6, <1>7, <1>8 DEF DiskannInv

LEMMA PreprocessInv ==
  ASSUME DiskannInv, PreprocessAdd \/ PreprocessRemove \/ PreprocessRemovePartition
  PROVE  DiskannInv'
<1> DEFINE op == Head(modifies)
<1>1. /\ modifies # <<>> /\ op \in Modification
      /\ arcs \in [Parts -> Nat] /\ nextArc \in Nat \ {0} /\ faults \in Nat
  <2>1. modifies # <<>> /\ modifies \in Seq(Modification)
    BY DEF DiskannInv, DiskannTypes, PreprocessAdd, PreprocessRemove, PreprocessRemovePartition
  <2>2. Head(modifies) \in Modification
    BY <2>1
  <2> QED
    BY <2>1, <2>2 DEF DiskannInv, DiskannTypes
<1>2. op.part \in Parts /\ op.op \in {"add", "remove", "remove partition"}
  BY <1>1 DEF Modification
<1> HIDE DEF op
<1>3. arcs[op.part] # 0 => arcs[op.part] \in Nat \ {0}
  BY <1>1, <1>2
<1>4. modifies' = Tail(modifies) /\ UNCHANGED <<size, nodes, inflight, inserted, stored>>
  BY DEF PreprocessAdd, PreprocessRemove, PreprocessRemovePartition
<1>5. CASE PreprocessAdd
  <2>1. op.op = "add" /\ removed' = removed
    BY <1>5 DEF PreprocessAdd, op
  <2>2. faults' = faults \/ faults' = faults + 1
    BY <1>5 DEF PreprocessAdd, CannotAllocate, DiskannFault
  <2>3. \/ UNCHANGED <<arcs, nextArc>>
        \/ arcs' = [arcs EXCEPT ![op.part] = nextArc] /\ nextArc' = nextArc + 1
    BY <1>5 DEF PreprocessAdd, op
  <2>4. work' = work \/ \E arc \in Nat \ {0} : Spawn(op, arc)
    BY <1>1, <1>3, <1>5 DEF PreprocessAdd, op
  <2>5. arcs' \in [Parts -> Nat] /\ nextArc' \in Nat \ {0}
    BY <1>1, <2>3
  <2> QED
    BY <1>1, <1>4, <2>1, <2>2, <2>4, <2>5, MessageTaken DEF op
<1>6. CASE PreprocessRemove
  <2>1. op.op = "remove" /\ removed' = removed \union {op.id} /\ UNCHANGED <<arcs, nextArc, faults>>
    BY <1>6 DEF PreprocessRemove, op
  <2>2. work' = work \/ \E arc \in Nat \ {0} : Spawn(op, arc)
    BY <1>3, <1>6 DEF PreprocessRemove, op
  <2> QED
    BY <1>1, <1>4, <2>1, <2>2, MessageTaken DEF op
<1>7. CASE PreprocessRemovePartition
  <2>1. work' = work /\ UNCHANGED <<nextArc, faults, removed>> /\ arcs' = [arcs EXCEPT ![op.part] = 0]
    BY <1>7 DEF PreprocessRemovePartition, op
  <2>2. arcs' \in [Parts -> Nat]
    BY <1>1, <2>1
  <2> QED
    BY <1>1, <1>4, <2>1, <2>2, MessageTaken DEF op
<1> QED
  BY <1>5, <1>6, <1>7

-----------------------------------------------------------------------------
(* The tasks of a DiskANN index.                                           *)

LEMMA WorkType ==
  ASSUME DiskannTypes, NEW t \in work
  PROVE  /\ t.op.part \in Parts /\ t.op.id \in VectorIds /\ Node(t) \in NodeName
         /\ t.place \in Nat /\ t.op.op \in {"add", "remove"}
         /\ t.op.op = "add" => t \in AddWork
         /\ t.op.op = "remove" => t \in RemoveWork
         /\ t.at \in {"add", "link", "complete"} => t.op.op = "add"
         /\ t.at \in {"remove", "repair", "reap"} => t.op.op = "remove"
<1>1. t \in AddWork \/ t \in RemoveWork
  BY DEF DiskannTypes
<1>2. CASE t \in AddWork
  BY <1>2 DEF AddWork, Modification, NodeName, Node
<1>3. CASE t \in RemoveWork
  BY <1>3 DEF RemoveWork, Modification, NodeName, Node
<1> QED
  BY <1>1, <1>2, <1>3

\* A task goes on with its message.
Follows(t, u, at) ==
  /\ u \notin work /\ u.op = t.op /\ u.arc = t.arc /\ u.at = at
  /\ work' = (work \ {t}) \union {u}

LEMMA TaskGoes ==
  ASSUME DiskannInv, NEW t \in work, NEW at, Goes(t, at), UNCHANGED modifies,
         \/ t.at \in {"add", "link"} /\ at \in {"link", "complete"}
         \/ t.at \in {"remove", "repair"} /\ at \in {"repair", "reap"},
         t.at # at
  PROVE  /\ work' \subseteq AddWork \union RemoveWork /\ IsFiniteSet(work')
         /\ PlacesInv'
         /\ \E u : Follows(t, u, at)
<1> DEFINE u == [t EXCEPT !.at = at]
<1>1. /\ u.op = t.op /\ u.arc = t.arc /\ u.at = at /\ u.place = t.place
      /\ u \in AddWork \union RemoveWork
  <2>1. CASE t \in AddWork
    BY <2>1 DEF AddWork
  <2>2. CASE t \in RemoveWork
    BY <2>2 DEF RemoveWork
  <2> QED
    BY <2>1, <2>2 DEF DiskannInv, DiskannTypes
<1>2. work' = (work \ {t}) \union {u}
  BY DEF Goes
<1>3. \A v \in work : v.place = t.place => v = t
  BY DEF DiskannInv, PlacesInv
<1> HIDE DEF u
<1>4. u \notin work
  BY <1>1, <1>3
<1>5. work' \subseteq AddWork \union RemoveWork
  BY <1>1, <1>2 DEF DiskannInv, DiskannTypes
<1>6. IsFiniteSet(work')
  <2>1. IsFiniteSet(work)
    BY DEF DiskannInv, DiskannTypes
  <2>2. IsFiniteSet(work \ {t})
    BY <2>1, FS_RemoveElement
  <2> QED
    BY <1>2, <2>2, FS_AddElement
<1>7. PlacesInv'
  <2>1. \A v \in work' : v.place > Len(modifies')
    BY <1>1, <1>2 DEF DiskannInv, PlacesInv
  <2>2. ASSUME NEW v \in work', NEW w \in work', v.place = w.place
        PROVE  v = w
    <3>1. v \in work /\ w \in work => v = w
      BY <2>2 DEF DiskannInv, PlacesInv
    <3> QED
      BY <1>1, <1>2, <1>3, <2>2, <3>1
  <2> QED
    BY <2>1, <2>2 DEF PlacesInv
<1>8. Follows(t, u, at)
  BY <1>1, <1>2, <1>4 DEF Follows
<1> QED
  BY <1>5, <1>6, <1>7, <1>8

LEMMA TaskDone ==
  ASSUME DiskannInv, NEW t \in work, Done(t), UNCHANGED modifies
  PROVE  /\ work' \subseteq AddWork \union RemoveWork /\ IsFiniteSet(work')
         /\ PlacesInv'
         /\ work' = work \ {t}
         /\ Guarded' = Guarded \ {t} /\ Marking' = Marking \ {t}
<1>1. work' = work \ {t}
  BY DEF Done
<1>2. IsFiniteSet(work')
  BY <1>1, FS_RemoveElement DEF DiskannInv, DiskannTypes
<1>3. PlacesInv'
  BY <1>1 DEF DiskannInv, PlacesInv
<1> QED
  BY <1>1, <1>2, <1>3 DEF DiskannInv, DiskannTypes, Guarded, Marking

\* A task that ends, or did not have its way, leaves the rest alone.
LEMMA TaskGivesUp ==
  ASSUME DiskannInv, NEW t \in work, t.at \in {"add", "remove"}, Done(t),
         UNCHANGED <<modifies, arcs, nextArc, size, nodes, inflight, inserted, removed, stored, faults>>
  PROVE  DiskannInv'
<1>1. Guarded' = Guarded /\ Marking' = Marking /\ work' = work \ {t}
  BY TaskDone DEF Guarded, Marking
<1>2. DiskannTypes' /\ PlacesInv'
  BY TaskDone DEF DiskannInv, DiskannTypes
<1>3. NodesInv' /\ InsertedInv'
  BY <1>1 DEF DiskannInv, NodesInv, InsertedInv, Node
<1>4. SizeInv'
  <2>1. Counted' = Counted /\ size' = size
    BY <1>1 DEF Counted, LiveNodes
  <2> QED
    BY <2>1, SizeKept DEF DiskannInv
<1> QED
  BY <1>2, <1>3, <1>4 DEF DiskannInv

LEMMA OneMoreOrLess ==
  ASSUME NEW A, IsFiniteSet(A)
  PROVE  /\ \A u : u \notin A => Cardinality(A \union {u}) = Cardinality(A) + 1
         /\ \A t : t \in A => Cardinality(A \ {t}) = Cardinality(A) - 1
         /\ \A t, u : t \in A /\ u \notin A => Cardinality((A \ {t}) \union {u}) = Cardinality(A)
<1>1. \A u : u \notin A => Cardinality(A \union {u}) = Cardinality(A) + 1
  BY FS_AddElement
<1>2. \A t : t \in A => IsFiniteSet(A \ {t}) /\ Cardinality(A \ {t}) = Cardinality(A) - 1
  BY FS_RemoveElement
<1>3. ASSUME NEW t, NEW u, t \in A, u \notin A
      PROVE  Cardinality((A \ {t}) \union {u}) = Cardinality(A)
  <2>1. u \notin A \ {t} /\ IsFiniteSet(A \ {t})
    BY <1>2, <1>3
  <2>2. Cardinality((A \ {t}) \union {u}) = Cardinality(A \ {t}) + 1
    BY <2>1, FS_AddElement
  <2>3. Cardinality(A) \in Nat
    BY FS_CardinalityType
  <2> QED
    BY <1>2, <1>3, <2>2, <2>3
<1> QED
  BY <1>1, <1>2, <1>3

LEMMA SetElementInv ==
  ASSUME DiskannInv, NEW t \in work, SetElement(t)
  PROVE  DiskannInv'
<1>1. CASE Done(t) /\ UNCHANGED <<nodes, inflight>>
  BY <1>1, TaskGivesUp DEF SetElement
<1>2. CASE /\ nodes[Node(t)] # "live" /\ NodeAs(t, "live") /\ Goes(t, "link")
           /\ inflight' = inflight \union {<<t.arc, t.op.id>>}
  <2>1. /\ t.at = "add" /\ DiskannTypes
        /\ UNCHANGED <<modifies, arcs, nextArc, size, inserted, removed, stored, faults>>
    BY DEF SetElement, DiskannInv
  <2>2. Node(t) \in NodeName /\ t.op.op = "add" /\ Node(t)[2] = t.op.id
    BY <2>1, WorkType DEF Node
  <2>3. /\ work' \subseteq AddWork \union RemoveWork /\ IsFiniteSet(work') /\ PlacesInv'
        /\ \E u : Follows(t, u, "link")
    BY <1>2, <2>1, TaskGoes
  <2>4. PICK u : Follows(t, u, "link")
    BY <2>3
  <2>5. /\ Guarded' = Guarded \union {u} /\ Marking' = Marking /\ u \notin Guarded
        /\ Node(u) = Node(t) /\ u.arc = t.arc /\ u.op = t.op /\ work' = (work \ {t}) \union {u}
    BY <2>1, <2>4 DEF Follows, Guarded, Marking, Node
  <2>6. nodes' = [nodes EXCEPT ![Node(t)] = "live"] /\ nodes \in [NodeName -> {"absent", "live", "dead"}]
    BY <1>2, <2>1 DEF NodeAs, DiskannTypes
  <2>7. nodes'[Node(t)] = "live" /\ \A n \in NodeName \ {Node(t)} : nodes'[n] = nodes[n]
    BY <2>2, <2>6
  <2>8. DiskannTypes'
    BY <2>1, <2>3, <2>6 DEF DiskannTypes
  <2>9. NodesInv'
    <3>1. ASSUME NEW n \in NodeName
          PROVE  /\ nodes'[n] = "live" => n[2] \in inserted' \/ \E v \in Guarded' : Node(v) = n
                 /\ nodes'[n] = "dead" => \E v \in Marking' : Node(v) = n
      BY <2>1, <2>5, <2>7 DEF DiskannInv, NodesInv
    <3>2. ASSUME NEW f \in inflight'
          PROVE  \E v \in Guarded' : f = <<v.arc, v.op.id>>
      BY <1>2, <2>5 DEF DiskannInv, NodesInv
    <3> QED
      BY <3>1, <3>2 DEF NodesInv, Node
  <2>10. InsertedInv'
    <3>1. \A v \in work' : v.op.op = "remove" => v.op.id \in removed'
      BY <2>1, <2>2, <2>5 DEF DiskannInv, InsertedInv
    <3>2. \A v \in Guarded : v.op.id \notin removed => Node(v) # Node(t) /\ nodes[Node(v)] = "live"
      BY <1>2 DEF DiskannInv, InsertedInv
    <3>3. \A v \in Guarded : Node(v) \in NodeName /\ Node(v)[2] = v.op.id
      BY <2>1, WorkType DEF Guarded, Node
    <3>4. ASSUME NEW v \in Guarded', v.op.id \notin removed'
          PROVE  nodes'[Node(v)] = "live" /\ \A w \in Guarded' : Node(w) = Node(v) => w = v
      <4>1. CASE v = u
        BY <2>1, <2>2, <2>5, <2>7, <3>2, <3>3, <3>4, <4>1
      <4>2. CASE v \in Guarded
        <5>1. Node(v) # Node(t) /\ nodes'[Node(v)] = "live"
          BY <2>1, <2>7, <3>2, <3>3, <3>4, <4>2
        <5>2. \A w \in Guarded : Node(w) = Node(v) => w = v
          BY <2>1, <3>4, <4>2 DEF DiskannInv, InsertedInv
        <5> QED
          BY <2>5, <5>1, <5>2
      <4> QED
        BY <2>5, <4>1, <4>2
    <3>5. ASSUME NEW id \in inserted' \ removed'
          PROVE  \E n \in NodeName : n[2] = id /\ nodes'[n] = "live" /\ \A v \in Guarded' : Node(v) # n
      <4>1. PICK n \in NodeName : n[2] = id /\ nodes[n] = "live" /\ \A v \in Guarded : Node(v) # n
        BY <2>1 DEF DiskannInv, InsertedInv
      <4>2. n # Node(t)
        BY <1>2, <4>1
      <4> QED
        BY <2>5, <2>7, <4>1, <4>2
    <3> QED
      BY <3>1, <3>4, <3>5 DEF InsertedInv, Node
  <2>11. SizeInv'
    <3>1. LiveNodes' = LiveNodes \union {Node(t)} /\ Node(t) \notin LiveNodes
      BY <1>2, <2>2, <2>6, <2>7 DEF LiveNodes
    <3>2. /\ Cardinality(LiveNodes') = Cardinality(LiveNodes) + 1
          /\ Cardinality(Guarded') = Cardinality(Guarded) + 1
      BY <2>1, <2>5, <3>1, DiskannFinite, OneMoreOrLess
    <3>3. Counted' = Counted
      BY <2>1, <2>5, <3>2, DiskannFinite DEF Counted
    <3> QED
      BY <2>1, <3>3, SizeKept DEF DiskannInv
  <2> QED
    BY <2>3, <2>8, <2>9, <2>10, <2>11 DEF DiskannInv
<1> QED
  BY <1>1, <1>2 DEF SetElement

LEMMA LinkInv ==
  ASSUME DiskannInv, NEW t \in work, Link(t)
  PROVE  DiskannInv'
<1>1. /\ t.at = "link" /\ DiskannTypes /\ Goes(t, "complete")
      /\ UNCHANGED <<modifies, arcs, nextArc, size, inflight, inserted, removed, stored, faults>>
  BY DEF Link, DiskannInv
<1>2. Node(t) \in NodeName /\ t.op.op = "add" /\ t \in Guarded
  BY <1>1, WorkType DEF Guarded
<1>3. /\ work' \subseteq AddWork \union RemoveWork /\ IsFiniteSet(work') /\ PlacesInv'
      /\ \E u : Follows(t, u, "complete")
  BY <1>1, TaskGoes
<1>4. PICK u : Follows(t, u, "complete")
  BY <1>3
<1>5. /\ Guarded' = (Guarded \ {t}) \union {u} /\ Marking' = Marking /\ u \notin Guarded
      /\ Node(u) = Node(t) /\ u.arc = t.arc /\ u.op = t.op /\ work' = (work \ {t}) \union {u}
  BY <1>1, <1>4 DEF Follows, Guarded, Marking, Node
<1>6. /\ nodes \in [NodeName -> {"absent", "live", "dead"}]
      /\ \/ nodes' = nodes
         \/ nodes[Node(t)] = "dead" /\ nodes' = [nodes EXCEPT ![Node(t)] = "absent"]
  <2>1. nodes \in [NodeName -> {"absent", "live", "dead"}]
    BY <1>1 DEF DiskannTypes
  <2>2. nodes' = [nodes EXCEPT ![Node(t)] = Clear(nodes[Node(t)])] \/ nodes' = nodes
    BY DEF Link, NodeAs
  <2>3. [nodes EXCEPT ![Node(t)] = nodes[Node(t)]] = nodes
    BY <2>1
  <2> QED
    BY <2>1, <2>2, <2>3 DEF Clear
<1>7. \A n \in NodeName : /\ nodes[n] = "live" <=> nodes'[n] = "live"
                          /\ nodes'[n] = "dead" => nodes[n] = "dead"
  BY <1>2, <1>6
<1>8. DiskannTypes'
  BY <1>1, <1>3, <1>6 DEF DiskannTypes
<1>9. NodesInv'
  <2>1. ASSUME NEW n \in NodeName
        PROVE  /\ nodes'[n] = "live" => n[2] \in inserted' \/ \E v \in Guarded' : Node(v) = n
               /\ nodes'[n] = "dead" => \E v \in Marking' : Node(v) = n
    BY <1>1, <1>5, <1>7 DEF DiskannInv, NodesInv
  <2>2. ASSUME NEW f \in inflight'
        PROVE  \E v \in Guarded' : f = <<v.arc, v.op.id>>
    BY <1>1, <1>5 DEF DiskannInv, NodesInv
  <2> QED
    BY <2>1, <2>2 DEF NodesInv, Node
<1>10. InsertedInv'
  <2>1. \A v \in work' : v.op.op = "remove" => v.op.id \in removed'
    BY <1>1, <1>2, <1>5 DEF DiskannInv, InsertedInv
  <2>2. \A v \in Guarded : Node(v) \in NodeName
    BY <1>1, WorkType DEF Guarded
  <2>3. ASSUME NEW v \in Guarded, v.op.id \notin removed
        PROVE  nodes'[Node(v)] = "live" /\ \A w \in Guarded : Node(w) = Node(v) => w = v
    BY <1>7, <2>2, <2>3 DEF DiskannInv, InsertedInv
  <2>4. ASSUME NEW v \in Guarded', v.op.id \notin removed'
        PROVE  nodes'[Node(v)] = "live" /\ \A w \in Guarded' : Node(w) = Node(v) => w = v
    <3>1. CASE v = u
      BY <1>1, <1>2, <1>5, <2>3, <2>4, <3>1
    <3>2. CASE v \in Guarded \ {t}
      BY <1>1, <1>2, <1>5, <2>3, <2>4, <3>2
    <3> QED
      BY <1>5, <3>1, <3>2
  <2>5. ASSUME NEW id \in inserted' \ removed'
        PROVE  \E n \in NodeName : n[2] = id /\ nodes'[n] = "live" /\ \A v \in Guarded' : Node(v) # n
    BY <1>1, <1>2, <1>5, <1>7 DEF DiskannInv, InsertedInv
  <2> QED
    BY <2>1, <2>4, <2>5 DEF InsertedInv, Node
<1>11. SizeInv'
  <2>1. DOMAIN nodes = NodeName /\ DOMAIN nodes' = NodeName
    BY <1>6
  <2>2. LiveNodes' = LiveNodes
    BY <1>7, <2>1 DEF LiveNodes
  <2>3. Cardinality(Guarded') = Cardinality(Guarded)
    BY <1>1, <1>2, <1>5, DiskannFinite, OneMoreOrLess
  <2>4. Counted' = Counted
    BY <1>5, <2>2, <2>3 DEF Counted
  <2> QED
    BY <1>1, <2>4, SizeKept DEF DiskannInv
<1> QED
  BY <1>3, <1>8, <1>9, <1>10, <1>11 DEF DiskannInv

LEMMA InflightGuardDropInv ==
  ASSUME DiskannInv, NEW t \in work, InflightGuardDrop(t)
  PROVE  DiskannInv'
<1>1. /\ t.at = "link" /\ DiskannTypes /\ Done(t)
      /\ UNCHANGED <<modifies, arcs, nextArc, size, inserted, removed, stored>>
      /\ faults \in Nat /\ faults' = faults + 1
      /\ inflight' = inflight \ {<<t.arc, t.op.id>>}
      /\ nodes' = [nodes EXCEPT ![Node(t)] = "absent"]
  BY DEF InflightGuardDrop, DiskannInv, DiskannTypes, NodeAs, DiskannFault
<1>2. Node(t) \in NodeName /\ t \in Guarded
  BY <1>1, WorkType DEF Guarded
<1>3. /\ work' \subseteq AddWork \union RemoveWork /\ IsFiniteSet(work') /\ PlacesInv'
      /\ work' = work \ {t} /\ Guarded' = Guarded \ {t} /\ Marking' = Marking
  BY <1>1, TaskDone DEF Marking
<1>4. /\ nodes \in [NodeName -> {"absent", "live", "dead"}]
      /\ nodes'[Node(t)] = "absent" /\ \A n \in NodeName \ {Node(t)} : nodes'[n] = nodes[n]
  BY <1>1, <1>2 DEF DiskannTypes
<1>5. DiskannTypes'
  <2>1. nodes' \in [NodeName -> {"absent", "live", "dead"}]
    BY <1>1, <1>4
  <2>2. faults' \in Nat
    BY <1>1
  <2> QED
    BY <1>1, <1>3, <2>1, <2>2 DEF DiskannTypes
<1>6. NodesInv'
  <2>1. ASSUME NEW n \in NodeName
        PROVE  /\ nodes'[n] = "live" => n[2] \in inserted' \/ \E v \in Guarded' : Node(v) = n
               /\ nodes'[n] = "dead" => \E v \in Marking' : Node(v) = n
    BY <1>1, <1>3, <1>4 DEF DiskannInv, NodesInv
  <2>2. ASSUME NEW f \in inflight'
        PROVE  \E v \in Guarded' : f = <<v.arc, v.op.id>>
    BY <1>1, <1>3 DEF DiskannInv, NodesInv
  <2> QED
    BY <2>1, <2>2 DEF NodesInv, Node
<1>7. InsertedInv'
  <2>1. \A v \in work' : v.op.op = "remove" => v.op.id \in removed'
    BY <1>1, <1>3 DEF DiskannInv, InsertedInv
  <2>2. \A v \in Guarded : Node(v) \in NodeName
    BY <1>1, WorkType DEF Guarded
  <2>3. ASSUME NEW v \in Guarded', v.op.id \notin removed'
        PROVE  nodes'[Node(v)] = "live" /\ \A w \in Guarded' : Node(w) = Node(v) => w = v
    <3>1. nodes[Node(v)] = "live" /\ \A w \in Guarded : Node(w) = Node(v) => w = v
      BY <1>1, <1>3, <2>3 DEF DiskannInv, InsertedInv
    <3> QED
      BY <1>2, <1>3, <1>4, <2>2, <3>1
  <2>4. ASSUME NEW id \in inserted' \ removed'
        PROVE  \E n \in NodeName : n[2] = id /\ nodes'[n] = "live" /\ \A v \in Guarded' : Node(v) # n
    BY <1>1, <1>2, <1>3, <1>4 DEF DiskannInv, InsertedInv
  <2> QED
    BY <2>1, <2>3, <2>4 DEF InsertedInv, Node
<1>8. SizeInv'
  BY <1>1 DEF SizeInv
<1> QED
  BY <1>3, <1>5, <1>6, <1>7, <1>8 DEF DiskannInv

LEMMA InsertCompletesInv ==
  ASSUME DiskannInv, NEW t \in work, InsertCompletes(t)
  PROVE  DiskannInv'
<1>1. /\ t.at = "complete" /\ DiskannTypes /\ Done(t)
      /\ UNCHANGED <<modifies, arcs, nextArc, nodes, removed, stored, faults>>
      /\ inflight' = inflight \ {<<t.arc, t.op.id>>}
      /\ size' = (size + 1) % SizeWrap
      /\ inserted' = inserted \union {t.op.id}
  BY DEF InsertCompletes, DiskannInv
<1>2. Node(t) \in NodeName /\ t \in Guarded /\ Node(t)[2] = t.op.id
  BY <1>1, WorkType DEF Guarded, Node
<1>3. /\ work' \subseteq AddWork \union RemoveWork /\ IsFiniteSet(work') /\ PlacesInv'
      /\ work' = work \ {t} /\ Guarded' = Guarded \ {t} /\ Marking' = Marking
  BY <1>1, TaskDone DEF Marking
<1>4. DiskannTypes'
  <2>1. size' \in 0 .. SizeWrap - 1
    BY <1>1, DiskannFinite, Wraps DEF DiskannTypes
  <2> QED
    BY <1>1, <1>3, <2>1 DEF DiskannTypes
<1>5. NodesInv'
  <2>1. ASSUME NEW n \in NodeName
        PROVE  /\ nodes'[n] = "live" => n[2] \in inserted' \/ \E v \in Guarded' : Node(v) = n
               /\ nodes'[n] = "dead" => \E v \in Marking' : Node(v) = n
    BY <1>1, <1>2, <1>3 DEF DiskannInv, NodesInv
  <2>2. ASSUME NEW f \in inflight'
        PROVE  \E v \in Guarded' : f = <<v.arc, v.op.id>>
    BY <1>1, <1>3 DEF DiskannInv, NodesInv
  <2> QED
    BY <2>1, <2>2 DEF NodesInv, Node
<1>6. InsertedInv'
  <2>1. \A v \in work' : v.op.op = "remove" => v.op.id \in removed'
    BY <1>1, <1>3 DEF DiskannInv, InsertedInv
  <2>2. \A v \in Guarded' : v.op.id \notin removed' =>
          nodes'[Node(v)] = "live" /\ \A w \in Guarded' : Node(w) = Node(v) => w = v
    BY <1>1, <1>3 DEF DiskannInv, InsertedInv
  <2>3. ASSUME NEW id \in inserted' \ removed'
        PROVE  \E n \in NodeName : n[2] = id /\ nodes'[n] = "live" /\ \A v \in Guarded' : Node(v) # n
    <3>1. CASE id = t.op.id
      <4>1. nodes[Node(t)] = "live" /\ \A v \in Guarded : Node(v) = Node(t) => v = t
        BY <1>1, <1>2, <2>3, <3>1 DEF DiskannInv, InsertedInv
      <4> QED
        BY <1>1, <1>2, <1>3, <3>1, <4>1
    <3>2. CASE id \in inserted
      BY <1>1, <1>3, <2>3, <3>2 DEF DiskannInv, InsertedInv
    <3> QED
      BY <1>1, <3>1, <3>2
  <2> QED
    BY <2>1, <2>2, <2>3 DEF InsertedInv, Node
<1>7. SizeInv'
  <2>1. LiveNodes' = LiveNodes
    BY <1>1 DEF LiveNodes
  <2>2. Cardinality(Guarded') = Cardinality(Guarded) - 1
    BY <1>1, <1>2, <1>3, DiskannFinite, OneMoreOrLess
  <2>3. Counted' = Counted + 1
    BY <1>1, <1>3, <2>1, <2>2, DiskannFinite DEF Counted
  <2> QED
    BY <1>1, <2>3, SizeKept DEF DiskannInv
<1> QED
  BY <1>3, <1>4, <1>5, <1>6, <1>7 DEF DiskannInv

LEMMA MarkDeadInv ==
  ASSUME DiskannInv, NEW t \in work, MarkDead(t)
  PROVE  DiskannInv'
<1>1. CASE Done(t) /\ UNCHANGED nodes
  BY <1>1, TaskGivesUp DEF MarkDead
<1>2. CASE nodes[Node(t)] = "live" /\ NodeAs(t, "dead") /\ Goes(t, "repair")
  <2>1. /\ t.at = "remove" /\ DiskannTypes
        /\ UNCHANGED <<modifies, arcs, nextArc, size, inflight, inserted, removed, stored, faults>>
    BY DEF MarkDead, DiskannInv
  <2>2. Node(t) \in NodeName /\ t.op.op = "remove" /\ Node(t)[2] = t.op.id
    BY <2>1, WorkType DEF Node
  <2>3. /\ work' \subseteq AddWork \union RemoveWork /\ IsFiniteSet(work') /\ PlacesInv'
        /\ \E u : Follows(t, u, "repair")
    BY <1>2, <2>1, TaskGoes
  <2>4. PICK u : Follows(t, u, "repair")
    BY <2>3
  <2>5. /\ Guarded' = Guarded /\ Marking' = Marking \union {u} /\ u \notin Marking
        /\ Node(u) = Node(t) /\ u.op = t.op /\ work' = (work \ {t}) \union {u}
    BY <2>1, <2>4 DEF Follows, Guarded, Marking, Node
  <2>6. nodes' = [nodes EXCEPT ![Node(t)] = "dead"] /\ nodes \in [NodeName -> {"absent", "live", "dead"}]
    BY <1>2, <2>1 DEF NodeAs, DiskannTypes
  <2>7. nodes'[Node(t)] = "dead" /\ \A n \in NodeName \ {Node(t)} : nodes'[n] = nodes[n]
    BY <2>2, <2>6
  <2>8. DiskannTypes'
    BY <2>1, <2>3, <2>6 DEF DiskannTypes
  <2>9. NodesInv'
    <3>1. ASSUME NEW n \in NodeName
          PROVE  /\ nodes'[n] = "live" => n[2] \in inserted' \/ \E v \in Guarded' : Node(v) = n
                 /\ nodes'[n] = "dead" => \E v \in Marking' : Node(v) = n
      BY <2>1, <2>5, <2>7 DEF DiskannInv, NodesInv
    <3>2. ASSUME NEW f \in inflight'
          PROVE  \E v \in Guarded' : f = <<v.arc, v.op.id>>
      BY <2>1, <2>5 DEF DiskannInv, NodesInv
    <3> QED
      BY <3>1, <3>2 DEF NodesInv, Node
  <2>10. InsertedInv'
    <3>1. \A v \in work' : v.op.op = "remove" => v.op.id \in removed'
      BY <2>1, <2>2, <2>5 DEF DiskannInv, InsertedInv
    <3>2. t.op.id \in removed
      BY <2>2 DEF DiskannInv, InsertedInv
    <3>3. \A v \in Guarded : Node(v) \in NodeName /\ Node(v)[2] = v.op.id
      BY <2>1, WorkType DEF Guarded, Node
    <3>4. \A v \in Guarded' : v.op.id \notin removed' =>
            nodes'[Node(v)] = "live" /\ \A w \in Guarded' : Node(w) = Node(v) => w = v
      BY <2>1, <2>2, <2>5, <2>7, <3>2, <3>3 DEF DiskannInv, InsertedInv
    <3>5. ASSUME NEW id \in inserted' \ removed'
          PROVE  \E n \in NodeName : n[2] = id /\ nodes'[n] = "live" /\ \A v \in Guarded' : Node(v) # n
      BY <2>1, <2>2, <2>5, <2>7, <3>2 DEF DiskannInv, InsertedInv
    <3> QED
      BY <3>1, <3>4, <3>5 DEF InsertedInv, Node
  <2>11. SizeInv'
    <3>1. LiveNodes' = LiveNodes \ {Node(t)} /\ Node(t) \in LiveNodes
      BY <1>2, <2>2, <2>6, <2>7 DEF LiveNodes
    <3>2. /\ Cardinality(LiveNodes') = Cardinality(LiveNodes) - 1
          /\ Cardinality(Marking') = Cardinality(Marking) + 1
      BY <2>1, <2>5, <3>1, DiskannFinite, OneMoreOrLess
    <3>3. Counted' = Counted
      BY <2>1, <2>5, <3>2, DiskannFinite DEF Counted
    <3> QED
      BY <2>1, <3>3, SizeKept DEF DiskannInv
  <2> QED
    BY <2>3, <2>8, <2>9, <2>10, <2>11 DEF DiskannInv
<1> QED
  BY <1>1, <1>2 DEF MarkDead

LEMMA RepairInv ==
  ASSUME DiskannInv, NEW t \in work, Repair(t)
  PROVE  DiskannInv'
<1>1. /\ t.at = "repair" /\ DiskannTypes /\ Goes(t, "reap")
      /\ UNCHANGED <<modifies, arcs, nextArc, size, nodes, inflight, inserted, removed, stored>>
      /\ faults' \in Nat
      /\ faults' = 0 => faults = 0
  BY DEF Repair, DiskannInv, DiskannTypes, DiskannFault
<1>2. t.op.op = "remove" /\ t \in Marking
  BY <1>1, WorkType DEF Marking
<1>3. /\ work' \subseteq AddWork \union RemoveWork /\ IsFiniteSet(work') /\ PlacesInv'
      /\ \E u : Follows(t, u, "reap")
  BY <1>1, TaskGoes
<1>4. PICK u : Follows(t, u, "reap")
  BY <1>3
<1>5. /\ Guarded' = Guarded /\ Marking' = (Marking \ {t}) \union {u} /\ u \notin Marking
      /\ Node(u) = Node(t) /\ u.op = t.op /\ work' = (work \ {t}) \union {u}
  BY <1>1, <1>4 DEF Follows, Guarded, Marking, Node
<1>6. DiskannTypes'
  BY <1>1, <1>3 DEF DiskannTypes
<1>7. NodesInv'
  BY <1>1, <1>5 DEF DiskannInv, NodesInv, Node
<1>8. InsertedInv'
  <2>1. \A v \in work' : v.op.op = "remove" => v.op.id \in removed'
    BY <1>1, <1>5 DEF DiskannInv, InsertedInv
  <2> QED
    BY <1>1, <1>5, <2>1 DEF DiskannInv, InsertedInv, Node
<1>9. SizeInv'
  <2>1. Cardinality(Marking') = Cardinality(Marking)
    BY <1>1, <1>2, <1>5, DiskannFinite, OneMoreOrLess
  <2>2. Counted' = Counted
    BY <1>1, <1>5, <2>1 DEF Counted, LiveNodes
  <2> QED
    BY <1>1, <2>2, SizeKept DEF DiskannInv
<1> QED
  BY <1>3, <1>6, <1>7, <1>8, <1>9 DEF DiskannInv

LEMMA ReapInv ==
  ASSUME DiskannInv, NEW t \in work, Reap(t)
  PROVE  DiskannInv'
<1>1. /\ t.at = "reap" /\ DiskannTypes /\ Done(t)
      /\ UNCHANGED <<modifies, arcs, nextArc, inflight, inserted, removed, stored, faults>>
      /\ size' = (size - 1) % SizeWrap
      /\ nodes' = [nodes EXCEPT ![Node(t)] = Clear(nodes[Node(t)])]
  BY DEF Reap, DiskannInv, NodeAs
<1>2. Node(t) \in NodeName /\ t \in Marking
  BY <1>1, WorkType DEF Marking
<1>3. /\ work' \subseteq AddWork \union RemoveWork /\ IsFiniteSet(work') /\ PlacesInv'
      /\ work' = work \ {t} /\ Guarded' = Guarded /\ Marking' = Marking \ {t}
  BY <1>1, TaskDone DEF Guarded
<1>4. /\ nodes \in [NodeName -> {"absent", "live", "dead"}]
      /\ nodes' \in [NodeName -> {"absent", "live", "dead"}]
      /\ nodes'[Node(t)] # "dead"
      /\ \A n \in NodeName : /\ nodes[n] = "live" <=> nodes'[n] = "live"
                             /\ nodes'[n] = "dead" => nodes[n] = "dead"
  BY <1>1, <1>2 DEF DiskannTypes, Clear
<1>5. DiskannTypes'
  <2>1. size' \in 0 .. SizeWrap - 1
    BY <1>1, DiskannFinite, Wraps DEF DiskannTypes
  <2> QED
    BY <1>1, <1>3, <1>4, <2>1 DEF DiskannTypes
<1>6. NodesInv'
  <2>1. ASSUME NEW n \in NodeName
        PROVE  /\ nodes'[n] = "live" => n[2] \in inserted' \/ \E v \in Guarded' : Node(v) = n
               /\ nodes'[n] = "dead" => \E v \in Marking' : Node(v) = n
    BY <1>1, <1>3, <1>4 DEF DiskannInv, NodesInv
  <2>2. ASSUME NEW f \in inflight'
        PROVE  \E v \in Guarded' : f = <<v.arc, v.op.id>>
    BY <1>1, <1>3 DEF DiskannInv, NodesInv
  <2> QED
    BY <2>1, <2>2 DEF NodesInv, Node
<1>7. InsertedInv'
  <2>1. \A v \in work' : v.op.op = "remove" => v.op.id \in removed'
    BY <1>1, <1>3 DEF DiskannInv, InsertedInv
  <2>2. \A v \in Guarded : Node(v) \in NodeName
    BY <1>1, WorkType DEF Guarded
  <2>3. \A v \in Guarded' : v.op.id \notin removed' =>
          nodes'[Node(v)] = "live" /\ \A w \in Guarded' : Node(w) = Node(v) => w = v
    BY <1>1, <1>3, <1>4, <2>2 DEF DiskannInv, InsertedInv
  <2>4. ASSUME NEW id \in inserted' \ removed'
        PROVE  \E n \in NodeName : n[2] = id /\ nodes'[n] = "live" /\ \A v \in Guarded' : Node(v) # n
    BY <1>1, <1>3, <1>4 DEF DiskannInv, InsertedInv
  <2> QED
    BY <2>1, <2>3, <2>4 DEF InsertedInv, Node
<1>8. SizeInv'
  <2>1. DOMAIN nodes = NodeName /\ DOMAIN nodes' = NodeName
    BY <1>4
  <2>2. LiveNodes' = LiveNodes
    BY <1>4, <2>1 DEF LiveNodes
  <2>3. Cardinality(Marking') = Cardinality(Marking) - 1
    BY <1>1, <1>2, <1>3, DiskannFinite, OneMoreOrLess
  <2>4. Counted' = Counted - 1
    BY <1>1, <1>3, <2>2, <2>3, DiskannFinite DEF Counted
  <2> QED
    BY <1>1, <2>4, SizeKept DEF DiskannInv
<1> QED
  BY <1>3, <1>5, <1>6, <1>7, <1>8 DEF DiskannInv

LEMMA DiskannNextInv ==
  ASSUME DiskannInv, [DiskannNext]_diskannVars
  PROVE  DiskannInv'
<1>1. CASE PreprocessAdd \/ PreprocessRemove \/ PreprocessRemovePartition
  BY <1>1, PreprocessInv
<1>2. ASSUME NEW t \in work, DiskannWork(t)
      PROVE  DiskannInv'
  BY <1>2, SetElementInv, LinkInv, InflightGuardDropInv, InsertCompletesInv, MarkDeadInv,
     RepairInv, ReapInv DEF DiskannWork
<1>3. CASE UNCHANGED diskannVars
  BY <1>3 DEF diskannVars, DiskannInv, DiskannTypes, PlacesInv, NodesInv, InsertedInv, SizeInv,
              Counted, LiveNodes, Guarded, Marking, Node
<1> QED
  BY <1>1, <1>2, <1>3 DEF DiskannNext

-----------------------------------------------------------------------------
(* What is read from the base table.                                       *)

\* The places of the wanted among all: no two have the same.
LEMMA RankFacts ==
  ASSUME NEW n \in Nat, NEW flags, DOMAIN flags = 1 .. n
  PROVE  \A i \in 1 .. n : flags[i] =>
           /\ Rank(flags, i) \in 1 .. Cardinality({j \in 1 .. n : flags[j]})
           /\ \A j \in 1 .. n : flags[j] /\ Rank(flags, j) = Rank(flags, i) => j = i
<1> DEFINE F(i) == {j \in 1 .. i : flags[j]}
<1>1. IsFiniteSet(1 .. n)
  BY FS_Interval
<1>2. ASSUME NEW i \in 1 .. n
      PROVE  IsFiniteSet(F(i)) /\ Cardinality(F(i)) \in Nat /\ F(i) \subseteq F(n)
  <2>1. F(i) \subseteq 1 .. n /\ F(i) \subseteq F(n)
    OBVIOUS
  <2>2. IsFiniteSet(F(i))
    BY <1>1, <2>1, FS_Subset
  <2> QED
    BY <2>1, <2>2, FS_CardinalityType
<1>3. ASSUME NEW i \in 1 .. n, NEW j \in 1 .. n, i < j, flags[j]
      PROVE  Cardinality(F(i)) < Cardinality(F(j))
  <2>1. F(i) \subseteq F(j) /\ j \in F(j) /\ j \notin F(i)
    BY <1>3
  <2> HIDE DEF F
  <2>2. Cardinality(F(i)) <= Cardinality(F(j)) /\ F(i) # F(j)
    BY <1>2, <2>1, FS_Subset
  <2>3. Cardinality(F(i)) # Cardinality(F(j))
    BY <1>2, <2>1, FS_Subset
  <2> QED
    BY <1>2, <2>2, <2>3
<1>4. ASSUME NEW i \in 1 .. n, flags[i]
      PROVE  Cardinality(F(i)) \in 1 .. Cardinality(F(n))
  <2>1. n \in 1 .. n /\ i \in F(i)
    BY <1>4
  <2> HIDE DEF F
  <2>2. Cardinality(F(i)) <= Cardinality(F(n))
    BY <1>2, <2>1, FS_Subset
  <2>3. Cardinality(F(i)) # 0
    BY <1>2, <2>1, FS_EmptySet
  <2> QED
    BY <1>2, <2>1, <2>2, <2>3
<1>5. \A i \in 1 .. n : Rank(flags, i) = Cardinality(F(i))
  BY DEF Rank
<1>6. F(n) = {j \in 1 .. n : flags[j]}
  OBVIOUS
<1> HIDE DEF F
<1>7. ASSUME NEW i \in 1 .. n, NEW j \in 1 .. n, flags[i], flags[j],
             Cardinality(F(j)) = Cardinality(F(i))
      PROVE  j = i
  <2>1. Cardinality(F(i)) \in Nat
    BY <1>2
  <2>2. ~(i < j) /\ ~(j < i)
    BY <1>3, <1>7, <2>1
  <2> QED
    BY <2>2
<1> QED
  BY <1>4, <1>5, <1>6, <1>7

\* What is asked for is where its answer is looked up.
LEMMA WantedBack ==
  ASSUME NEW n \in Nat, NEW ids, DOMAIN ids = 1 .. n, NEW flags, DOMAIN flags = 1 .. n
  PROVE  /\ \E m \in Nat : DOMAIN Wanted(ids, flags) = 1 .. m
         /\ \A i \in 1 .. n : flags[i] =>
              /\ Rank(flags, i) \in DOMAIN Wanted(ids, flags)
              /\ Wanted(ids, flags)[Rank(flags, i)] = ids[i]
<1>1. DOMAIN Wanted(ids, flags) = 1 .. Cardinality({j \in 1 .. n : flags[j]})
  BY DEF Wanted
<1>2. Cardinality({j \in 1 .. n : flags[j]}) \in Nat
  <2>1. IsFiniteSet(1 .. n)
    BY FS_Interval
  <2>2. IsFiniteSet({j \in 1 .. n : flags[j]})
    BY <2>1, FS_Subset
  <2> QED
    BY <2>2, FS_CardinalityType
<1>3. ASSUME NEW i \in 1 .. n, flags[i]
      PROVE  /\ Rank(flags, i) \in DOMAIN Wanted(ids, flags)
             /\ Wanted(ids, flags)[Rank(flags, i)] = ids[i]
  <2> DEFINE k == Rank(flags, i)
  <2>1. /\ k \in 1 .. Cardinality({j \in 1 .. n : flags[j]})
        /\ \A j \in 1 .. n : flags[j] /\ Rank(flags, j) = k <=> j = i
    BY <1>3, RankFacts
  <2>2. (CHOOSE j \in DOMAIN ids : flags[j] /\ Rank(flags, j) = k) = i
    BY <2>1
  <2> QED
    BY <1>1, <2>1, <2>2 DEF Wanted
<1> QED
  BY <1>1, <1>2, <1>3

LEMMA AnswerFor ==
  ASSUME NEW n \in Nat, NEW ids, DOMAIN ids = 1 .. n, NEW flags, DOMAIN flags = 1 .. n,
         NEW i \in 1 .. n, flags[i]
  PROVE  GetVectors(Wanted(ids, flags))[Rank(flags, i)] = FetchVector(ids[i])
<1>1. /\ Rank(flags, i) \in DOMAIN Wanted(ids, flags)
      /\ Wanted(ids, flags)[Rank(flags, i)] = ids[i]
  BY WantedBack
<1> QED
  BY <1>1 DEF GetVectors

LEMMA SourceGets ==
  ASSUME NEW n \in Nat, NEW ids, DOMAIN ids = 1 .. n
  PROVE  \A i \in 1 .. n :
           SourceGet(ids)[i] = IF stored[ids[i]] = "no row" THEN NoVector ELSE FetchVector(ids[i])
<1> DEFINE has == [i \in DOMAIN ids |-> stored[ids[i]] # "no row"]
<1>1. DOMAIN has = 1 .. n /\ \A i \in 1 .. n : has[i] <=> stored[ids[i]] # "no row"
  OBVIOUS
<1>2. SourceGet(ids) = Spread(has, GetVectors(Wanted(ids, has)))
  BY DEF SourceGet
<1> HIDE DEF has
<1>3. ASSUME NEW i \in 1 .. n
      PROVE  SourceGet(ids)[i] = IF has[i] THEN FetchVector(ids[i]) ELSE NoVector
  <2>1. SourceGet(ids)[i] =
          IF has[i] THEN GetVectors(Wanted(ids, has))[Rank(has, i)] ELSE NoVector
    BY <1>1, <1>2 DEF Spread
  <2>2. ASSUME has[i]
        PROVE  GetVectors(Wanted(ids, has))[Rank(has, i)] = FetchVector(ids[i])
    BY <1>1, <2>2, AnswerFor
  <2> QED
    BY <2>1, <2>2
<1> QED
  BY <1>1, <1>3

\* Every vector is the one of the id at its place.
LEMMA LoadedAligned ==
  ASSUME DiskannTypes, NEW arc, NEW p \in Parts,
         NEW n \in Nat, NEW ids \in [1 .. n -> VectorIds \union {START_ID}]
  PROVE  \A i \in 1 .. n : Load(arc, p, ids)[i] =
             IF ids[i] = START_ID \/ <<arc, ids[i]>> \in inflight THEN Vec("vector", ids[i])
             ELSE IF nodes[<<p, ids[i]>>] = "live" /\ stored[ids[i]] = "vector"
             THEN Vec("vector", ids[i]) ELSE NoVector
<1> DEFINE known(i) == ids[i] = START_ID \/ <<arc, ids[i]>> \in inflight
           asks == [i \in DOMAIN ids |-> ~known(i) /\ nodes[<<p, ids[i]>>] = "live"]
           fetched == Spread(asks, SourceGet(Wanted(ids, asks)))
<1>1. DOMAIN asks = 1 .. n /\ DOMAIN ids = 1 .. n
      /\ \A i \in 1 .. n : asks[i] <=> ~known(i) /\ nodes[<<p, ids[i]>>] = "live"
  OBVIOUS
<1>2. ASSUME NEW i \in 1 .. n
      PROVE  Load(arc, p, ids)[i] = IF known(i) THEN Vec("vector", ids[i])
                                    ELSE IF fetched[i][1] = "short" THEN NoVector ELSE fetched[i]
  BY <1>1 DEF Load
<1> HIDE DEF asks
<1>3. ASSUME NEW i \in 1 .. n
      PROVE  fetched[i] = IF ~asks[i] \/ stored[ids[i]] = "no row" THEN NoVector
                          ELSE FetchVector(ids[i])
  <2>1. fetched[i] = IF asks[i] THEN SourceGet(Wanted(ids, asks))[Rank(asks, i)] ELSE NoVector
    BY <1>1 DEF Spread
  <2>2. ASSUME asks[i]
        PROVE  SourceGet(Wanted(ids, asks))[Rank(asks, i)] =
                 IF stored[ids[i]] = "no row" THEN NoVector ELSE FetchVector(ids[i])
    <3>1. /\ \E m \in Nat : DOMAIN Wanted(ids, asks) = 1 .. m
          /\ Rank(asks, i) \in DOMAIN Wanted(ids, asks)
          /\ Wanted(ids, asks)[Rank(asks, i)] = ids[i]
      BY <1>1, <2>2, WantedBack
    <3>2. PICK m \in Nat : DOMAIN Wanted(ids, asks) = 1 .. m
      BY <3>1
    <3> DEFINE w == Wanted(ids, asks)
               k == Rank(asks, i)
    <3>3. DOMAIN w = 1 .. m /\ k \in 1 .. m /\ w[k] = ids[i]
      BY <3>1, <3>2
    <3> HIDE DEF w, k
    <3>4. SourceGet(w)[k] = IF stored[w[k]] = "no row" THEN NoVector ELSE FetchVector(w[k])
      BY <3>3, SourceGets
    <3> QED
      BY <3>3, <3>4 DEF w, k
  <2> QED
    BY <2>1, <2>2
<1> HIDE DEF fetched
<1>4. ASSUME NEW i \in 1 .. n, ~known(i)
      PROVE  Load(arc, p, ids)[i] = IF nodes[<<p, ids[i]>>] = "live" /\ stored[ids[i]] = "vector"
                                    THEN Vec("vector", ids[i]) ELSE NoVector
  <2>1. stored[ids[i]] \in RowKinds
    BY <1>4 DEF DiskannTypes
  <2>2. fetched[i] = IF ~asks[i] \/ stored[ids[i]] \in {"no row", "none"} THEN NoVector
                     ELSE Vec(stored[ids[i]], ids[i])
    BY <1>3 DEF FetchVector
  <2> QED
    <3>1. \A kind, id : Vec(kind, id)[1] = kind /\ NoVector[1] = "none"
      BY DEF Vec, NoVector
    <3>2. asks[i] <=> nodes[<<p, ids[i]>>] = "live"
      BY <1>1, <1>4
    <3> QED
      <4>1. Load(arc, p, ids)[i] = IF fetched[i][1] = "short" THEN NoVector ELSE fetched[i]
        BY <1>2, <1>4
      <4>2. CASE ~asks[i] \/ stored[ids[i]] \in {"no row", "none"}
        BY <2>2, <3>1, <3>2, <4>1, <4>2
      <4>3. CASE asks[i] /\ stored[ids[i]] \in {"vector", "short"}
        <5>1. fetched[i] = Vec(stored[ids[i]], ids[i]) /\ nodes[<<p, ids[i]>>] = "live"
          BY <2>2, <3>2, <4>3
        <5>2. fetched[i][1] = stored[ids[i]]
          BY <3>1, <5>1
        <5> QED
          BY <4>1, <4>3, <5>1, <5>2
      <4> QED
        BY <2>1, <4>2, <4>3 DEF RowKinds
<1> QED
  BY <1>2, <1>4

LEMMA DiskannLoads == DiskannInv => LoadAligned
<1> SUFFICES ASSUME DiskannInv, NEW p \in Parts,
                    NEW ids \in TupleOf(VectorIds \union {START_ID}, 1)
                                  \union TupleOf(VectorIds \union {START_ID}, 3)
             PROVE  /\ \A i \in DOMAIN ids :
                         Load(arcs[p], p, ids)[i] =
                           IF ids[i] = START_ID \/ <<arcs[p], ids[i]>> \in inflight
                           THEN Vec("vector", ids[i])
                           ELSE IF nodes[<<p, ids[i]>>] = "live" /\ stored[ids[i]] = "vector"
                           THEN Vec("vector", ids[i]) ELSE NoVector
                    /\ AnnAnswer(arcs[p], p, ids) \subseteq
                         {id \in VectorIds : stored[id] \in {"vector", "short", "none"}}
  BY DEF LoadAligned
<1>1. PICK n \in Nat : ids \in [1 .. n -> VectorIds \union {START_ID}]
  BY DEF TupleOf
<1>2. DiskannTypes /\ DOMAIN ids = 1 .. n
  BY <1>1 DEF DiskannInv
<1>3. \A j \in 1 .. n : ids[j] # START_ID => ids[j] \in VectorIds /\ stored[ids[j]] \in RowKinds
  BY <1>1, <1>2 DEF DiskannTypes
<1>4. AnnAnswer(arcs[p], p, ids) \subseteq
        {id \in VectorIds : stored[id] \in {"vector", "short", "none"}}
  BY <1>2, <1>3 DEF AnnAnswer, RowKinds
<1>5. ASSUME NEW arc
      PROVE  \A i \in 1 .. n :
        Load(arc, p, ids)[i] =
          IF ids[i] = START_ID \/ <<arc, ids[i]>> \in inflight THEN Vec("vector", ids[i])
          ELSE IF nodes[<<p, ids[i]>>] = "live" /\ stored[ids[i]] = "vector"
          THEN Vec("vector", ids[i]) ELSE NoVector
  BY <1>1, <1>2, LoadedAligned
<1> QED
  BY <1>2, <1>4, <1>5

-----------------------------------------------------------------------------
(* The graph of a DiskANN index: types, and what changes a list of edges.  *)

GraphAdd ==
  [op : {"add"}, id : VectorIds, at : {"start", "prune", "link"}, list : SUBSET Points]
GraphRemove ==
  [op : {"remove"}, id : VectorIds, at : {"start", "repair"}, list : SUBSET Points]
GraphSearch ==
  [op : {"ann"}, id : {START_ID}, at : {"start", "expand", "fetch", "translate", "keys"},
   list : SUBSET Points, query : GraphQuery, seen : SUBSET Points, scored : SUBSET Points,
   asked : SUBSET Points, gone : SUBSET VectorIds, reach : SUBSET VectorIds, calm : BOOLEAN]
GraphNode == [state : {"absent", "live", "dead"}, edges : Seq(Points)]

GraphTypes ==
  /\ changes \in Seq(GraphChange) /\ searches \in Seq(GraphQuery)
  /\ graph \in [Points -> GraphNode]
  /\ held \subseteq VectorIds /\ present \subseteq VectorIds
  /\ graphTasks \subseteq GraphAdd \union GraphRemove \union GraphSearch

EdgesInv ==
  \A id \in Points :
    /\ Len(graph[id].edges) <= MaxDegree /\ IsInjective(graph[id].edges)
    /\ graph[id].state = "absent" => graph[id].edges = <<>>

\* What is held and what is dead has the task that will see to it.
GraphTasksInv ==
  /\ \A id \in held : \E t \in Modifying : t.op = "add" /\ t.at \in {"prune", "link"} /\ t.id = id
  /\ \A id \in Points : graph[id].state = "dead" =>
       \E t \in Modifying : t.op = "remove" /\ t.at = "repair" /\ t.id = id

\* A search that was not disturbed: all scored points but those on the list
\* are expanded, and whatever they lead to is scored, asked for or of no use.
Useful(e) == IsLive(e) /\ e \in present
Expanding(t, unexpanded) ==
  /\ \A n \in t.scored \ unexpanded : Edges(n) \subseteq t.seen
  /\ \A e \in t.seen : Useful(e) => e \in t.scored \union t.asked
  /\ \A e \in t.asked : Useful(e) => e \in Reachable
  /\ START_ID \in t.scored /\ START_ID \in t.seen /\ START_ID \notin t.asked
  /\ t.scored \subseteq Reachable \union {START_ID}
CalmInv(t) ==
  /\ Modifying = {} /\ t.reach = Reachable
  /\ t.at = "start" => t.scored = {START_ID} /\ t.seen = {START_ID} /\ t.asked = {}
  /\ t.at = "expand" => t.list \subseteq t.scored /\ Expanding(t, t.list)
  /\ t.at = "fetch" => t.list = {} /\ Expanding(t, {}) /\ \A e \in t.asked : IsLive(e)
  /\ t.at = "translate" => t.scored = Reachable \union {START_ID}
  /\ t.at = "keys" => /\ t.list \subseteq Reachable
                      /\ Cardinality(t.list) = Min2(t.query.limit, Cardinality(Reachable))

\* Of every search: what is gone cannot come back, and is not on the list.
SearchOK(t) ==
  /\ t.gone \subseteq Gone
  /\ t.at = "keys" => Cardinality(t.list) <= t.query.limit /\ t.list \intersect t.gone = {}
  /\ t.calm => CalmInv(t)
SearchInv == \A t \in graphTasks : t.op = "ann" => SearchOK(t)

GraphInv ==
  /\ GraphTypes /\ EdgesInv /\ GraphTasksInv /\ SearchInv /\ GraphSearchRight

LEMMA PointsFinite ==
  /\ IsFiniteSet(VectorIds) /\ IsFiniteSet(Points)
  /\ Cardinality(VectorIds) \in Nat /\ Cardinality(Points) = Cardinality(VectorIds) + 1
<1>1. IsFiniteSet(VectorIds) /\ START_ID \notin VectorIds
  BY DiskannAssumption
<1>2. IsFiniteSet(Points) /\ Cardinality(Points) = Cardinality(VectorIds) + 1
  BY <1>1, FS_AddElement DEF Points
<1> QED
  BY <1>1, <1>2, FS_CardinalityType

LEMMA ListOfSet ==
  ASSUME NEW S, IsFiniteSet(S)
  PROVE  /\ SetToSeq(S) \in Seq(S) /\ IsInjective(SetToSeq(S))
         /\ Len(SetToSeq(S)) = Cardinality(S)
<1>1. ExistsBijection(1 .. Cardinality(S), S) /\ Cardinality(S) \in Nat
  BY FS_CardinalityType
<1>2. PICK f \in [1 .. Cardinality(S) -> S] : IsInjective(f)
  BY <1>1 DEF ExistsBijection, Bijection, Injection, Surjection, IsInjective
<1>3. SetToSeq(S) \in [1 .. Cardinality(S) -> S] /\ IsInjective(SetToSeq(S))
  BY <1>2, Zenon DEF SetToSeq
<1> QED
  BY <1>1, <1>3

LEMMA CappedFacts ==
  ASSUME NEW list \in Seq(Points), IsInjective(list)
  PROVE  /\ Capped(list) \in Seq(Points) /\ IsInjective(Capped(list))
         /\ Len(Capped(list)) <= MaxDegree
         /\ list = <<>> => Capped(list) = <<>>
<1> DEFINE n == Min2(MaxDegree, Len(list))
<1>1. n \in 0 .. Len(list) /\ n <= MaxDegree /\ Len(list) \in Nat
  BY GraphAssumption DEF Min2
<1> HIDE DEF n
<1>2. /\ Capped(list) = SubSeq(list, 1, n)
      /\ SubSeq(list, 1, n) \in Seq(Points) /\ Len(SubSeq(list, 1, n)) = n
      /\ \A i \in 1 .. n : SubSeq(list, 1, n)[i] = list[i]
  BY <1>1 DEF Capped, n
<1>3. IsInjective(Capped(list))
  BY <1>1, <1>2 DEF IsInjective
<1>4. list = <<>> => Capped(list) = <<>>
  BY <1>1, <1>2
<1> QED
  BY <1>1, <1>2, <1>3, <1>4

\* Writing a list of edges: the node keeps its state, unless it was dead and
\* has no edges left.
LEMMA ListWritten ==
  ASSUME GraphTypes, EdgesInv, NEW id \in Points,
         \/ \E S \in SUBSET Points : SetNeighbors(id, SetToSeq(S))
         \/ \E e \in Points : AppendVector(id, e)
  PROVE  /\ graph' \in [Points -> GraphNode] /\ EdgesInv'
         /\ \A j \in Points : \/ graph'[j].state = graph[j].state
                              \/ j = id /\ graph[id].state = "dead" /\ graph'[id].state = "absent"
<1>1. graph \in [Points -> GraphNode] /\ graph[id] \in GraphNode
  BY DEF GraphTypes
<1>2. /\ graph[id].edges \in Seq(Points) /\ graph[id].state \in {"absent", "live", "dead"}
      /\ Len(graph[id].edges) <= MaxDegree /\ IsInjective(graph[id].edges)
  BY <1>1 DEF GraphNode, EdgesInv
<1> DEFINE Keeps(list) == list \in Seq(Points) /\ IsInjective(list) /\ Len(list) <= MaxDegree
           Written(node) == /\ node \in GraphNode /\ Keeps(node.edges)
                            /\ node.state = "absent" => node.edges = <<>>
                            /\ node.state # graph[id].state =>
                                 graph[id].state = "dead" /\ node.state = "absent"
<1>3. ASSUME NEW list, Keeps(list), graph[id].state # "absent"
      PROVE  Written([graph[id] EXCEPT !.edges = list])
  BY <1>1, <1>2, <1>3 DEF GraphNode
<1>4. Written(Absent) \/ graph[id].state # "dead"
  <2>1. <<>> \in Seq(Points) /\ IsInjective(<<>>) /\ Len(<<>>) <= MaxDegree
    BY GraphAssumption DEF IsInjective
  <2> QED
    BY <2>1 DEF Absent, GraphNode
<1>5. \A S \in SUBSET Points : Keeps(Capped(SetToSeq(S)))
  BY ListOfSet, PointsFinite, FS_Subset, CappedFacts
<1>6. \A e \in Points : Keeps(Capped(Extend(graph[id].edges, e)))
  <2> TAKE e \in Points
  <2> DEFINE list == graph[id].edges
  <2>1. list \in Seq(Points) /\ IsInjective(list)
    BY <1>2
  <2> HIDE DEF list
  <2>2. Extend(list, e) \in Seq(Points) /\ IsInjective(Extend(list, e))
    <3>1. CASE e \in ToSet(list)
      BY <2>1, <3>1 DEF Extend
    <3>2. CASE e \notin ToSet(list)
      <4>1. \A i \in 1 .. Len(list) : list[i] # e
        BY <2>1, <3>2 DEF ToSet
      <4>2. /\ Append(list, e) \in Seq(Points) /\ Len(Append(list, e)) = Len(list) + 1
            /\ \A i \in 1 .. Len(list) : Append(list, e)[i] = list[i]
            /\ Append(list, e)[Len(list) + 1] = e /\ Len(list) \in Nat
        BY <2>1
      <4>3. IsInjective(Append(list, e))
        BY <2>1, <4>1, <4>2 DEF IsInjective
      <4> QED
        BY <3>2, <4>2, <4>3 DEF Extend
    <3> QED
      BY <3>1, <3>2
  <2> QED
    BY <2>2, CappedFacts DEF list
<1> HIDE DEF Written, Keeps
<1>7. graph' = graph \/ \E node : Written(node) /\ graph' = [graph EXCEPT ![id] = node]
  <2>1. ASSUME NEW S \in SUBSET Points, SetNeighbors(id, SetToSeq(S))
        PROVE  graph' = graph \/ \E node : Written(node) /\ graph' = [graph EXCEPT ![id] = node]
    <3>1. \/ graph' = graph
          \/ graph[id].state = "dead" /\ graph' = [graph EXCEPT ![id] = Absent]
          \/ /\ graph[id].state # "absent"
             /\ graph' = [graph EXCEPT ![id] = [graph[id] EXCEPT !.edges = Capped(SetToSeq(S))]]
      BY <2>1, <1>1 DEF SetNeighbors
    <3> QED
      BY <3>1, <1>3, <1>4, <1>5
  <2>2. ASSUME NEW e \in Points, AppendVector(id, e)
        PROVE  graph' = graph \/ \E node : Written(node) /\ graph' = [graph EXCEPT ![id] = node]
    <3>1. \/ graph' = graph
          \/ /\ graph[id].state # "absent"
             /\ graph' = [graph EXCEPT ![id] =
                            [graph[id] EXCEPT !.edges = Capped(Extend(graph[id].edges, e))]]
      BY <2>2, <1>1 DEF AppendVector
    <3> QED
      BY <3>1, <1>3, <1>6
  <2> QED
    BY <2>1, <2>2
<1>8. CASE graph' = graph
  BY <1>1, <1>8 DEF EdgesInv
<1>9. ASSUME NEW node, Written(node), graph' = [graph EXCEPT ![id] = node]
      PROVE  /\ graph' \in [Points -> GraphNode] /\ EdgesInv'
             /\ \A j \in Points : \/ graph'[j].state = graph[j].state
                                  \/ j = id /\ graph[id].state = "dead" /\ graph'[id].state = "absent"
  <2>1. graph' \in [Points -> GraphNode] /\ graph'[id] = node
        /\ \A j \in Points \ {id} : graph'[j] = graph[j]
    BY <1>1, <1>9 DEF Written
  <2>2. EdgesInv'
    BY <1>9, <2>1 DEF EdgesInv, Written, Keeps
  <2> QED
    BY <1>9, <2>1, <2>2 DEF Written
<1> QED
  BY <1>7, <1>8, <1>9

-----------------------------------------------------------------------------
(* What can be reached from the start point.                               *)

LEMMA StepType ==
  ASSUME GraphTypes, NEW S \in SUBSET Points
  PROVE  Step(S) \in SUBSET Points /\ S \subseteq Step(S)
<1>1. \A n \in S : Edges(n) \subseteq Points
  BY DEF GraphTypes, GraphNode, Edges, ToSet
<1> QED
  BY <1>1 DEF Step

\* N rounds are enough for N vectors: a round that finds nothing new is the
\* last one, and there are no more than N that find something.
LEMMA RoundsEnough ==
  ASSUME GraphTypes, NEW N \in Nat, Cardinality(Points) = N + 1,
         NEW F \in [0 .. N -> SUBSET Points],
         START_ID \in F[0], \A n \in 1 .. N : F[n] = Step(F[n - 1])
  PROVE  Step(F[N]) = F[N]
<1>0. /\ \A n \in 0 .. N : F[n] \in SUBSET Points /\ F[n] \subseteq Step(F[n])
      /\ \A n \in 0 .. (N - 1) : n + 1 \in 1 .. N /\ n \in 0 .. N /\ F[n + 1] = Step(F[n])
  <2>1. \A n \in 0 .. (N - 1) : n + 1 \in 1 .. N /\ n \in 0 .. N /\ (n + 1) - 1 = n
    OBVIOUS
  <2> QED
    BY <2>1, StepType
<1>1. ASSUME NEW n \in 0 .. N PROVE IsFiniteSet(F[n]) /\ Cardinality(F[n]) \in Nat
  BY <1>0, PointsFinite, FS_Subset, FS_CardinalityType
<1> DEFINE T == {n \in 0 .. N : Step(F[n]) = F[n] \/ Cardinality(F[n]) >= n + 1}
<1>2. 0 \in T
  <2>1. F[0] # {} /\ 0 \in 0 .. N
    OBVIOUS
  <2>2. Cardinality(F[0]) # 0
    BY <1>1, <2>1, FS_EmptySet
  <2> QED
    BY <1>1, <2>1, <2>2
<1>3. \A n \in 0 .. (N - 1) : n \in T => n + 1 \in T
  <2> SUFFICES ASSUME NEW n \in 0 .. (N - 1), n \in T
               PROVE  n + 1 \in T
    OBVIOUS
  <2>1. n + 1 \in 0 .. N /\ n \in 0 .. N /\ F[n + 1] = Step(F[n])
    BY <1>0
  <2>2. CASE Step(F[n]) = F[n]
    BY <2>1, <2>2
  <2>3. CASE Step(F[n]) # F[n] /\ Cardinality(F[n]) >= n + 1
    <3>1. F[n] \subseteq F[n + 1] /\ F[n] # F[n + 1]
      BY <1>0, <2>1, <2>3
    <3>2. /\ IsFiniteSet(F[n + 1]) /\ Cardinality(F[n]) \in Nat /\ Cardinality(F[n + 1]) \in Nat
      BY <1>1, <2>1
    <3>3. Cardinality(F[n]) <= Cardinality(F[n + 1]) /\ Cardinality(F[n]) # Cardinality(F[n + 1])
      BY <3>1, <3>2, FS_Subset
    <3>4. Cardinality(F[n + 1]) >= n + 2
      BY <2>3, <3>2, <3>3
    <3> QED
      BY <2>1, <3>4
  <2> QED
    BY <2>2, <2>3
<1> HIDE DEF T
<1>4. N \in T
  <2>1. \A n \in 0 .. N : n \in T
    BY <1>2, <1>3, UpTo
  <2> QED
    BY <2>1
<1>5. CASE Cardinality(F[N]) >= N + 1
  <2>1. N \in 0 .. N /\ F[N] \in SUBSET Points
    OBVIOUS
  <2>2. Cardinality(F[N]) <= Cardinality(Points) /\ Cardinality(F[N]) \in Nat
    BY <1>1, <2>1, PointsFinite, FS_Subset
  <2>3. Cardinality(F[N]) = Cardinality(Points)
    BY <1>5, <2>2
  <2>4. F[N] = Points
    BY <2>1, <2>3, PointsFinite, FS_Subset
  <2> QED
    BY <1>0, <2>1, <2>4, StepType
<1> QED
  BY <1>4, <1>5 DEF T

\* Reachable is the least set that is closed under useful edges.
LEMMA ReachFacts ==
  ASSUME GraphTypes
  PROVE  /\ Reachable \subseteq VectorIds
         /\ \A e \in Reachable : Useful(e)
         /\ \A n \in Reachable \union {START_ID} : \A e \in Edges(n) : Useful(e) => e \in Reachable
         /\ \A S : START_ID \in S /\ (\A n \in S : \A e \in Edges(n) : Useful(e) => e \in S)
                     => Reachable \subseteq S
<1> DEFINE N == Cardinality(VectorIds)
           U == SUBSET Points
           a == {START_ID}
           step == [n \in 1 .. N |-> [S \in U |-> Step(S)]]
           Fix(F) == F = [k \in 0 .. N |-> IF k = 0 THEN {START_ID} ELSE Step(F[k - 1])]
           F == CHOOSE f : Fix(f)
<1>1. N \in Nat /\ a \in U /\ Cardinality(Points) = N + 1
  BY PointsFinite DEF Points
<1>2. Reachable = F[N] \ {START_ID}
  BY DEF Reachable
<1> HIDE DEF N, U
<1>3. \A S \in U : Step(S) \in U
  BY StepType DEF U
<1>4. step \in [1 .. N -> [U -> U]]
  BY <1>3
<1>5. \A n \in 1 .. N : \A S \in U : step[n][S] = Step(S)
  OBVIOUS
<1> HIDE DEF step
<1>6. PICK G : G \in Iterations(N, U, a, step)
  <2> HIDE DEF a
  <2>1. Iterations(N, U, a, step) # {}
    BY <1>1, <1>4, IterationsExist
  <2> QED
    BY <2>1
<1>7. Fix(G)
  <2>1. G \in [0 .. N -> U] /\ G[0] = a /\ \A n \in 1 .. N : G[n] = step[n][G[n - 1]]
    BY <1>6 DEF Iterations
  <2>2. \A n \in 1 .. N : n - 1 \in 0 .. N
    BY <1>1
  <2>3. \A n \in 1 .. N : G[n] = Step(G[n - 1])
    BY <1>5, <2>1, <2>2
  <2>4. \A k \in 0 .. N : k = 0 \/ k \in 1 .. N
    BY <1>1
  <2>5. \A k \in 0 .. N : G[k] = IF k = 0 THEN {START_ID} ELSE Step(G[k - 1])
    BY <2>1, <2>3, <2>4
  <2> QED
    BY <2>1, <2>5
<1>8. Fix(F)
  <2> HIDE DEF Fix
  <2> QED
    BY <1>7, Zenon
<1> HIDE DEF F
<1>9. F[0] = {START_ID} /\ \A n \in 1 .. N : F[n] = Step(F[n - 1])
  <2>1. 0 \in 0 .. N /\ \A n \in 1 .. N : n \in 0 .. N /\ n # 0
    BY <1>1
  <2> QED
    BY <1>8, <2>1
<1>10. DOMAIN F = 0 .. N /\ F = [k \in 0 .. N |-> F[k]]
  BY <1>8
<1> HIDE DEF Fix
<1>11. \A n \in 0 .. N : F[n] \in U
  <2> DEFINE T == {n \in 0 .. N : F[n] \in U}
  <2>1. 0 \in T
    <3>1. 0 \in 0 .. N
      BY <1>1
    <3>2. F[0] = a /\ a \in U
      BY <1>1, <1>9
    <3> QED
      BY <3>1, <3>2
  <2>2. \A n \in 0 .. (N - 1) : n \in T => n + 1 \in T
    <3>1. \A n \in 0 .. (N - 1) : n + 1 \in 1 .. N /\ n + 1 \in 0 .. N /\ (n + 1) - 1 = n
      BY <1>1
    <3> QED
      BY <1>3, <1>9, <3>1
  <2> HIDE DEF T
  <2>3. \A n \in 0 .. N : n \in T
    BY <1>1, <2>1, <2>2, UpTo
  <2> QED
    BY <2>3 DEF T
<1>12. Step(F[N]) = F[N] /\ F[N] \in SUBSET Points
  <2>1. F \in [0 .. N -> SUBSET Points]
    BY <1>10, <1>11 DEF U
  <2>2. N \in 0 .. N
    BY <1>1
  <2> QED
    BY <1>1, <1>9, <2>1, <2>2, RoundsEnough
<1>13. \A n \in 0 .. N : START_ID \in F[n] /\ \A e \in F[n] : e = START_ID \/ Useful(e)
  <2> DEFINE T == {n \in 0 .. N : START_ID \in F[n] /\ \A e \in F[n] : e = START_ID \/ Useful(e)}
  <2>1. 0 \in T
    <3>1. 0 \in 0 .. N
      BY <1>1
    <3>2. START_ID \in F[0] /\ \A e \in F[0] : e = START_ID
      BY <1>9
    <3> QED
      BY <3>1, <3>2
  <2>2. \A n \in 0 .. (N - 1) : n \in T => n + 1 \in T
    <3>1. \A n \in 0 .. (N - 1) : n + 1 \in 1 .. N /\ n + 1 \in 0 .. N /\ (n + 1) - 1 = n
      BY <1>1
    <3>2. \A n \in 0 .. (N - 1) : F[n + 1] = Step(F[n])
      BY <1>9, <3>1
    <3> QED
      BY <3>1, <3>2 DEF Step, Useful
  <2> HIDE DEF T
  <2>3. \A n \in 0 .. N : n \in T
    BY <1>1, <2>1, <2>2, UpTo
  <2> QED
    BY <2>3 DEF T
<1>14. N \in 0 .. N
  BY <1>1
<1>15. Reachable \union {START_ID} = F[N]
  BY <1>2, <1>13, <1>14
<1>16. Reachable \subseteq VectorIds
  BY <1>2, <1>12 DEF Points
<1>17. \A e \in Reachable : Useful(e)
  BY <1>2, <1>13, <1>14
<1>18. ASSUME NEW n \in Reachable \union {START_ID}, NEW e \in Edges(n), Useful(e)
       PROVE  e \in Reachable
  <2>1. e \in Step(F[N])
    BY <1>15, <1>18 DEF Step, Useful
  <2>2. e # START_ID
    BY <1>18 DEF Useful, IsLive
  <2> QED
    BY <1>12, <1>15, <2>1, <2>2
<1>19. ASSUME NEW S, START_ID \in S, \A n \in S : \A e \in Edges(n) : Useful(e) => e \in S
       PROVE  Reachable \subseteq S
  <2> DEFINE T == {n \in 0 .. N : F[n] \subseteq S}
  <2>1. 0 \in T
    BY <1>1, <1>9, <1>19
  <2>2. \A n \in 0 .. (N - 1) : n \in T => n + 1 \in T
    <3>1. \A n \in 0 .. (N - 1) : n + 1 \in 1 .. N /\ n + 1 \in 0 .. N /\ (n + 1) - 1 = n
      BY <1>1
    <3>2. \A n \in 0 .. (N - 1) : F[n + 1] = Step(F[n])
      BY <1>9, <3>1
    <3>3. \A R : R \subseteq S => Step(R) \subseteq S
      BY <1>19 DEF Step, Useful
    <3> QED
      BY <3>1, <3>2, <3>3
  <2> HIDE DEF T
  <2>3. N \in T
    BY <1>1, <1>14, <2>1, <2>2, UpTo
  <2> QED
    BY <1>15, <2>3 DEF T
<1> QED
  BY <1>16, <1>17, <1>18, <1>19

-----------------------------------------------------------------------------
(* The steps of a graph.                                                   *)

LEMMA GraphInitInv == GraphInit \/ GraphRests => GraphInv
<1> SUFFICES ASSUME GraphInit \/ GraphRests
             PROVE  GraphInv
  OBVIOUS
<1>1. held = {} /\ present = {} /\ graphTasks = {} /\ answers = {}
  BY DEF GraphInit, GraphRests
<1>2. changes \in Seq(GraphChange) /\ searches \in Seq(GraphQuery)
  <2>1. CASE GraphInit
    <3>1. PICK s \in GraphScripts : changes = s.changes /\ searches = s.searches
      BY <2>1 DEF GraphInit
    <3> QED
      BY <3>1, GraphAssumption
  <2>2. CASE GraphRests
    <3>1. changes = <<>> /\ searches = <<>>
      BY <2>2 DEF GraphRests
    <3> QED
      BY <3>1
  <2> QED
    BY <2>1, <2>2
<1>3. <<>> \in Seq(Points) /\ IsInjective(<<>>) /\ Len(<<>>) <= MaxDegree
  BY GraphAssumption DEF IsInjective
<1>4. /\ DOMAIN graph = Points /\ graph = [id \in Points |-> graph[id]]
      /\ \A id \in Points : graph[id] = Absent \/ graph[id] = [Absent EXCEPT !.state = "live"]
  BY DEF GraphInit, GraphRests
<1>5. \A id \in Points : /\ graph[id] \in GraphNode /\ graph[id].state # "dead"
                         /\ graph[id].edges = <<>>
  <2>1. Absent \in GraphNode /\ Absent.state # "dead" /\ Absent.edges = <<>>
    BY <1>3 DEF Absent, GraphNode
  <2>2. /\ [Absent EXCEPT !.state = "live"] \in GraphNode
        /\ [Absent EXCEPT !.state = "live"].state # "dead"
        /\ [Absent EXCEPT !.state = "live"].edges = <<>>
    BY <1>3 DEF Absent, GraphNode
  <2> QED
    BY <1>4, <2>1, <2>2
<1>6. GraphTypes
  BY <1>1, <1>2, <1>4, <1>5 DEF GraphTypes
<1>7. EdgesInv
  BY <1>3, <1>5 DEF EdgesInv
<1>8. GraphTasksInv /\ SearchInv /\ GraphSearchRight
  BY <1>1, <1>5 DEF GraphTasksInv, SearchInv, GraphSearchRight, Modifying
<1> QED
  BY <1>6, <1>7, <1>8 DEF GraphInv

LEMMA GraphAtRest == GraphInv => GraphKept
  BY DEF GraphInv, EdgesInv, GraphTasksInv, GraphKept

\* The tasks after a step that disturbs the searches.
LEMMA Disturbed ==
  ASSUME GraphTypes, NEW T \in SUBSET graphTasks, NEW U \in SUBSET (GraphAdd \union GraphRemove),
         graphTasks' = Disturb(T) \union U
  PROVE  /\ graphTasks' \subseteq GraphAdd \union GraphRemove \union GraphSearch
         /\ Modifying' = {m \in T : m.op # "ann"} \union U
         /\ \A s \in graphTasks' : s.op = "ann" =>
              \E t \in T : /\ t.op = "ann" /\ s.gone = t.gone /\ s.at = t.at /\ s.list = t.list
                           /\ s.query = t.query /\ s.calm = FALSE
<1> DEFINE D(t) == IF t.op = "ann" THEN [t EXCEPT !.calm = FALSE] ELSE t
<1>1. Disturb(T) = {D(t) : t \in T}
  BY DEF Disturb
<1>2. ASSUME NEW t \in T
      PROVE  /\ D(t) \in GraphAdd \union GraphRemove \union GraphSearch /\ D(t).op = t.op
             /\ t.op # "ann" => D(t) = t
             /\ t.op = "ann" => /\ D(t).gone = t.gone /\ D(t).at = t.at /\ D(t).list = t.list
                                /\ D(t).query = t.query /\ D(t).calm = FALSE
  <2>1. t \in GraphAdd \union GraphRemove \union GraphSearch
    BY DEF GraphTypes
  <2>2. CASE t \in GraphAdd \union GraphRemove
    BY <2>2 DEF GraphAdd, GraphRemove
  <2>3. CASE t \in GraphSearch
    BY <2>3 DEF GraphSearch
  <2> QED
    BY <2>1, <2>2, <2>3
<1>3. \A u \in U : u.op # "ann"
  BY DEF GraphAdd, GraphRemove
<1> HIDE DEF D
<1>4. graphTasks' \subseteq GraphAdd \union GraphRemove \union GraphSearch
  BY <1>1, <1>2
<1>5. Modifying' = {m \in T : m.op # "ann"} \union U
  BY <1>1, <1>2, <1>3 DEF Modifying
<1>6. ASSUME NEW s \in graphTasks', s.op = "ann"
      PROVE  \E t \in T : /\ t.op = "ann" /\ s.gone = t.gone /\ s.at = t.at /\ s.list = t.list
                           /\ s.query = t.query /\ s.calm = FALSE
  <2>1. PICK t \in T : s = D(t)
    BY <1>1, <1>3, <1>6
  <2> QED
    BY <1>2, <1>6, <2>1
<1> QED
  BY <1>4, <1>5, <1>6

\* A step that changes what is stored: at most x, which was not gone, may
\* come to life.
LEMMA ModifyingStep ==
  ASSUME GraphInv, NEW T \in SUBSET graphTasks, NEW U \in SUBSET (GraphAdd \union GraphRemove),
         graphTasks' = Disturb(T) \union U, UNCHANGED answers,
         NEW x \in VectorIds, x \notin Gone,
         \A id \in VectorIds \ {x} : IsLive(id)' => IsLive(id),
         \A u \in U : u.id = x,
         changes' = changes \/ (changes # <<>> /\ changes' = Tail(changes))
  PROVE  /\ graphTasks' \subseteq GraphAdd \union GraphRemove \union GraphSearch
         /\ Modifying' = {m \in T : m.op # "ann"} \union U
         /\ SearchInv' /\ GraphSearchRight'
<1>1. GraphTypes /\ SearchInv
  BY DEF GraphInv
<1>2. \A i \in DOMAIN changes' : \E j \in DOMAIN changes : changes'[i] = changes[j]
  <2>1. CASE changes # <<>> /\ changes' = Tail(changes)
    <3>1. /\ Len(changes) \in Nat \ {0} /\ DOMAIN changes = 1 .. Len(changes)
          /\ DOMAIN changes' = 1 .. Len(changes) - 1
          /\ \A i \in DOMAIN changes' : changes'[i] = changes[i + 1]
      BY <1>1, <2>1 DEF GraphTypes
    <3> QED
      BY <3>1
  <2> QED
    BY <2>1
<1>3. Gone \subseteq Gone'
  <2> SUFFICES ASSUME NEW id \in Gone
               PROVE  id \in Gone'
    OBVIOUS
  <2>1. /\ id \in VectorIds /\ id # x /\ ~IsLive(id)
        /\ \A t \in Modifying : t.id # id
        /\ \A i \in DOMAIN changes : changes[i].id # id
    BY DEF Gone
  <2>2. ~IsLive(id)'
    BY <2>1
  <2>3. \A t \in Modifying' : t.id # id
    <3>1. Modifying' = {m \in T : m.op # "ann"} \union U
      BY <1>1, Disturbed
    <3>2. {m \in T : m.op # "ann"} \subseteq Modifying
      BY DEF Modifying
    <3> QED
      BY <2>1, <3>1, <3>2
  <2>4. \A i \in DOMAIN changes' : changes'[i].id # id
    BY <1>2, <2>1
  <2> QED
    BY <2>1, <2>2, <2>3, <2>4 DEF Gone
<1>4. ASSUME NEW s \in graphTasks', s.op = "ann"
      PROVE  SearchOK(s)'
  <2>1. PICK t \in T : /\ t.op = "ann" /\ s.gone = t.gone /\ s.at = t.at /\ s.list = t.list
                       /\ s.query = t.query /\ s.calm = FALSE
    BY <1>1, <1>4, Disturbed
  <2>2. SearchOK(t)
    BY <1>1, <2>1 DEF SearchInv
  <2> QED
    BY <1>3, <2>1, <2>2 DEF SearchOK
<1>5. GraphSearchRight'
  BY DEF GraphInv, GraphSearchRight
<1> QED
  BY <1>1, <1>4, <1>5, Disturbed DEF SearchInv

\* What a task that changes the graph is.
LEMMA TaskFacts ==
  ASSUME GraphInv, NEW t \in graphTasks, t.op # "ann"
  PROVE  /\ t \in Modifying /\ t.id \in VectorIds /\ t.id \in Points /\ t.id # START_ID
         /\ t.id \notin Gone
         /\ t.op = "add" => t \in GraphAdd
         /\ t.op = "remove" => t \in GraphRemove
         /\ t.list \in SUBSET Points
<1>1. t \in GraphAdd \union GraphRemove
  BY DEF GraphInv, GraphTypes, GraphSearch
<1>2. /\ t.id \in VectorIds /\ t.list \in SUBSET Points
      /\ t.op = "add" => t \in GraphAdd
      /\ t.op = "remove" => t \in GraphRemove
  <2>1. CASE t \in GraphAdd
    BY <2>1 DEF GraphAdd
  <2>2. CASE t \in GraphRemove
    BY <2>2 DEF GraphRemove
  <2> QED
    BY <1>1, <2>1, <2>2
<1>3. t \in Modifying
  BY DEF Modifying
<1>4. t.id \in Points /\ t.id # START_ID
  BY <1>2, DiskannAssumption DEF Points
<1> QED
  BY <1>2, <1>3, <1>4 DEF Gone

\* The step of a task that changes the graph: what it must see to itself.
LEMMA ModifyingKeeps ==
  ASSUME GraphInv, NEW t \in graphTasks, t.op # "ann",
         NEW U \in SUBSET (GraphAdd \union GraphRemove),
         graphTasks' = Disturb(graphTasks \ {t}) \union U,
         UNCHANGED <<channels, answers>>,
         \A u \in U : u.id = t.id,
         graph' \in [Points -> GraphNode], EdgesInv',
         \A id \in Points \ {t.id} : \/ graph'[id].state = graph[id].state
                                     \/ graph[id].state = "dead" /\ graph'[id].state = "absent",
         held' \subseteq held \union {t.id}, held \ {t.id} \subseteq held',
         t.id \in held' => \/ t.id \in held /\ ~(t.op = "add" /\ t.at \in {"prune", "link"})
                           \/ \E u \in U : u.op = "add" /\ u.at \in {"prune", "link"},
         graph'[t.id].state = "dead" => \/ graph[t.id].state = "dead" /\ ~(t.op = "remove" /\ t.at = "repair")
                                        \/ \E u \in U : u.op = "remove" /\ u.at = "repair"
  PROVE  GraphInv'
<1>1. GraphTypes /\ GraphTasksInv
  BY DEF GraphInv
<1>2. /\ t.id \in VectorIds /\ t.id \in Points /\ t.id \notin Gone
  BY TaskFacts
<1>3. /\ UNCHANGED answers /\ UNCHANGED changes /\ UNCHANGED searches /\ UNCHANGED present
  BY DEF channels
<1>4. \A id \in VectorIds \ {t.id} : IsLive(id)' => IsLive(id)
  BY DEF IsLive, Points
<1>5. /\ graphTasks' \subseteq GraphAdd \union GraphRemove \union GraphSearch
      /\ Modifying' = {m \in graphTasks \ {t} : m.op # "ann"} \union U
      /\ SearchInv' /\ GraphSearchRight'
  <2>1. graphTasks \ {t} \in SUBSET graphTasks
    OBVIOUS
  <2> QED
    BY <1>2, <1>3, <1>4, <2>1, ModifyingStep
<1>6. GraphTypes'
  BY <1>1, <1>2, <1>3, <1>5 DEF GraphTypes
<1>7. \A m \in Modifying : m = t \/ m \in Modifying'
  BY <1>5 DEF Modifying
<1>8. \A u \in U : u \in Modifying'
  BY <1>5
<1> DEFINE Holding(id) ==
             \E m \in Modifying' : m.op = "add" /\ m.at \in {"prune", "link"} /\ m.id = id
           Reaping(id) == \E m \in Modifying' : m.op = "remove" /\ m.at = "repair" /\ m.id = id
           HeldBefore == t.id \in held /\ ~(t.op = "add" /\ t.at \in {"prune", "link"})
           DeadBefore == graph[t.id].state = "dead" /\ ~(t.op = "remove" /\ t.at = "repair")
<1>9. ASSUME NEW id \in held'
      PROVE  Holding(id)
  <2>1. CASE id # t.id \/ HeldBefore
    <3>1. id \in held
      BY <1>9, <2>1
    <3>2. PICK m \in Modifying : m.op = "add" /\ m.at \in {"prune", "link"} /\ m.id = id
      BY <1>1, <3>1 DEF GraphTasksInv
    <3> QED
      BY <1>7, <2>1, <3>2
  <2>2. ASSUME NEW u \in U, u.op = "add", u.at \in {"prune", "link"}, id = t.id
        PROVE  Holding(id)
    <3>1. u.id = id /\ u \in Modifying'
      BY <1>8, <2>2
    <3> QED
      BY <2>2, <3>1
  <2>3. CASE id = t.id /\ ~HeldBefore
    <3>1. \E u \in U : u.op = "add" /\ u.at \in {"prune", "link"}
      BY <1>9, <2>3
    <3> QED
      BY <2>2, <2>3, <3>1
  <2> HIDE DEF Holding, Reaping, HeldBefore, DeadBefore
  <2> QED
    BY <2>1, <2>3
<1>10. ASSUME NEW id \in Points, graph'[id].state = "dead"
       PROVE  Reaping(id)
  <2>1. CASE id # t.id \/ DeadBefore
    <3>1. graph[id].state = "dead"
      BY <1>10, <2>1
    <3>2. PICK m \in Modifying : m.op = "remove" /\ m.at = "repair" /\ m.id = id
      BY <1>1, <3>1 DEF GraphTasksInv
    <3> QED
      BY <1>7, <2>1, <3>2
  <2>2. ASSUME NEW u \in U, u.op = "remove", u.at = "repair", id = t.id
        PROVE  Reaping(id)
    <3>1. u.id = id /\ u \in Modifying'
      BY <1>8, <2>2
    <3> QED
      BY <2>2, <3>1
  <2>3. CASE id = t.id /\ ~DeadBefore
    <3>1. \E u \in U : u.op = "remove" /\ u.at = "repair"
      BY <1>10, <2>3
    <3> QED
      BY <2>2, <2>3, <3>1
  <2> HIDE DEF Holding, Reaping, HeldBefore, DeadBefore
  <2> QED
    BY <2>1, <2>3
<1>11. GraphTasksInv'
  BY <1>9, <1>10 DEF GraphTasksInv
<1> QED
  BY <1>5, <1>6, <1>11 DEF GraphInv

\* Writing a node without edges.
LEMMA NodeWritten ==
  ASSUME GraphTypes, EdgesInv, NEW id \in Points, NEW node,
         node \in {[state |-> "live", edges |-> <<>>], Absent},
         graph' = [graph EXCEPT ![id] = node]
  PROVE  /\ graph' \in [Points -> GraphNode] /\ EdgesInv'
         /\ graph'[id] = node /\ graph'[id].state # "dead"
         /\ \A j \in Points \ {id} : graph'[j] = graph[j]
<1>1. /\ node \in GraphNode /\ node.edges = <<>> /\ node.state # "dead"
  <2>1. <<>> \in Seq(Points)
    OBVIOUS
  <2>2. CASE node = [state |-> "live", edges |-> <<>>]
    BY <2>1, <2>2 DEF GraphNode
  <2>3. CASE node = Absent
    BY <2>1, <2>3 DEF GraphNode, Absent
  <2> QED
    BY <2>2, <2>3
<1>2. IsInjective(<<>>) /\ Len(<<>>) <= MaxDegree
  BY GraphAssumption DEF IsInjective
<1>3. /\ graph' \in [Points -> GraphNode] /\ graph'[id] = node
      /\ \A j \in Points \ {id} : graph'[j] = graph[j]
  BY <1>1 DEF GraphTypes
<1>4. EdgesInv'
  BY <1>1, <1>2, <1>3 DEF EdgesInv
<1> QED
  BY <1>1, <1>3, <1>4

LEMMA InsertNodeInv ==
  ASSUME GraphInv, NEW t \in graphTasks, InsertNode(t)
  PROVE  GraphInv'
<1>1. /\ GraphTypes /\ EdgesInv /\ t.op = "add" /\ UNCHANGED <<channels, answers>>
  BY DEF GraphInv, InsertNode
<1>2. t.id \in Points /\ t \in GraphAdd
  BY <1>1, TaskFacts
<1>3. CASE IsLive(t.id)
  <2>1. graphTasks' = Disturb(graphTasks \ {t}) \union {} /\ UNCHANGED <<graph, held>>
    BY <1>3 DEF InsertNode, Ended, graphStore
  <2>2. graph[t.id].state = "live"
    BY <1>3 DEF IsLive
  <2>3. graph' \in [Points -> GraphNode] /\ EdgesInv'
    BY <1>1, <2>1 DEF GraphTypes, EdgesInv
  <2>4. held' \subseteq held \union {t.id} /\ held \ {t.id} \subseteq held'
    BY <2>1
  <2>5. /\ \A id \in Points \ {t.id} : graph'[id].state = graph[id].state
        /\ graph'[t.id].state # "dead"
    BY <2>1, <2>2
  <2>6. t.id \in held' => t.id \in held /\ ~(t.op = "add" /\ t.at \in {"prune", "link"})
    BY <2>1 DEF InsertNode
  <2>7. {} \in SUBSET (GraphAdd \union GraphRemove) /\ \A u \in {} : u.id = t.id
    OBVIOUS
  <2> QED
    BY <1>1, <2>1, <2>3, <2>4, <2>5, <2>6, <2>7, ModifyingKeeps
<1>4. CASE ~IsLive(t.id)
  <2> DEFINE u == [t EXCEPT !.at = "prune"]
  <2>1. /\ Create(t.id) /\ held' = held \union {t.id}
        /\ graphTasks' = Disturb(graphTasks \ {t}) \union {u}
    BY <1>4 DEF InsertNode, Becomes
  <2>2. u \in GraphAdd /\ u.id = t.id /\ u.op = "add" /\ u.at = "prune"
    BY <1>1, <1>2 DEF GraphAdd
  <2> HIDE DEF u
  <2>3. {u} \in SUBSET (GraphAdd \union GraphRemove)
    BY <2>2
  <2>4. /\ graph' \in [Points -> GraphNode] /\ EdgesInv' /\ graph'[t.id].state # "dead"
        /\ \A j \in Points \ {t.id} : graph'[j] = graph[j]
    BY <1>1, <1>2, <2>1, NodeWritten DEF Create
  <2> QED
    BY <1>1, <2>1, <2>2, <2>3, <2>4, ModifyingKeeps
<1> QED
  BY <1>3, <1>4

LEMMA EdgesType ==
  ASSUME GraphTypes, NEW id \in Points
  PROVE  Edges(id) \in SUBSET Points
<1>1. graph[id] \in GraphNode
  BY DEF GraphTypes
<1>2. graph[id].edges \in Seq(Points)
  BY <1>1 DEF GraphNode
<1> QED
  BY <1>2 DEF Edges, ToSet

LEMMA InsertPruneInv ==
  ASSUME GraphInv, NEW t \in graphTasks, InsertPrune(t)
  PROVE  GraphInv'
<1>1. /\ GraphTypes /\ EdgesInv /\ t.op = "add" /\ UNCHANGED <<channels, answers>>
      /\ UNCHANGED held
  BY DEF GraphInv, InsertPrune
<1>2. t.id \in Points /\ t \in GraphAdd
  BY <1>1, TaskFacts
<1>3. PICK list \in SUBSET (Points \ {t.id}) :
        /\ SetNeighbors(t.id, SetToSeq(list))
        /\ Becomes(t, [t EXCEPT !.at = "link", !.list = list])
  BY DEF InsertPrune
<1> DEFINE u == [t EXCEPT !.at = "link", !.list = list]
<1>4. u \in GraphAdd /\ u.id = t.id /\ u.op = "add" /\ u.at = "link"
  BY <1>1, <1>2 DEF GraphAdd
<1>5. graphTasks' = Disturb(graphTasks \ {t}) \union {u}
  BY <1>3 DEF Becomes
<1> HIDE DEF u
<1>6. {u} \in SUBSET (GraphAdd \union GraphRemove)
  BY <1>4
<1>7. /\ graph' \in [Points -> GraphNode] /\ EdgesInv'
      /\ \A j \in Points : \/ graph'[j].state = graph[j].state
                           \/ j = t.id /\ graph[t.id].state = "dead" /\ graph'[t.id].state = "absent"
  <2>1. list \in SUBSET Points
    OBVIOUS
  <2> QED
    BY <1>1, <1>2, <1>3, <2>1, ListWritten
<1>8. graph'[t.id].state = "dead" => graph[t.id].state = "dead"
  BY <1>2, <1>7
<1>9. held' \subseteq held \union {t.id} /\ held \ {t.id} \subseteq held'
  BY <1>1
<1>10. t.op # "ann" /\ \A v \in {u} : v.id = t.id
  BY <1>1, <1>4
<1>11. \A id \in Points \ {t.id} : \/ graph'[id].state = graph[id].state
                                   \/ graph[id].state = "dead" /\ graph'[id].state = "absent"
  BY <1>7
<1>12. t.id \in held' => \/ t.id \in held /\ ~(t.op = "add" /\ t.at \in {"prune", "link"})
                       \/ \E v \in {u} : v.op = "add" /\ v.at \in {"prune", "link"}
  BY <1>4
<1>13. graph'[t.id].state = "dead" =>
         \/ graph[t.id].state = "dead" /\ ~(t.op = "remove" /\ t.at = "repair")
         \/ \E v \in {u} : v.op = "remove" /\ v.at = "repair"
  BY <1>1, <1>8
<1>14. graph' \in [Points -> GraphNode] /\ EdgesInv' /\ UNCHANGED <<channels, answers>>
  BY <1>1, <1>7
<1> QED
  BY <1>5, <1>6, <1>9, <1>10, <1>11, <1>12, <1>13, <1>14, ModifyingKeeps

LEMMA InsertFailsInv ==
  ASSUME GraphInv, NEW t \in graphTasks, InsertFails(t)
  PROVE  GraphInv'
<1>1. /\ GraphTypes /\ EdgesInv /\ t.op = "add" /\ UNCHANGED <<channels, answers>>
      /\ held' = held \ {t.id} /\ Abandon(t.id)
      /\ graphTasks' = Disturb(graphTasks \ {t}) \union {}
  BY DEF GraphInv, InsertFails, OnSourceFailure, Ended
<1>2. t.id \in Points /\ t \in GraphAdd
  BY <1>1, TaskFacts
<1>3. /\ graph' \in [Points -> GraphNode] /\ EdgesInv' /\ graph'[t.id].state # "dead"
      /\ \A j \in Points \ {t.id} : graph'[j] = graph[j]
  BY <1>1, <1>2, NodeWritten DEF Abandon
<1>4. {} \in SUBSET (GraphAdd \union GraphRemove) /\ \A u \in {} : u.id = t.id
  OBVIOUS
<1>5. held' \subseteq held \union {t.id} /\ held \ {t.id} \subseteq held' /\ t.id \notin held'
  BY <1>1
<1> QED
  BY <1>1, <1>3, <1>4, <1>5, ModifyingKeeps

LEMMA InsertLinkInv ==
  ASSUME GraphInv, NEW t \in graphTasks, InsertLink(t)
  PROVE  GraphInv'
<1>1. /\ GraphTypes /\ EdgesInv /\ t.op = "add" /\ UNCHANGED <<channels, answers>>
      /\ UNCHANGED held /\ t.at = "link"
  BY DEF GraphInv, InsertLink
<1>2. t.id \in Points /\ t \in GraphAdd /\ t.list \in SUBSET Points
  BY <1>1, TaskFacts
<1>3. PICK n \in t.list :
        /\ \/ AppendVector(n, t.id)
           \/ \E keep \in SUBSET (Edges(n) \union {t.id}) : SetNeighbors(n, SetToSeq(keep))
        /\ Becomes(t, [t EXCEPT !.list = @ \ {n}])
  BY DEF InsertLink
<1> DEFINE u == [t EXCEPT !.list = @ \ {n}]
<1>4. u \in GraphAdd /\ u.id = t.id /\ u.op = "add" /\ u.at = "link"
  BY <1>1, <1>2 DEF GraphAdd
<1>5. graphTasks' = Disturb(graphTasks \ {t}) \union {u}
  BY <1>3 DEF Becomes
<1> HIDE DEF u
<1>6. {u} \in SUBSET (GraphAdd \union GraphRemove)
  BY <1>4
<1>7. /\ graph' \in [Points -> GraphNode] /\ EdgesInv'
      /\ \A j \in Points : \/ graph'[j].state = graph[j].state
                           \/ graph[j].state = "dead" /\ graph'[j].state = "absent"
  <2>1. n \in Points
    BY <1>2
  <2>2. Edges(n) \union {t.id} \in SUBSET Points
    BY <1>1, <1>2, <2>1, EdgesType
  <2>3. \/ \E S \in SUBSET Points : SetNeighbors(n, SetToSeq(S))
        \/ \E e \in Points : AppendVector(n, e)
    BY <1>2, <1>3, <2>2
  <2>4. /\ graph' \in [Points -> GraphNode] /\ EdgesInv'
        /\ \A j \in Points : \/ graph'[j].state = graph[j].state
                             \/ j = n /\ graph[n].state = "dead" /\ graph'[n].state = "absent"
    BY <1>1, <2>1, <2>3, ListWritten
  <2> QED
    BY <2>4
<1>8. graph'[t.id].state = "dead" => graph[t.id].state = "dead"
  BY <1>2, <1>7
<1>9. held' \subseteq held \union {t.id} /\ held \ {t.id} \subseteq held'
  BY <1>1
<1> QED
  BY <1>1, <1>4, <1>5, <1>6, <1>7, <1>8, <1>9, ModifyingKeeps

LEMMA InsertDoneInv ==
  ASSUME GraphInv, NEW t \in graphTasks, InsertDone(t)
  PROVE  GraphInv'
<1>1. /\ GraphTypes /\ EdgesInv /\ t.op = "add" /\ UNCHANGED <<channels, answers>>
      /\ held' = held \ {t.id} /\ UNCHANGED graph
      /\ graphTasks' = Disturb(graphTasks \ {t}) \union {}
  BY DEF GraphInv, InsertDone, Ended
<1>2. graph' \in [Points -> GraphNode] /\ EdgesInv'
  BY <1>1 DEF GraphTypes, EdgesInv
<1>3. {} \in SUBSET (GraphAdd \union GraphRemove) /\ \A u \in {} : u.id = t.id
  OBVIOUS
<1>4. held' \subseteq held \union {t.id} /\ held \ {t.id} \subseteq held' /\ t.id \notin held'
  BY <1>1
<1> QED
  BY <1>1, <1>2, <1>3, <1>4, ModifyingKeeps

LEMMA DeleteNodeInv ==
  ASSUME GraphInv, NEW t \in graphTasks, DeleteNode(t)
  PROVE  GraphInv'
<1>1. /\ GraphTypes /\ EdgesInv /\ t.op = "remove" /\ t.at = "start"
      /\ UNCHANGED <<channels, answers>> /\ UNCHANGED held
  BY DEF GraphInv, DeleteNode
<1>2. t.id \in Points /\ t \in GraphRemove
  BY <1>1, TaskFacts
<1>3. held' \subseteq held \union {t.id} /\ held \ {t.id} \subseteq held'
  BY <1>1
<1>4. CASE IsLive(t.id)
  <2> DEFINE u == [t EXCEPT !.at = "repair", !.list = Edges(t.id)]
  <2>1. /\ graph' = [graph EXCEPT ![t.id].state = "dead"]
        /\ graphTasks' = Disturb(graphTasks \ {t}) \union {u}
    BY <1>4 DEF DeleteNode, Becomes
  <2>2. u \in GraphRemove /\ u.id = t.id /\ u.op = "remove" /\ u.at = "repair"
    <3>1. Edges(t.id) \in SUBSET Points
      BY <1>1, <1>2, EdgesType
    <3> QED
      BY <1>1, <1>2, <3>1 DEF GraphRemove
  <2> HIDE DEF u
  <2>3. {u} \in SUBSET (GraphAdd \union GraphRemove)
    BY <2>2
  <2>4. /\ graph' \in [Points -> GraphNode]
        /\ graph'[t.id].edges = graph[t.id].edges /\ graph'[t.id].state = "dead"
        /\ \A j \in Points \ {t.id} : graph'[j] = graph[j]
    BY <1>1, <1>2, <2>1 DEF GraphTypes, GraphNode
  <2>5. EdgesInv'
    <3> SUFFICES ASSUME NEW j \in Points
                 PROVE  /\ Len(graph'[j].edges) <= MaxDegree /\ IsInjective(graph'[j].edges)
                        /\ graph'[j].state = "absent" => graph'[j].edges = <<>>
      BY DEF EdgesInv
    <3> QED
      BY <1>1, <2>4 DEF EdgesInv
  <2>6. t.op # "ann" /\ \A v \in {u} : v.id = t.id
    BY <1>1, <2>2
  <2>7. \A id \in Points \ {t.id} : graph'[id].state = graph[id].state
    BY <2>4
  <2>8. t.id \in held' => t.id \in held /\ ~(t.op = "add" /\ t.at \in {"prune", "link"})
    BY <1>1
  <2>9. \E v \in {u} : v.op = "remove" /\ v.at = "repair"
    BY <2>2
  <2>10. graph' \in [Points -> GraphNode]
    BY <2>4
  <2>11. UNCHANGED <<channels, answers>> /\ graphTasks' = Disturb(graphTasks \ {t}) \union {u}
    BY <1>1, <2>1
  <2> QED
    BY <1>3, <2>3, <2>5, <2>6, <2>7, <2>8, <2>9, <2>10, <2>11, ModifyingKeeps
<1>5. CASE ~IsLive(t.id)
  <2>1. graphTasks' = Disturb(graphTasks \ {t}) \union {} /\ UNCHANGED graph
    BY <1>5 DEF DeleteNode, Ended
  <2>2. graph' \in [Points -> GraphNode] /\ EdgesInv'
    BY <1>1, <2>1 DEF GraphTypes, EdgesInv
  <2>3. {} \in SUBSET (GraphAdd \union GraphRemove) /\ \A u \in {} : u.id = t.id
    OBVIOUS
  <2>4. t.op # "ann"
    BY <1>1
  <2>5. \A id \in Points \ {t.id} : graph'[id].state = graph[id].state
    BY <2>1
  <2>6. t.id \in held' => t.id \in held /\ ~(t.op = "add" /\ t.at \in {"prune", "link"})
    BY <1>1
  <2>7. graph'[t.id].state = "dead" => graph[t.id].state = "dead" /\ ~(t.op = "remove" /\ t.at = "repair")
    BY <1>1, <2>1
  <2> QED
    BY <1>1, <1>3, <2>1, <2>2, <2>3, <2>4, <2>5, <2>6, <2>7, ModifyingKeeps
<1> QED
  BY <1>4, <1>5

LEMMA DeleteRepairInv ==
  ASSUME GraphInv, NEW t \in graphTasks, DeleteRepair(t)
  PROVE  GraphInv'
<1>1. /\ GraphTypes /\ EdgesInv /\ t.op = "remove" /\ t.at = "repair"
      /\ UNCHANGED <<channels, answers>> /\ UNCHANGED held
  BY DEF GraphInv, DeleteRepair
<1>2. t.id \in Points /\ t \in GraphRemove /\ t.list \in SUBSET Points
  BY <1>1, TaskFacts
<1>3. PICK n \in t.list :
        /\ IF t.id \in Edges(n)
           THEN \E list \in SUBSET ((Edges(n) \union Edges(t.id)) \ {t.id, n}) :
                  SetNeighbors(n, SetToSeq(list))
           ELSE UNCHANGED graph
        /\ Becomes(t, [t EXCEPT !.list = @ \ {n}])
  BY DEF DeleteRepair
<1> DEFINE u == [t EXCEPT !.list = @ \ {n}]
<1>4. u \in GraphRemove /\ u.id = t.id /\ u.op = "remove" /\ u.at = "repair"
  BY <1>1, <1>2 DEF GraphRemove
<1>5. graphTasks' = Disturb(graphTasks \ {t}) \union {u}
  BY <1>3 DEF Becomes
<1> HIDE DEF u
<1>6. {u} \in SUBSET (GraphAdd \union GraphRemove)
  BY <1>4
<1>7. /\ graph' \in [Points -> GraphNode] /\ EdgesInv'
      /\ \A j \in Points : \/ graph'[j].state = graph[j].state
                           \/ graph[j].state = "dead" /\ graph'[j].state = "absent"
  <2>1. n \in Points
    BY <1>2
  <2>2. CASE UNCHANGED graph
    BY <1>1, <2>2 DEF GraphTypes, EdgesInv
  <2>3. CASE \E list \in SUBSET ((Edges(n) \union Edges(t.id)) \ {t.id, n}) :
               SetNeighbors(n, SetToSeq(list))
    <3>1. Edges(n) \in SUBSET Points /\ Edges(t.id) \in SUBSET Points
      BY <1>1, <1>2, <2>1, EdgesType
    <3>2. \E S \in SUBSET Points : SetNeighbors(n, SetToSeq(S))
      BY <2>3, <3>1
    <3>3. /\ graph' \in [Points -> GraphNode] /\ EdgesInv'
          /\ \A j \in Points : \/ graph'[j].state = graph[j].state
                               \/ j = n /\ graph[n].state = "dead" /\ graph'[n].state = "absent"
      BY <1>1, <2>1, <3>2, ListWritten
    <3> QED
      BY <3>3
  <2> QED
    BY <1>3, <2>2, <2>3
<1>8. held' \subseteq held \union {t.id} /\ held \ {t.id} \subseteq held'
  BY <1>1
<1> QED
  BY <1>1, <1>4, <1>5, <1>6, <1>7, <1>8, ModifyingKeeps

LEMMA DeleteDoneInv ==
  ASSUME GraphInv, NEW t \in graphTasks, DeleteDone(t)
  PROVE  GraphInv'
<1>1. /\ GraphTypes /\ EdgesInv /\ t.op = "remove" /\ UNCHANGED <<channels, answers>>
      /\ UNCHANGED held /\ SetNeighbors(t.id, <<>>)
      /\ graphTasks' = Disturb(graphTasks \ {t}) \union {}
  BY DEF GraphInv, DeleteDone, Ended
<1>2. t.id \in Points
  BY <1>1, TaskFacts
<1>3. {} \in SUBSET Points /\ SetToSeq({}) = <<>>
  <2>1. IsFiniteSet({}) /\ Cardinality({}) = 0
    BY FS_EmptySet
  <2>2. SetToSeq({}) \in Seq({}) /\ Len(SetToSeq({})) = 0
    BY <2>1, ListOfSet
  <2> QED
    BY <2>2
<1>4. \E S \in SUBSET Points : SetNeighbors(t.id, SetToSeq(S))
  BY <1>1, <1>3
<1>5. /\ graph' \in [Points -> GraphNode] /\ EdgesInv'
      /\ \A j \in Points : \/ graph'[j].state = graph[j].state
                           \/ j = t.id /\ graph[t.id].state = "dead" /\ graph'[t.id].state = "absent"
  BY <1>1, <1>2, <1>4, ListWritten
<1>6. graph'[t.id].state # "dead"
  <2>1. CASE graph[t.id].state = "dead"
    BY <1>1, <1>2, <2>1 DEF SetNeighbors, GraphTypes, Absent
  <2>2. CASE graph[t.id].state # "dead"
    BY <1>2, <1>5, <2>2
  <2> QED
    BY <2>1, <2>2
<1>7. {} \in SUBSET (GraphAdd \union GraphRemove) /\ \A u \in {} : u.id = t.id
  OBVIOUS
<1>8. held' \subseteq held \union {t.id} /\ held \ {t.id} \subseteq held'
  BY <1>1
<1> QED
  BY <1>1, <1>5, <1>6, <1>7, <1>8, ModifyingKeeps

LEMMA ReceiveChangeInv ==
  ASSUME GraphInv, ReceiveChange
  PROVE  GraphInv'
<1>1. /\ GraphTypes /\ EdgesInv /\ GraphTasksInv /\ changes # <<>> /\ changes' = Tail(changes)
      /\ UNCHANGED <<searches, graph, held, answers>>
  BY DEF GraphInv, ReceiveChange, graphStore
<1> DEFINE c == Head(changes)
           u == [op |-> c.op, id |-> c.id, at |-> "start", list |-> {}]
<1>2. /\ c \in GraphChange /\ c = changes[1] /\ 1 \in DOMAIN changes
      /\ changes' \in Seq(GraphChange)
  BY <1>1 DEF GraphTypes
<1>3. /\ present' = IF c.op = "add" THEN present \union {c.id} ELSE present \ {c.id}
      /\ graphTasks' = Disturb(graphTasks) \union (IF partition' THEN {u} ELSE {})
  BY DEF ReceiveChange
<1>4. /\ c.op \in {"add", "remove"} /\ c.id \in VectorIds
      /\ u \in GraphAdd \union GraphRemove /\ u.id = c.id
  BY <1>2 DEF GraphChange, GraphAdd, GraphRemove
<1>5. c.id \notin Gone
  BY <1>2 DEF Gone
<1> HIDE DEF c, u
<1>6. \E U \in {{}, {u}} : graphTasks' = Disturb(graphTasks) \union U
  BY <1>3
<1>7. PICK U \in {{}, {u}} : graphTasks' = Disturb(graphTasks) \union U
  BY <1>6
<1>8. U \in SUBSET (GraphAdd \union GraphRemove) /\ \A v \in U : v.id = c.id
  BY <1>4, <1>7
<1>9. \A id \in VectorIds \ {c.id} : IsLive(id)' => IsLive(id)
  BY <1>1 DEF IsLive
<1>10. graphTasks \in SUBSET graphTasks
  OBVIOUS
<1>11. /\ graphTasks' \subseteq GraphAdd \union GraphRemove \union GraphSearch
       /\ Modifying' = {m \in graphTasks : m.op # "ann"} \union U
       /\ SearchInv' /\ GraphSearchRight'
  BY <1>1, <1>4, <1>5, <1>7, <1>8, <1>9, <1>10, ModifyingStep
<1>12. present' \subseteq VectorIds
  BY <1>1, <1>3, <1>4 DEF GraphTypes
<1>13. GraphTypes'
  BY <1>1, <1>2, <1>11, <1>12 DEF GraphTypes
<1>14. EdgesInv'
  BY <1>1 DEF EdgesInv
<1>15. Modifying \subseteq Modifying'
  BY <1>11 DEF Modifying
<1>16. GraphTasksInv'
  BY <1>1, <1>15 DEF GraphTasksInv
<1> QED
  BY <1>11, <1>13, <1>14, <1>16 DEF GraphInv

\* What a search sees does not change under a step of another search.
LEMMA ViewKept ==
  ASSUME GraphTypes, UNCHANGED <<graph, held, present, changes>>, UNCHANGED Modifying
  PROVE  /\ UNCHANGED Gone /\ UNCHANGED Reachable
         /\ \A id : Edges(id)' = Edges(id) /\ IsLive(id)' = IsLive(id) /\ Useful(id)' = Useful(id)
<1>1. \A id : Edges(id)' = Edges(id) /\ IsLive(id)' = IsLive(id) /\ Useful(id)' = Useful(id)
  BY DEF Edges, IsLive, Useful
<1>2. UNCHANGED Gone
  BY <1>1 DEF Gone
<1>3. UNCHANGED Reachable
  BY DEF Reachable, Step, Edges, IsLive
<1> QED
  BY <1>1, <1>2, <1>3

LEMMA SearchKept ==
  ASSUME GraphTypes, UNCHANGED <<graph, held, present, changes>>, UNCHANGED Modifying,
         NEW CONSTANT t, SearchOK(t)
  PROVE  SearchOK(t)'
<1>1. /\ UNCHANGED Gone /\ UNCHANGED Reachable
      /\ \A id : Edges(id)' = Edges(id) /\ IsLive(id)' = IsLive(id) /\ Useful(id)' = Useful(id)
  BY ViewKept
<1>2. ASSUME NEW CONSTANT S
      PROVE  Expanding(t, S) => Expanding(t, S)'
  BY <1>1 DEF Expanding
<1>3. CalmInv(t) => CalmInv(t)'
  BY <1>1, <1>2 DEF CalmInv
<1> QED
  BY <1>1, <1>3 DEF SearchOK

\* A step that changes nothing that is stored.
LEMMA QuietStep ==
  ASSUME GraphInv, NEW T \in SUBSET graphTasks, NEW U \in SUBSET GraphSearch,
         Modifying \subseteq T, graphTasks' = T \union U,
         UNCHANGED <<graph, held, present, changes>>, searches' \in Seq(GraphQuery),
         \A u \in U : SearchOK(u), GraphSearchRight'
  PROVE  GraphInv'
<1>1. GraphTypes /\ EdgesInv /\ GraphTasksInv /\ SearchInv
  BY DEF GraphInv
<1>2. \A u \in U : u.op = "ann"
  BY DEF GraphSearch
<1>3. UNCHANGED Modifying
  BY <1>2 DEF Modifying
<1>4. GraphTypes'
  BY <1>1 DEF GraphTypes
<1>5. EdgesInv' /\ GraphTasksInv'
  BY <1>1, <1>3 DEF EdgesInv, GraphTasksInv
<1>6. ASSUME NEW CONSTANT t \in graphTasks', t.op = "ann"
      PROVE  SearchOK(t)'
  <2>1. SearchOK(t)
    BY <1>1, <1>6 DEF SearchInv
  <2> QED
    BY <1>1, <1>3, <2>1, SearchKept
<1>7. SearchInv'
  BY <1>6 DEF SearchInv
<1> QED
  BY <1>4, <1>5, <1>7 DEF GraphInv

\* What the task of a search is, and what is known of it.
LEMMA SearchFacts ==
  ASSUME GraphInv, NEW t \in graphTasks, t.op = "ann"
  PROVE  /\ GraphTypes /\ t \in GraphSearch /\ SearchOK(t)
         /\ t.query \in GraphQuery /\ t.list \in SUBSET Points
         /\ t.seen \in SUBSET Points /\ t.scored \in SUBSET Points /\ t.asked \in SUBSET Points
         /\ t.calm => Modifying = {} /\ held = {}
         /\ graphTasks \ {t} \in SUBSET graphTasks /\ Modifying \subseteq graphTasks \ {t}
         /\ searches \in Seq(GraphQuery)
<1>1. GraphTypes /\ SearchOK(t) /\ GraphTasksInv
  BY DEF GraphInv, SearchInv
<1>2. t \in GraphSearch
  BY <1>1 DEF GraphTypes, GraphAdd, GraphRemove
<1>3. /\ t.query \in GraphQuery /\ t.list \in SUBSET Points
      /\ t.seen \in SUBSET Points /\ t.scored \in SUBSET Points /\ t.asked \in SUBSET Points
  BY <1>2 DEF GraphSearch
<1>4. t.calm => Modifying = {} /\ held = {}
  BY <1>1 DEF SearchOK, CalmInv, GraphTasksInv
<1>5. graphTasks \ {t} \in SUBSET graphTasks /\ Modifying \subseteq graphTasks \ {t}
  BY DEF Modifying
<1> QED
  BY <1>1, <1>2, <1>3, <1>4, <1>5 DEF GraphTypes

\* The step of a search that goes on, and of one that ends.
LEMMA SearchGoesOn ==
  ASSUME GraphInv, NEW t \in graphTasks, t.op = "ann", NEW u \in GraphSearch, On(t, u),
         SearchKeeps, UNCHANGED answers, SearchOK(u)
  PROVE  GraphInv'
<1>1. /\ graphTasks' = (graphTasks \ {t}) \union {u}
      /\ UNCHANGED <<graph, held, present, changes>> /\ UNCHANGED searches
  BY DEF On, SearchKeeps, channels, graphStore
<1>2. /\ graphTasks \ {t} \in SUBSET graphTasks /\ Modifying \subseteq graphTasks \ {t}
      /\ searches' \in Seq(GraphQuery)
  BY <1>1, SearchFacts
<1>3. GraphSearchRight'
  BY DEF GraphInv, GraphSearchRight
<1>4. {u} \in SUBSET GraphSearch /\ \A v \in {u} : SearchOK(v)
  OBVIOUS
<1> QED
  BY <1>1, <1>2, <1>3, <1>4, QuietStep

LEMMA SearchEndsInv ==
  ASSUME GraphInv, NEW t \in graphTasks, t.op = "ann", NEW kind, NEW ids,
         SearchEnds(t, kind, ids), SearchKeeps,
         kind = "found" =>
           /\ Cardinality(ids) <= t.query.limit
           /\ ids \intersect t.gone = {}
           /\ t.calm => /\ ids \subseteq t.reach
                        /\ Cardinality(ids) = Min2(t.query.limit, Cardinality(t.reach))
  PROVE  GraphInv'
<1> DEFINE a == [query |-> t.query, kind |-> kind, ids |-> ids,
                 gone |-> t.gone, reach |-> t.reach, calm |-> t.calm]
<1>1. /\ graphTasks' = (graphTasks \ {t}) \union {} /\ answers' = answers \union {a}
      /\ UNCHANGED <<graph, held, present, changes>> /\ UNCHANGED searches
  BY DEF SearchEnds, SearchKeeps, channels, graphStore
<1>2. /\ graphTasks \ {t} \in SUBSET graphTasks /\ Modifying \subseteq graphTasks \ {t}
      /\ searches' \in Seq(GraphQuery)
  BY <1>1, SearchFacts
<1>3. /\ a.query = t.query /\ a.kind = kind /\ a.ids = ids
      /\ a.gone = t.gone /\ a.reach = t.reach /\ a.calm = t.calm
  OBVIOUS
<1> HIDE DEF a
<1>4. GraphSearchRight'
  BY <1>1, <1>3 DEF GraphInv, GraphSearchRight
<1>5. {} \in SUBSET GraphSearch /\ \A v \in {} : SearchOK(v)
  OBVIOUS
<1> QED
  BY <1>1, <1>2, <1>4, <1>5, QuietStep

LEMMA ReceiveAnnInv ==
  ASSUME GraphInv, ReceiveAnn
  PROVE  GraphInv'
<1> DEFINE q == Head(searches)
           u == [op |-> "ann", id |-> START_ID, at |-> "start", list |-> {}, query |-> q,
                 seen |-> {START_ID}, scored |-> {START_ID}, asked |-> {},
                 gone |-> Gone, reach |-> Reachable, calm |-> Modifying = {}]
<1>1. /\ GraphTypes /\ searches # <<>> /\ searches' = Tail(searches)
      /\ UNCHANGED <<graph, held, present, changes>>
  BY DEF GraphInv, ReceiveAnn, graphStore
<1>2. q \in GraphQuery /\ searches' \in Seq(GraphQuery)
  BY <1>1 DEF GraphTypes
<1>3. \/ UNCHANGED graphTasks /\ \E kind \in {"unsupported", "found"} :
                                   answers' = answers \union {Reply(q, kind, {})}
      \/ graphTasks' = graphTasks \union {u} /\ UNCHANGED answers
  BY Zenon DEF ReceiveAnn, Answers
<1>4. u \in GraphSearch
  <2>1. Gone \subseteq VectorIds /\ Reachable \subseteq VectorIds
    BY <1>1, ReachFacts DEF Gone
  <2>2. {START_ID} \in SUBSET Points /\ {} \in SUBSET Points
    BY DEF Points
  <2>3. (Modifying = {}) \in BOOLEAN
    OBVIOUS
  <2> HIDE DEF q
  <2> QED
    BY <1>2, <2>1, <2>2, <2>3 DEF GraphSearch
<1>5. SearchOK(u)
  <2>1. /\ u.at = "start" /\ u.gone = Gone /\ u.reach = Reachable /\ u.calm = (Modifying = {})
        /\ u.scored = {START_ID} /\ u.seen = {START_ID} /\ u.asked = {}
    OBVIOUS
  <2> HIDE DEF u
  <2> QED
    BY <2>1 DEF SearchOK, CalmInv
<1> HIDE DEF u
<1>6. graphTasks \in SUBSET graphTasks /\ Modifying \subseteq graphTasks
  BY DEF Modifying
<1>7. CASE UNCHANGED graphTasks /\ \E kind \in {"unsupported", "found"} :
                                     answers' = answers \union {Reply(q, kind, {})}
  <2>1. PICK kind : answers' = answers \union {Reply(q, kind, {})}
    BY <1>7
  <2>2. "calm" \notin DOMAIN Reply(q, kind, {})
    BY DEF Reply
  <2>3. GraphSearchRight'
    BY <2>1, <2>2 DEF GraphInv, GraphSearchRight
  <2>4. graphTasks' = graphTasks \union {}
    BY <1>7
  <2>5. {} \in SUBSET GraphSearch /\ \A v \in {} : SearchOK(v)
    OBVIOUS
  <2> QED
    BY <1>1, <1>2, <1>6, <2>3, <2>4, <2>5, QuietStep
<1>8. CASE graphTasks' = graphTasks \union {u} /\ UNCHANGED answers
  <2>1. GraphSearchRight'
    BY <1>8 DEF GraphInv, GraphSearchRight
  <2>2. {u} \in SUBSET GraphSearch /\ \A v \in {u} : SearchOK(v)
    BY <1>4, <1>5
  <2> QED
    BY <1>1, <1>2, <1>6, <1>8, <2>1, <2>2, QuietStep
<1> QED
  BY <1>3, <1>7, <1>8

LEMMA SearchStartInv ==
  ASSUME GraphInv, NEW t \in graphTasks, SearchStart(t)
  PROVE  GraphInv'
<1>1. t.op = "ann" /\ t.at = "start" /\ SearchKeeps
  BY DEF SearchStart
<1> DEFINE u == [t EXCEPT !.at = "expand", !.list = {START_ID}]
<1>2. \/ \E kind \in {"dimensions", "target column"} : SearchEnds(t, kind, {})
      \/ On(t, u) /\ UNCHANGED answers
  BY DEF SearchStart
<1>3. t \in GraphSearch /\ SearchOK(t)
  BY <1>1, SearchFacts
<1>4. /\ u \in GraphSearch
      /\ u.at = "expand" /\ u.list = {START_ID} /\ u.seen = t.seen /\ u.scored = t.scored
      /\ u.asked = t.asked /\ u.gone = t.gone /\ u.reach = t.reach /\ u.calm = t.calm
  BY <1>3 DEF GraphSearch, Points
<1> HIDE DEF u
<1>5. \A e : Useful(e) => e # START_ID
  BY DEF Useful, IsLive
<1>6. SearchOK(u)
  <2>1. ASSUME t.calm
        PROVE  CalmInv(u)
    <3>1. /\ CalmInv(t) /\ t.scored = {START_ID} /\ t.seen = {START_ID} /\ t.asked = {}
      BY <1>1, <1>3, <2>1 DEF SearchOK, CalmInv
    <3>2. Expanding(u, u.list)
      BY <1>4, <1>5, <3>1 DEF Expanding
    <3> QED
      BY <1>4, <3>1, <3>2 DEF CalmInv
  <2> QED
    BY <1>3, <1>4, <2>1 DEF SearchOK
<1>7. CASE \E kind \in {"dimensions", "target column"} : SearchEnds(t, kind, {})
  BY <1>1, <1>7, SearchEndsInv
<1>8. CASE On(t, u) /\ UNCHANGED answers
  BY <1>1, <1>4, <1>6, <1>8, SearchGoesOn
<1> QED
  BY <1>2, <1>7, <1>8

LEMMA SearchExpandInv ==
  ASSUME GraphInv, NEW t \in graphTasks, SearchExpand(t)
  PROVE  GraphInv'
<1>1. t.op = "ann" /\ t.at = "expand" /\ SearchKeeps /\ UNCHANGED answers
  BY DEF SearchExpand
<1>2. PICK n \in t.list :
        On(t, [t EXCEPT !.list = @ \ {n}, !.seen = @ \union Edges(n),
                        !.asked = @ \union (Edges(n) \ t.seen)])
  BY DEF SearchExpand
<1> DEFINE u == [t EXCEPT !.list = @ \ {n}, !.seen = @ \union Edges(n),
                          !.asked = @ \union (Edges(n) \ t.seen)]
<1>3. /\ GraphTypes /\ t \in GraphSearch /\ SearchOK(t) /\ t.list \in SUBSET Points
      /\ t.seen \in SUBSET Points /\ t.asked \in SUBSET Points
  BY <1>1, SearchFacts
<1>4. Edges(n) \in SUBSET Points
  BY <1>3, EdgesType
<1>5. /\ u.at = "expand" /\ u.list = t.list \ {n} /\ u.seen = t.seen \union Edges(n)
      /\ u.scored = t.scored /\ u.asked = t.asked \union (Edges(n) \ t.seen)
      /\ u.gone = t.gone /\ u.reach = t.reach /\ u.calm = t.calm
  BY <1>1, <1>3 DEF GraphSearch
<1>6. u \in GraphSearch
  BY <1>3, <1>4 DEF GraphSearch
<1> HIDE DEF u
<1>7. ASSUME t.calm
      PROVE  CalmInv(u)
  <2>1. CalmInv(t) /\ t.list \subseteq t.scored /\ Expanding(t, t.list)
    BY <1>1, <1>3, <1>7 DEF SearchOK, CalmInv
  <2>2. \A e \in Edges(n) : Useful(e) => e \in Reachable
    BY <1>3, <2>1, ReachFacts DEF Expanding
  <2>3. Expanding(u, u.list)
    <3>1. \A m \in u.scored \ u.list : Edges(m) \subseteq u.seen
      BY <1>5, <2>1 DEF Expanding
    <3>2. \A e \in u.seen : Useful(e) => e \in u.scored \union u.asked
      BY <1>5, <2>1 DEF Expanding
    <3>3. \A e \in u.asked : Useful(e) => e \in Reachable
      BY <1>5, <2>1, <2>2 DEF Expanding
    <3>4. /\ START_ID \in u.scored /\ START_ID \in u.seen /\ START_ID \notin u.asked
          /\ u.scored \subseteq Reachable \union {START_ID}
      BY <1>5, <2>1 DEF Expanding
    <3> QED
      BY <3>1, <3>2, <3>3, <3>4 DEF Expanding
  <2> QED
    BY <1>5, <2>1, <2>3 DEF CalmInv
<1>8. SearchOK(u)
  BY <1>3, <1>5, <1>7 DEF SearchOK
<1> QED
  BY <1>1, <1>2, <1>6, <1>8, SearchGoesOn DEF u

LEMMA SearchLoadInv ==
  ASSUME GraphInv, NEW t \in graphTasks, SearchLoad(t)
  PROVE  GraphInv'
<1> DEFINE u == [t EXCEPT !.at = "fetch", !.list = InMemory(t.asked), !.asked = Asks(t.asked)]
<1>1. /\ t.op = "ann" /\ t.at = "expand" /\ t.list = {} /\ SearchKeeps /\ UNCHANGED answers
      /\ On(t, u)
  BY DEF SearchLoad
<1>2. /\ t \in GraphSearch /\ SearchOK(t) /\ t.asked \in SUBSET Points
      /\ t.calm => held = {}
  BY <1>1, SearchFacts
<1>3. /\ InMemory(t.asked) \in SUBSET Points /\ Asks(t.asked) \in SUBSET Points
      /\ \A e \in Asks(t.asked) : e \in t.asked /\ IsLive(e)
      /\ \A e \in t.asked : e \in InMemory(t.asked) \/ (Useful(e) => e \in Asks(t.asked))
      /\ held = {} /\ START_ID \notin t.asked => InMemory(t.asked) = {}
  BY <1>2 DEF InMemory, Asks, Useful
<1>4. /\ u.at = "fetch" /\ u.list = InMemory(t.asked) /\ u.seen = t.seen
      /\ u.scored = t.scored /\ u.asked = Asks(t.asked)
      /\ u.gone = t.gone /\ u.reach = t.reach /\ u.calm = t.calm
  BY <1>2 DEF GraphSearch
<1>5. u \in GraphSearch
  BY <1>2, <1>3 DEF GraphSearch
<1> HIDE DEF u
<1>6. ASSUME t.calm
      PROVE  CalmInv(u)
  <2>1. CalmInv(t) /\ Expanding(t, {})
    BY <1>1, <1>2, <1>6 DEF SearchOK, CalmInv
  <2>2. u.list = {}
    BY <1>2, <1>3, <1>4, <1>6, <2>1 DEF Expanding
  <2>3. \A e \in t.asked : Useful(e) => e \in u.asked
    BY <1>3, <1>4, <2>2
  <2>4. u.asked \subseteq t.asked /\ \A e \in u.asked : IsLive(e)
    BY <1>3, <1>4
  <2>5. Expanding(u, {})
    <3>1. /\ \A m \in u.scored \ {} : Edges(m) \subseteq u.seen
          /\ START_ID \in u.scored /\ START_ID \in u.seen
          /\ u.scored \subseteq Reachable \union {START_ID}
      BY <1>4, <2>1 DEF Expanding
    <3>2. \A e \in u.seen : Useful(e) => e \in u.scored \union u.asked
      BY <1>4, <2>1, <2>3 DEF Expanding
    <3>3. /\ \A e \in u.asked : Useful(e) => e \in Reachable
          /\ START_ID \notin u.asked
      BY <2>1, <2>4 DEF Expanding
    <3> QED
      BY <3>1, <3>2, <3>3 DEF Expanding
  <2> QED
    BY <1>4, <2>1, <2>2, <2>4, <2>5 DEF CalmInv
<1>7. SearchOK(u)
  BY <1>2, <1>4, <1>6 DEF SearchOK
<1> QED
  BY <1>1, <1>5, <1>7, SearchGoesOn

LEMMA SearchFetchInv ==
  ASSUME GraphInv, NEW t \in graphTasks, SearchFetch(t)
  PROVE  GraphInv'
<1> DEFINE new == t.list \union (t.asked \intersect present)
           u == [t EXCEPT !.at = IF new = {} THEN "translate" ELSE "expand",
                          !.list = new, !.scored = @ \union new, !.asked = {}]
<1>1. /\ t.op = "ann" /\ t.at = "fetch" /\ SearchKeeps
      /\ \/ On(t, u) /\ UNCHANGED answers
         \/ SearchEnds(t, "failed", {})
  BY DEF SearchFetch
<1>2. /\ GraphTypes /\ t \in GraphSearch /\ SearchOK(t) /\ t.asked \in SUBSET Points
      /\ t.list \in SUBSET Points /\ t.scored \in SUBSET Points
  BY <1>1, SearchFacts
<1>3. /\ new = {} => u.at = "translate"
      /\ new # {} => u.at = "expand"
      /\ u.list = new /\ u.seen = t.seen
      /\ u.scored = t.scored \union new /\ u.asked = {}
      /\ u.gone = t.gone /\ u.reach = t.reach /\ u.calm = t.calm
  BY <1>2 DEF GraphSearch
<1>4. u \in GraphSearch
  <2>1. new \in SUBSET Points
    BY <1>2
  <2> HIDE DEF new
  <2> QED
    BY <1>2, <2>1 DEF GraphSearch
<1> HIDE DEF u
<1>5. ASSUME t.calm
      PROVE  CalmInv(u)
  <2>1. /\ CalmInv(t) /\ Expanding(t, {}) /\ t.list = {} /\ \A e \in t.asked : IsLive(e)
    BY <1>1, <1>2, <1>5 DEF SearchOK, CalmInv
  <2>2. new = t.asked \intersect present
    BY <2>1
  <2> HIDE DEF new
  <2>3. \A e \in t.asked : Useful(e) => e \in new
    BY <2>2 DEF Useful
  <2>4. new \subseteq Reachable
    BY <2>1, <2>2 DEF Useful, Expanding
  <2>5. \A e \in t.seen : Useful(e) => e \in u.scored
    BY <1>3, <2>1, <2>3 DEF Expanding
  <2>6. u.scored \subseteq Reachable \union {START_ID} /\ START_ID \in u.scored
    BY <1>3, <2>1, <2>4 DEF Expanding
  <2>7. CASE new = {}
    <3>1. \A n \in u.scored : \A e \in Edges(n) : Useful(e) => e \in u.scored
      BY <1>3, <2>1, <2>5, <2>7 DEF Expanding
    <3>2. Reachable \subseteq u.scored
      BY <1>2, <2>6, <3>1, ReachFacts
    <3>3. u.scored = Reachable \union {START_ID}
      BY <2>6, <3>2
    <3> QED
      BY <1>3, <2>1, <2>7, <3>3 DEF CalmInv
  <2>8. CASE new # {}
    <3>1. \A m \in u.scored \ u.list : Edges(m) \subseteq u.seen
      BY <1>3, <2>1 DEF Expanding
    <3>2. START_ID \in u.seen
      BY <1>3, <2>1 DEF Expanding
    <3>3. Expanding(u, u.list)
      BY <1>3, <2>5, <2>6, <3>1, <3>2 DEF Expanding
    <3>4. u.list \subseteq u.scored
      BY <1>3
    <3> QED
      BY <1>3, <2>1, <2>8, <3>3, <3>4 DEF CalmInv
  <2> QED
    BY <2>7, <2>8
<1>6. SearchOK(u)
  BY <1>2, <1>3, <1>5 DEF SearchOK
<1>7. CASE On(t, u) /\ UNCHANGED answers
  BY <1>1, <1>4, <1>6, <1>7, SearchGoesOn
<1>8. CASE SearchEnds(t, "failed", {})
  BY <1>1, <1>8, SearchEndsInv
<1> QED
  BY <1>1, <1>7, <1>8

LEMMA SearchTranslateInv ==
  ASSUME GraphInv, NEW t \in graphTasks, SearchTranslate(t)
  PROVE  GraphInv'
<1>1. t.op = "ann" /\ t.at = "translate" /\ SearchKeeps /\ UNCHANGED answers
  BY DEF SearchTranslate
<1>2. PICK best \in SUBSET Translated(t) :
        /\ Cardinality(best) = Min2(t.query.limit, Cardinality(Translated(t)))
        /\ On(t, [t EXCEPT !.at = "keys", !.list = best])
  BY DEF SearchTranslate
<1> DEFINE u == [t EXCEPT !.at = "keys", !.list = best]
<1>3. /\ GraphTypes /\ t \in GraphSearch /\ SearchOK(t) /\ t.scored \in SUBSET Points
      /\ t.query.limit \in Nat
  BY <1>1, SearchFacts DEF GraphQuery
<1>4. best \in SUBSET Points /\ Translated(t) \in SUBSET Points
  BY <1>3 DEF Translated
<1>5. Cardinality(best) <= t.query.limit
  <2>1. Cardinality(Translated(t)) \in Nat
    BY <1>4, PointsFinite, FS_Subset, FS_CardinalityType
  <2> QED
    BY <1>2, <1>3, <2>1 DEF Min2
<1>6. /\ u.at = "keys" /\ u.list = best /\ u.query = t.query
      /\ u.gone = t.gone /\ u.reach = t.reach /\ u.calm = t.calm
  BY <1>3 DEF GraphSearch
<1>7. u \in GraphSearch
  BY <1>3, <1>4 DEF GraphSearch
<1> HIDE DEF u
<1>8. ASSUME t.calm
      PROVE  CalmInv(u)
  <2>1. CalmInv(t) /\ t.scored = Reachable \union {START_ID}
    BY <1>1, <1>3, <1>8 DEF SearchOK, CalmInv
  <2>2. \A e \in Reachable : Useful(e)
    BY <1>3, ReachFacts
  <2>3. Translated(t) = Reachable
    BY <2>1, <2>2 DEF Translated, Useful, IsLive
  <2>4. best \subseteq Reachable /\ Cardinality(best) = Min2(t.query.limit, Cardinality(Reachable))
    BY <1>2, <2>3
  <2> QED
    BY <1>6, <2>1, <2>4 DEF CalmInv
<1>9. best \intersect t.gone = {}
  BY <1>3 DEF SearchOK, Gone, Translated
<1>10. SearchOK(u)
  BY <1>3, <1>5, <1>6, <1>8, <1>9 DEF SearchOK
<1> QED
  BY <1>1, <1>2, <1>7, <1>10, SearchGoesOn DEF u

LEMMA SearchAnswerInv ==
  ASSUME GraphInv, NEW t \in graphTasks, SearchAnswer(t)
  PROVE  GraphInv'
<1> DEFINE ids == t.list \intersect present
<1>1. t.op = "ann" /\ t.at = "keys" /\ SearchKeeps /\ SearchEnds(t, "found", ids)
  BY DEF SearchAnswer
<1>2. /\ GraphTypes /\ SearchOK(t) /\ t.list \in SUBSET Points /\ t.query.limit \in Nat
  BY <1>1, SearchFacts DEF GraphQuery
<1>3. Cardinality(t.list) <= t.query.limit /\ t.list \intersect t.gone = {}
  BY <1>1, <1>2 DEF SearchOK
<1>4. Cardinality(ids) <= t.query.limit
  <2>1. /\ IsFiniteSet(t.list) /\ ids \subseteq t.list
    BY <1>2, PointsFinite, FS_Subset
  <2>2. /\ Cardinality(ids) <= Cardinality(t.list)
        /\ Cardinality(ids) \in Nat /\ Cardinality(t.list) \in Nat
    BY <2>1, FS_Subset, FS_CardinalityType
  <2> QED
    BY <1>2, <1>3, <2>2
<1>5. ASSUME t.calm
      PROVE  /\ ids \subseteq t.reach
             /\ Cardinality(ids) = Min2(t.query.limit, Cardinality(t.reach))
  <2>1. /\ t.reach = Reachable /\ t.list \subseteq Reachable
        /\ Cardinality(t.list) = Min2(t.query.limit, Cardinality(Reachable))
    BY <1>1, <1>2, <1>5 DEF SearchOK, CalmInv
  <2>2. ids = t.list
    BY <1>2, <2>1, ReachFacts DEF Useful
  <2> QED
    BY <2>1, <2>2
<1>6. ids \intersect t.gone = {}
  BY <1>3
<1> HIDE DEF ids
<1> QED
  BY <1>1, <1>4, <1>5, <1>6, SearchEndsInv

LEMMA GraphStutter ==
  ASSUME GraphInv, UNCHANGED <<graph, held, present, changes, searches, graphTasks, answers>>
  PROVE  GraphInv'
<1>1. graphTasks' = graphTasks \union {} /\ {} \in SUBSET GraphSearch /\ \A u \in {} : SearchOK(u)
  OBVIOUS
<1>2. graphTasks \in SUBSET graphTasks /\ Modifying \subseteq graphTasks
  BY DEF Modifying
<1>3. GraphSearchRight' /\ searches' \in Seq(GraphQuery)
  BY DEF GraphInv, GraphSearchRight, GraphTypes
<1> QED
  BY <1>1, <1>2, <1>3, QuietStep

LEMMA GraphNextInv ==
  ASSUME GraphInv, [GraphNext]_graphVars
  PROVE  GraphInv'
<1>1. CASE UNCHANGED graphVars
  BY <1>1, GraphStutter DEF graphVars, channels, graphStore
<1>2. CASE CreateDiskann
  BY <1>2, GraphStutter DEF CreateDiskann, graphStore
<1>3. CASE ReceiveChange
  BY <1>3, ReceiveChangeInv
<1>4. CASE ReceiveAnn
  BY <1>4, ReceiveAnnInv
<1>5. ASSUME NEW t \in graphTasks, GraphWork(t)
      PROVE  GraphInv'
  <2>1. CASE InsertNode(t) \/ InsertPrune(t) \/ InsertFails(t) \/ InsertLink(t) \/ InsertDone(t)
    BY <2>1, InsertNodeInv, InsertPruneInv, InsertFailsInv, InsertLinkInv, InsertDoneInv
  <2>2. CASE DeleteNode(t) \/ DeleteRepair(t) \/ DeleteDone(t)
    BY <2>2, DeleteNodeInv, DeleteRepairInv, DeleteDoneInv
  <2>3. CASE SearchStart(t) \/ SearchExpand(t) \/ SearchLoad(t) \/ SearchFetch(t)
             \/ SearchTranslate(t) \/ SearchAnswer(t)
    BY <2>3, SearchStartInv, SearchExpandInv, SearchLoadInv, SearchFetchInv,
       SearchTranslateInv, SearchAnswerInv
  <2> QED
    BY <1>5, <2>1, <2>2, <2>3 DEF GraphWork
<1> QED
  BY <1>1, <1>2, <1>3, <1>4, <1>5 DEF GraphNext

-----------------------------------------------------------------------------
\* What a DiskANN index stores, loads, answers and counts is what its messages
\* asked for, and its graph stays within its degree, keeps nothing of what
\* was removed and is searched exactly: in the actor of an index and in the
\* graph of a partition, whatever the worker tasks of both interleave.
THEOREM DiskannIndexesKept == MCSpec => []DiskannKept
<1>1. MCInit => DiskannInv /\ GraphInv
  BY DiskannInitInv, GraphInitInv DEF MCInit
<1>2. DiskannInv /\ [MCNext]_runVars => DiskannInv'
  <2>1. [MCNext]_runVars => [DiskannNext]_diskannVars
    BY DEF MCNext, runVars
  <2> QED
    BY <2>1, DiskannNextInv
<1>3. GraphInv /\ [MCNext]_runVars => GraphInv'
  <2>1. [MCNext]_runVars => [GraphNext]_graphVars
    BY DEF MCNext, runVars
  <2> QED
    BY <2>1, GraphNextInv
<1>4. DiskannInv /\ GraphInv => DiskannKept
  BY DiskannAtRest, DiskannLoads, GraphAtRest
     DEF DiskannKept, DiskannRight, DiskannGraphRight, GraphInv
<1> QED
  BY <1>1, <1>2, <1>3, <1>4, PTL DEF MCSpec
=============================================================================
