---------------------------- MODULE DiskannIndex ----------------------------
(***************************************************************************)
(* The DiskANN index (vs_index/diskann/mod.rs) over the backend that reads *)
(* vectors back from the base table (vs_index/diskann/scylla.rs).  The     *)
(* actor resolves partitions in message order and hands every modification *)
(* to the worker pool, where insertions and deletions interleave at their  *)
(* awaits; no permit keeps two operations on the same vector apart.        *)
(*                                                                         *)
(* The graph algorithms are the library's: of an insertion and a deletion  *)
(* the model keeps the calls the library makes to the provider and their   *)
(* order, and of a node its state, not its edges.                          *)
(***************************************************************************)
EXTENDS Integers, Sequences, FiniteSets, SequencesExt

CONSTANTS
  DiskannScripts,   \* sequences of modifications: [op, part, id, ok] (ok: right dimensions)
  VectorIds, Parts, \* primary ids and partition ids
  StoredRows,       \* VectorIds -> what the base table holds: "vector", "short", "none", "no row"
  SizeWrap,         \* 2^w, the width of the size counter
  MaxDiskannFaults  \* bound: source failures and refusals for memory

VARIABLES
  modifies,         \* the channel of modifications
  arcs,             \* partition -> the provider object that serves it, 0 for none
  nextArc,          \* names the next provider object
  size,             \* vectors counted
  nodes,            \* the graph store: <<partition, id>> -> "absent", "live", "dead"
  inflight,         \* <<provider, id>> of vectors held for an insertion
  work,             \* tasks on the workers: [at, op, arc], and their messages' places
  inserted,         \* ids whose insertion completed (ghost)
  removed,          \* ids whose removal was received (ghost)
  stored,           \* the rows of the base table, as StoredRows
  faults

diskannVars == <<modifies, arcs, nextArc, size, nodes, inflight, work, inserted, removed, stored, faults>>

START_ID == 0
Modification ==
  [op : {"add", "remove"}, part : Parts, id : VectorIds, ok : BOOLEAN]
    \union [op : {"remove partition"}, part : Parts, id : {START_ID}, ok : BOOLEAN]
RowKinds == {"vector", "short", "none", "no row"}

ASSUME DiskannAssumption ==
  /\ IsFiniteSet(VectorIds) /\ VectorIds \subseteq Nat \ {START_ID}
  /\ IsFiniteSet(Parts)
  /\ DiskannScripts \subseteq Seq(Modification)
  /\ StoredRows \subseteq [VectorIds -> RowKinds]
  /\ SizeWrap \in Nat /\ Cardinality(Parts \X VectorIds) < SizeWrap
  /\ MaxDiskannFaults \in Nat

DiskannFault == faults < MaxDiskannFaults /\ faults' = faults + 1
Node(t) == <<t.op.part, t.op.id>>
NodeAs(t, state) == nodes' = [nodes EXCEPT ![Node(t)] = state]
Done(t) == work' = work \ {t}
Goes(t, at) == work' = (work \ {t}) \union {[t EXCEPT !.at = at]}

-----------------------------------------------------------------------------
(* The actor: check_memory_allocation, preprocess, dispatch_task.          *)

Spawn(op, arc) ==
  work' = work \union {[at |-> op.op, op |-> op, arc |-> arc, place |-> Len(modifies)]}

\* check_memory_allocation drops a vector when the memory monitor says so.
CannotAllocate == DiskannFault

\* The first vector of a partition creates it, and is its start point.
PreprocessAdd ==
  /\ modifies # <<>> /\ Head(modifies).op = "add"
  /\ modifies' = Tail(modifies)
  /\ LET op == Head(modifies)
     IN \/ /\ arcs[op.part] # 0
           /\ Spawn(op, arcs[op.part])
           /\ UNCHANGED <<arcs, nextArc, faults>>
        \/ /\ arcs[op.part] = 0 /\ op.ok
           /\ arcs' = [arcs EXCEPT ![op.part] = nextArc] /\ nextArc' = nextArc + 1
           /\ Spawn(op, nextArc)
           /\ UNCHANGED faults
        \/ /\ arcs[op.part] = 0 /\ ~op.ok
           /\ UNCHANGED <<arcs, nextArc, work, faults>>
        \/ CannotAllocate /\ UNCHANGED <<arcs, nextArc, work>>
  /\ UNCHANGED <<size, nodes, inflight, inserted, removed, stored>>

PreprocessRemove ==
  /\ modifies # <<>> /\ Head(modifies).op = "remove"
  /\ modifies' = Tail(modifies)
  /\ LET op == Head(modifies)
     IN /\ removed' = removed \union {op.id}
        /\ IF arcs[op.part] # 0 THEN Spawn(op, arcs[op.part]) ELSE UNCHANGED work
  /\ UNCHANGED <<arcs, nextArc, size, nodes, inflight, inserted, stored, faults>>

\* The partition's object lives on with the tasks that hold it.
PreprocessRemovePartition ==
  /\ modifies # <<>> /\ Head(modifies).op = "remove partition"
  /\ modifies' = Tail(modifies)
  /\ arcs' = [arcs EXCEPT ![Head(modifies).part] = 0]
  /\ UNCHANGED <<nextArc, size, nodes, inflight, work, inserted, removed, stored, faults>>

-----------------------------------------------------------------------------
(* An insertion: set_element, the library's search, prune and back edges   *)
(* with a guard over them, and the guard's completion.                     *)

\* GraphStore::create refuses a live node, and revives a dead one empty.
SetElement(t) ==
  /\ t.at = "add"
  /\ IF ~t.op.ok \/ nodes[Node(t)] = "live"
     THEN Done(t) /\ UNCHANGED <<nodes, inflight>>
     ELSE /\ NodeAs(t, "live")
          /\ inflight' = inflight \union {<<t.arc, t.op.id>>}
          /\ Goes(t, "link")
  /\ UNCHANGED <<modifies, arcs, nextArc, size, inserted, removed, stored, faults>>

\* GraphStore::clear empties a live node and reaps a dead one.
Clear(state) == IF state = "dead" THEN "absent" ELSE state

\* Setting the node's edges to none clears it; any other list leaves the
\* node's state alone.
Link(t) ==
  /\ t.at = "link"
  /\ \/ NodeAs(t, Clear(nodes[Node(t)]))
     \/ UNCHANGED nodes
  /\ Goes(t, "complete")
  /\ UNCHANGED <<modifies, arcs, nextArc, size, inflight, inserted, removed, stored, faults>>

\* A source that fails the insertion drops its guard, which undoes the node.
InflightGuardDrop(t) ==
  /\ t.at = "link" /\ DiskannFault
  /\ inflight' = inflight \ {<<t.arc, t.op.id>>}
  /\ NodeAs(t, "absent")
  /\ Done(t)
  /\ UNCHANGED <<modifies, arcs, nextArc, size, inserted, removed, stored>>

InsertCompletes(t) ==
  /\ t.at = "complete"
  /\ inflight' = inflight \ {<<t.arc, t.op.id>>}
  /\ size' = (size + 1) % SizeWrap
  /\ inserted' = inserted \union {t.op.id}
  /\ Done(t)
  /\ UNCHANGED <<modifies, arcs, nextArc, nodes, removed, stored, faults>>

-----------------------------------------------------------------------------
(* A deletion in place: mark the node, repair the graph around it, reap.   *)

MarkDead(t) ==
  /\ t.at = "remove"
  /\ IF nodes[Node(t)] = "live"
     THEN NodeAs(t, "dead") /\ Goes(t, "repair")
     ELSE Done(t) /\ UNCHANGED nodes
  /\ UNCHANGED <<modifies, arcs, nextArc, size, inflight, inserted, removed, stored, faults>>

\* Bug: OnSourceFailure::Fail, the repair gives up.
RepairFails(t) ==
  /\ t.at = "repair"
  /\ \/ Goes(t, "reap") /\ UNCHANGED faults
     \/ DiskannFault /\ Done(t)
  /\ UNCHANGED <<modifies, arcs, nextArc, size, nodes, inflight, inserted, removed, stored>>
\* OnSourceFailure::Skip: the repair does without the vectors it cannot read.
Repair(t) ==
  /\ t.at = "repair"
  /\ \/ UNCHANGED faults
     \/ DiskannFault
  /\ Goes(t, "reap")
  /\ UNCHANGED <<modifies, arcs, nextArc, size, nodes, inflight, inserted, removed, stored>>

Reap(t) ==
  /\ t.at = "reap"
  /\ NodeAs(t, Clear(nodes[Node(t)]))
  /\ size' = (size - 1) % SizeWrap
  /\ Done(t)
  /\ UNCHANGED <<modifies, arcs, nextArc, inflight, inserted, removed, stored, faults>>

-----------------------------------------------------------------------------
(* Reading vectors: ScyllaProvider::load over BaseTableSource::get.  Both  *)
(* ask for a part of what they were asked for, and put the answers back    *)
(* where they belong.                                                      *)

NoVector == <<"none", 0>>
Vec(kind, id) == <<kind, id>>

\* How many of the flags up to i are set: the place of i among the wanted.
Rank(flags, i) == Cardinality({j \in 1..i : flags[j]})
Spread(flags, answers) ==
  [i \in DOMAIN flags |-> IF flags[i] THEN answers[Rank(flags, i)] ELSE NoVector]
Wanted(ids, flags) ==
  [k \in 1..Cardinality({i \in DOMAIN ids : flags[i]}) |->
     ids[CHOOSE i \in DOMAIN ids : flags[i] /\ Rank(flags, i) = k]]

\* What the database answers for keys that have a row, in the order asked; the
\* vector of a row may be null.
FetchVector(id) == IF stored[id] = "none" THEN NoVector ELSE Vec(stored[id], id)
GetVectors(ids) == [k \in DOMAIN ids |-> FetchVector(ids[k])]
SourceGet(ids) ==
  LET has == [i \in DOMAIN ids |-> stored[ids[i]] # "no row"]
  IN Spread(has, GetVectors(Wanted(ids, has)))

Load(arc, part, ids) ==
  LET known(i) == ids[i] = START_ID \/ <<arc, ids[i]>> \in inflight
      asks == [i \in DOMAIN ids |-> ~known(i) /\ nodes[<<part, ids[i]>>] = "live"]
      fetched == Spread(asks, SourceGet(Wanted(ids, asks)))
  IN [i \in DOMAIN ids |->
        IF known(i) THEN Vec("vector", ids[i])
        ELSE IF fetched[i][1] = "short" THEN NoVector ELSE fetched[i]]

\* TranslateIds, then the table: what a search over these candidates answers.
AnnAnswer(arc, part, ids) ==
  {ids[i] : i \in {j \in DOMAIN ids :
      /\ Load(arc, part, ids)[j] # NoVector
      /\ ids[j] # START_ID /\ nodes[<<part, ids[j]>>] = "live"
      /\ stored[ids[j]] # "no row"}}

-----------------------------------------------------------------------------
DiskannInit ==
  /\ modifies \in DiskannScripts /\ stored \in StoredRows
  /\ arcs = [p \in Parts |-> 0] /\ nextArc = 1 /\ size = 0
  /\ nodes = [n \in Parts \X VectorIds |-> "absent"]
  /\ inflight = {} /\ work = {} /\ inserted = {} /\ removed = {} /\ faults = 0

DiskannWork(t) ==
  \/ SetElement(t) \/ Link(t) \/ InflightGuardDrop(t) \/ InsertCompletes(t)
  \/ MarkDead(t) \/ Repair(t) \/ Reap(t)

DiskannNext ==
  \/ PreprocessAdd \/ PreprocessRemove \/ PreprocessRemovePartition
  \/ \E t \in work : DiskannWork(t)

-----------------------------------------------------------------------------
AllAtRest == modifies = <<>> /\ work = {}
LiveNodes == {n \in DOMAIN nodes : nodes[n] = "live"}

\* When no task runs, whatever failed on the way: no tombstone is stranded
\* (OnSourceFailure::Skip), no in-flight copy and no node of a failed insertion
\* is kept (InflightGuard), every vector inserted and not removed is there to be
\* found, and without failures the count is right though an insertion and the
\* removal of its vector run at once.  (A removal that overtakes its insertion
\* leaves the vector in the graph; only the table hides it from searches.)
NothingLeftBehind ==
  AllAtRest =>
    /\ \A n \in DOMAIN nodes : nodes[n] # "dead"
    /\ inflight = {}
    /\ inserted \ removed \subseteq {n[2] : n \in LiveNodes}
    /\ {n[2] : n \in LiveNodes} \subseteq inserted
    /\ faults = 0 => size = Cardinality(LiveNodes)

\* Every vector read is the one of the id at its place, for any candidates in
\* any order, though two layers ask for fewer ids and spread the answers back;
\* and a search never answers a vector without a row or the start point.
LoadAligned ==
  \A p \in Parts : arcs[p] # 0 =>
    \A ids \in TupleOf(VectorIds \union {START_ID}, 1) \union TupleOf(VectorIds \union {START_ID}, 3) :
      /\ \A i \in DOMAIN ids :
           Load(arcs[p], p, ids)[i] =
             IF ids[i] = START_ID \/ <<arcs[p], ids[i]>> \in inflight THEN Vec("vector", ids[i])
             ELSE IF nodes[<<p, ids[i]>>] = "live" /\ stored[ids[i]] = "vector"
             THEN Vec("vector", ids[i]) ELSE NoVector
      /\ AnnAnswer(arcs[p], p, ids) \subseteq {id \in VectorIds : stored[id] \in {"vector", "short", "none"}}

\* What the index keeps and reads is what its messages asked for.
DiskannRight == NothingLeftBehind /\ LoadAligned
=============================================================================
