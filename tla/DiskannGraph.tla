---------------------------- MODULE DiskannGraph ----------------------------
(***************************************************************************)
(* The graph of one partition of a DiskANN index and the searches over it  *)
(* (vs_index/diskann/scylla.rs, the searches of vs_index/diskann/mod.rs).  *)
(* DiskannIndex follows the life of a node; here a node has edges, which   *)
(* insertions, deletions and searches read and write one list at a time.   *)
(*                                                                         *)
(* Which edges an insertion or a repair chooses is the library's business: *)
(* any list over the vectors the provider could give it.  Distances are    *)
(* left out, and the search list is as long as the instance has vectors.   *)
(***************************************************************************)
EXTENDS DiskannIndex

CONSTANTS
  GraphScripts,     \* changes of the base table, [op, id], and [op, dim, target, limit] of searches
  GraphConfigs,     \* configurations: [space, expansion_search]
  MaxDegree,        \* edges a list may have
  Dim,              \* dimensions of the index
  MaxGraphFaults    \* bound: failures of the vector source

VARIABLES
  params,           \* "none" before the index is created, then "accepted" or "refused"
  changes,          \* changes the base table has yet to see
  searches,         \* searches yet to be received
  partition,        \* whether the partition's graph exists
  graph,            \* the nodes: state and edges; the start point is always live
  held,             \* vectors held in memory for an insertion
  present,          \* ids whose row the table and the database have
  graphTasks,       \* what runs on the workers
  answers,          \* what the searches answered
  graphFaults

graphStore == <<graph, held>>
channels == <<params, changes, searches, partition, present>>
graphVars == <<channels, graphStore, graphTasks, answers, graphFaults>>

GraphChange == [op : {"add", "remove"}, id : VectorIds]
GraphQuery == [op : {"ann", "filtered ann"}, dim : Nat, target : BOOLEAN, limit : Nat]

ASSUME GraphAssumption ==
  /\ \A s \in GraphScripts : s.changes \in Seq(GraphChange) /\ s.searches \in Seq(GraphQuery)
  /\ MaxDegree \in Nat
  /\ MaxGraphFaults \in Nat

Min2(x, y) == IF x < y THEN x ELSE y
Points == VectorIds \union {START_ID}
Edges(id) == ToSet(graph[id].edges)
IsLive(id) == id # START_ID /\ graph[id].state = "live"

-----------------------------------------------------------------------------
(* InmemGraphStore and NodeAccessor: every operation on one list is atomic. *)

Absent == [state |-> "absent", edges |-> <<>>]
Create(id) == graph' = [graph EXCEPT ![id] = [state |-> "live", edges |-> <<>>]]
Abandon(id) == graph' = [graph EXCEPT ![id] = Absent]

\* A list takes no edge twice, and keeps as many as the degree allows.
Extend(list, e) == IF e \in ToSet(list) THEN list ELSE Append(list, e)
Capped(list) == SubSeq(list, 1, Min2(MaxDegree, Len(list)))

\* Writes to a node that is not there are dropped; no edges reap a dead node.
SetNeighbors(id, list) ==
  graph' = IF list = <<>> /\ graph[id].state = "dead" THEN [graph EXCEPT ![id] = Absent]
           ELSE IF graph[id].state = "absent" THEN graph
           ELSE [graph EXCEPT ![id].edges = Capped(list)]
AppendVector(id, e) ==
  graph' = IF graph[id].state = "absent" THEN graph
           ELSE [graph EXCEPT ![id].edges = Capped(Extend(@, e))]
\* What load asks the source for, and what it has without it.
InMemory(ids) == ids \intersect (held \union {START_ID})
Asks(ids) == {id \in ids \ InMemory(ids) : IsLive(id)}

-----------------------------------------------------------------------------
(* The factory and the actor.                                              *)

\* DiskannParams: no Hamming distance, and neither search list nor beam of
\* length zero.
ParamsOf(cfg) ==
  IF cfg.space = "hamming" \/ cfg.expansion_search = 0 THEN "refused" ELSE "accepted"
CreateDiskann ==
  /\ params = "none"
  /\ \E cfg \in GraphConfigs : params' = ParamsOf(cfg)
  /\ UNCHANGED <<changes, searches, partition, present, graphStore, graphTasks, answers, graphFaults>>
Serving == params = "accepted"

\* Searches note that the graph or the table moved under them.
Disturb(tasks) == {IF t.op = "ann" THEN [t EXCEPT !.calm = FALSE] ELSE t : t \in tasks}
Modifying == {t \in graphTasks : t.op # "ann"}

\* A row comes or goes, and its message reaches the actor, which starts a
\* task.  The first vector creates the partition; a partition that is not
\* there has nothing to remove.
ReceiveChange ==
  /\ Serving /\ changes # <<>>
  /\ changes' = Tail(changes)
  /\ LET c == Head(changes)
     IN /\ present' = IF c.op = "add" THEN present \union {c.id} ELSE present \ {c.id}
        /\ partition' = (partition \/ c.op = "add")
        /\ graphTasks' = Disturb(graphTasks) \union
             (IF partition' THEN {[op |-> c.op, id |-> c.id, at |-> "start", list |-> {}]} ELSE {})
  /\ UNCHANGED <<params, searches, graphStore, answers, graphFaults>>

Reply(q, kind, ids) == [query |-> q, kind |-> kind, ids |-> ids]
Answers(q, kind, ids) == answers' = answers \union {Reply(q, kind, ids)}

\* Ids that no change on its way can bring back.
Gone == {id \in VectorIds : /\ ~IsLive(id)
                            /\ \A t \in Modifying : t.id # id
                            /\ \A i \in DOMAIN changes : changes[i].id # id}
\* What a search that nothing disturbs can find.
Step(S) == S \union UNION {{e \in Edges(n) : IsLive(e) /\ e \in present} : n \in S}
Reachable ==
  LET reach[k \in 0..Cardinality(VectorIds)] == IF k = 0 THEN {START_ID} ELSE Step(reach[k - 1])
  IN reach[Cardinality(VectorIds)] \ {START_ID}

\* preprocess: what needs no partition is answered by the actor itself.
ReceiveAnn ==
  /\ Serving /\ searches # <<>>
  /\ searches' = Tail(searches)
  /\ LET q == Head(searches)
     IN CASE q.op = "filtered ann" -> Answers(q, "unsupported", {}) /\ UNCHANGED graphTasks
          [] q.op = "ann" /\ ~partition -> Answers(q, "found", {}) /\ UNCHANGED graphTasks
          [] OTHER ->
               /\ graphTasks' = graphTasks \union
                    {[op |-> "ann", id |-> START_ID, at |-> "start", list |-> {}, query |-> q,
                      seen |-> {START_ID}, scored |-> {START_ID}, asked |-> {},
                      gone |-> Gone, reach |-> Reachable, calm |-> Modifying = {}]}
               /\ UNCHANGED answers
  /\ UNCHANGED <<params, changes, partition, present, graphStore, graphFaults>>

Ended(t) == graphTasks' = Disturb(graphTasks \ {t})
Becomes(t, u) == graphTasks' = Disturb(graphTasks \ {t}) \union {u}
GraphFault == graphFaults < MaxGraphFaults /\ graphFaults' = graphFaults + 1

-----------------------------------------------------------------------------
(* Insertion: the node, its pruned edges, an edge back from each of them,  *)
(* and the guard over all of it.                                           *)

\* set_element refuses a live node.
InsertNode(t) ==
  /\ t.op = "add" /\ t.at = "start"
  /\ IF IsLive(t.id)
     THEN Ended(t) /\ UNCHANGED graphStore
     ELSE Create(t.id) /\ held' = held \union {t.id} /\ Becomes(t, [t EXCEPT !.at = "prune"])
  /\ UNCHANGED <<channels, answers, graphFaults>>

\* fill loads the candidates; pruning keeps some of those that have a vector.
InsertPrune(t) ==
  /\ t.op = "add" /\ t.at = "prune"
  /\ \E list \in SUBSET (Points \ {t.id}) :
       /\ Cardinality(list) <= MaxDegree
       /\ list \subseteq InMemory(list) \union (Asks(list) \intersect present)
       /\ SetNeighbors(t.id, SetToSeq(list))
       /\ Becomes(t, [t EXCEPT !.at = "link", !.list = list])
  /\ UNCHANGED <<channels, held, answers, graphFaults>>

\* The strategies of an insertion and of a deletion: what they do when the
\* source cannot serve the candidates to prune from.  A deletion repairs with
\* what it has, so that it always gets to reap its node.
OnSourceFailure(op) == IF op = "add" THEN "Fail" ELSE "Skip"

\* The insertion fails, and the guard undoes the node; edges to it may stay
\* behind.
InsertFails(t) ==
  /\ t.at \in {"prune", "link"} /\ OnSourceFailure(t.op) = "Fail" /\ GraphFault
  /\ Abandon(t.id) /\ held' = held \ {t.id}
  /\ Ended(t)
  /\ UNCHANGED <<channels, answers>>

\* A list with room gets one more edge; a full one is pruned anew.
InsertLink(t) ==
  /\ t.op = "add" /\ t.at = "link"
  /\ \E n \in t.list :
       /\ \/ AppendVector(n, t.id)
          \/ /\ Len(graph[n].edges) >= MaxDegree
             /\ \E keep \in SUBSET (Edges(n) \union {t.id}) : SetNeighbors(n, SetToSeq(keep))
       /\ Becomes(t, [t EXCEPT !.list = @ \ {n}])
  /\ UNCHANGED <<channels, held, answers, graphFaults>>

InsertDone(t) ==
  /\ t.op = "add" /\ t.at = "link" /\ t.list = {}
  /\ held' = held \ {t.id}
  /\ Ended(t)
  /\ UNCHANGED <<channels, graph, answers, graphFaults>>

-----------------------------------------------------------------------------
(* Deletion in place, one hop: the dead node keeps its edges until the     *)
(* nodes they lead to have been repaired.                                  *)

DeleteNode(t) ==
  /\ t.op = "remove" /\ t.at = "start"
  /\ IF IsLive(t.id)
     THEN /\ graph' = [graph EXCEPT ![t.id].state = "dead"]
          /\ Becomes(t, [t EXCEPT !.at = "repair", !.list = Edges(t.id)])
     ELSE Ended(t) /\ UNCHANGED graph
  /\ UNCHANGED <<channels, held, answers, graphFaults>>

DeleteRepair(t) ==
  /\ t.op = "remove" /\ t.at = "repair"
  /\ \E n \in t.list :
       /\ IF t.id \in Edges(n)
          THEN \E list \in SUBSET ((Edges(n) \union Edges(t.id)) \ {t.id, n}) :
                 SetNeighbors(n, SetToSeq(list))
          ELSE UNCHANGED graph
       /\ Becomes(t, [t EXCEPT !.list = @ \ {n}])
  /\ UNCHANGED <<channels, held, answers, graphFaults>>

DeleteDone(t) ==
  /\ t.op = "remove" /\ t.at = "repair" /\ t.list = {}
  /\ SetNeighbors(t.id, <<>>)
  /\ Ended(t)
  /\ UNCHANGED <<channels, held, answers, graphFaults>>

-----------------------------------------------------------------------------
(* A search: checks, rounds of expand_beam over all points scored and not  *)
(* expanded, translation of the ids, and their primary keys.               *)

On(t, u) == graphTasks' = (graphTasks \ {t}) \union {u}
SearchEnds(t, kind, ids) ==
  /\ graphTasks' = graphTasks \ {t}
  /\ answers' = answers \union
       {[query |-> t.query, kind |-> kind, ids |-> ids,
         gone |-> t.gone, reach |-> t.reach, calm |-> t.calm]}
SearchKeeps == UNCHANGED <<channels, graphStore>>

ValidDimensions(q) == q.dim = Dim
SearchStart(t) ==
  /\ t.op = "ann" /\ t.at = "start"
  /\ IF ~ValidDimensions(t.query) THEN SearchEnds(t, "dimensions", {})
     ELSE IF t.query.target THEN SearchEnds(t, "target column", {})
     ELSE On(t, [t EXCEPT !.at = "expand", !.list = {START_ID}]) /\ UNCHANGED answers
  /\ SearchKeeps /\ UNCHANGED graphFaults

\* The predicate claims a candidate the first time it is met.
SearchExpand(t) ==
  /\ t.op = "ann" /\ t.at = "expand"
  /\ \E n \in t.list :
       On(t, [t EXCEPT !.list = @ \ {n}, !.seen = @ \union Edges(n),
                       !.asked = @ \union (Edges(n) \ t.seen)])
  /\ SearchKeeps /\ UNCHANGED <<answers, graphFaults>>

\* load: what is held in memory, and a request for the live rest ...
SearchLoad(t) ==
  /\ t.op = "ann" /\ t.at = "expand" /\ t.list = {}
  /\ On(t, [t EXCEPT !.at = "fetch", !.list = InMemory(t.asked), !.asked = Asks(t.asked)])
  /\ SearchKeeps /\ UNCHANGED <<answers, graphFaults>>

\* ... which the source answers with the rows there are by then, or not at all.
SearchFetch(t) ==
  /\ t.op = "ann" /\ t.at = "fetch"
  /\ \/ LET new == t.list \union (t.asked \intersect present)
        IN On(t, [t EXCEPT !.at = IF new = {} THEN "translate" ELSE "expand",
                           !.list = new, !.scored = @ \union new, !.asked = {}])
        /\ UNCHANGED <<answers, graphFaults>>
     \/ t.asked # {} /\ GraphFault /\ SearchEnds(t, "failed", {})
  /\ SearchKeeps

Translated(t) == {id \in t.scored : IsLive(id)}
SearchTranslate(t) ==
  /\ t.op = "ann" /\ t.at = "translate"
  /\ \E best \in SUBSET Translated(t) :
       /\ Cardinality(best) = Min2(t.query.limit, Cardinality(Translated(t)))
       /\ On(t, [t EXCEPT !.at = "keys", !.list = best])
  /\ SearchKeeps /\ UNCHANGED <<answers, graphFaults>>

SearchAnswer(t) ==
  /\ t.op = "ann" /\ t.at = "keys"
  /\ SearchEnds(t, "found", t.list \intersect present)
  /\ SearchKeeps /\ UNCHANGED graphFaults

-----------------------------------------------------------------------------
GraphInit ==
  /\ params = "none"
  /\ \E s \in GraphScripts : changes = s.changes /\ searches = s.searches
  /\ partition = FALSE /\ present = {} /\ held = {}
  /\ graph = [id \in Points |-> IF id = START_ID THEN [Absent EXCEPT !.state = "live"] ELSE Absent]
  /\ graphTasks = {} /\ answers = {} /\ graphFaults = 0

GraphWork(t) ==
  \/ InsertNode(t) \/ InsertPrune(t) \/ InsertFails(t) \/ InsertLink(t) \/ InsertDone(t)
  \/ DeleteNode(t) \/ DeleteRepair(t) \/ DeleteDone(t)
  \/ SearchStart(t) \/ SearchExpand(t) \/ SearchLoad(t) \/ SearchFetch(t)
  \/ SearchTranslate(t) \/ SearchAnswer(t)

GraphNext ==
  \/ CreateDiskann \/ ReceiveChange \/ ReceiveAnn
  \/ \E t \in graphTasks : GraphWork(t)

-----------------------------------------------------------------------------
\* No list outgrows the degree of the index, whoever writes to it, and when
\* nothing runs no node is dead, no vector is held, and an absent node has no
\* edges: what insertions and deletions of the same ids leave of each other.
GraphKept ==
  /\ \A id \in Points : Len(graph[id].edges) <= MaxDegree /\ IsInjective(graph[id].edges)
  /\ Modifying = {} => held = {} /\ \A id \in Points : graph[id].state # "dead"
  /\ \A id \in Points : graph[id].state = "absent" => graph[id].edges = <<>>

\* A search answers no more than its limit and nothing that was gone when it
\* began and could not come back; if nothing was changed while it ran, it
\* answers what can be reached from the start point, up to the limit.
GraphSearchRight ==
  \A a \in {b \in answers : b.kind = "found" /\ "calm" \in DOMAIN b} :
    /\ Cardinality(a.ids) <= a.query.limit
    /\ a.ids \intersect a.gone = {}
    /\ a.calm => /\ a.ids \subseteq a.reach
                 /\ Cardinality(a.ids) = Min2(a.query.limit, Cardinality(a.reach))

\* The graph of an index is kept in bounds and searched exactly (diskann).
DiskannGraphRight == GraphKept /\ GraphSearchRight
=============================================================================
