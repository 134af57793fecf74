--------------------------- MODULE MCVectorIndexes --------------------------
(***************************************************************************)
(* The vector indexes a node runs itself, one at a time: Usearch in two    *)
(* instances, of which one reserves so little that adds on their way can   *)
(* fill it, the other so much that a removal makes a reservation           *)
(* unnecessary while the actor waits for its permit; the actor of DiskANN; *)
(* and a DiskANN graph with its searches.                                  *)
(***************************************************************************)
EXTENDS Usearch, DiskannGraph

VARIABLE instance
runVars == <<usearchVars, diskannVars, graphVars, instance>>

Roomy == INSTANCE Usearch WITH Increment <- Increment + 1, MaxModify <- MaxModify - 1

\* A vector added and removed around the removal of its partition, and
\* vectors of wrong dimensions before and after a right one.
Change(op, id, ok) == [op |-> op, part |-> 1, id |-> id, ok |-> ok]
MCDiskannScripts ==
  {<<Change("add", 1, TRUE), Change("remove", 1, TRUE), Change("remove partition", 0, TRUE),
     Change("add", 2, TRUE)>>,
   <<Change("add", 1, FALSE), Change("add", 2, TRUE), Change("add", 1, FALSE), Change("remove", 1, TRUE)>>}
MCStoredRows == [{1, 2} -> {"vector", "short", "none", "no row"}]

\* A vector removed beside another, one that comes back, and the searches
\* that are refused.
Row(op, id) == [op |-> op, id |-> id]
Ann(dim, target, limit) == [op |-> "ann", dim |-> dim, target |-> target, limit |-> limit]
MCGraphScripts ==
  {[changes |-> <<Row("add", 1), Row("add", 2), Row("remove", 1)>>, searches |-> <<Ann(1, FALSE, 1)>>],
   [changes |-> <<Row("add", 1), Row("remove", 1), Row("add", 1)>>, searches |-> <<Ann(1, FALSE, 2)>>],
   [changes |-> <<Row("add", 1)>>,
    searches |-> <<Ann(2, FALSE, 1), Ann(1, TRUE, 1), [Ann(1, FALSE, 1) EXCEPT !.op = "filtered ann"]>>]}
MCGraphConfigs ==
  {[space |-> "hamming", expansion_search |-> 1], [space |-> "cosine", expansion_search |-> 0],
   [space |-> "dot product", expansion_search |-> 1]}

-----------------------------------------------------------------------------
DiskannRests ==
  /\ modifies = <<>> /\ stored = [id \in VectorIds |-> "no row"]
  /\ arcs = [p \in Parts |-> 0] /\ nextArc = 1 /\ size = 0
  /\ nodes = [n \in Parts \X VectorIds |-> "absent"]
  /\ inflight = {} /\ work = {} /\ inserted = {} /\ removed = {} /\ faults = 0
GraphRests ==
  /\ params = "refused" /\ changes = <<>> /\ searches = <<>>
  /\ partition = FALSE /\ present = {} /\ held = {} /\ graph = [id \in Points |-> Absent]
  /\ graphTasks = {} /\ answers = {} /\ graphFaults = 0

Instances == {"usearch", "roomy usearch", "diskann", "graph"}
MCInit ==
  /\ instance \in Instances
  /\ UsearchInit
  /\ IF instance = "diskann" THEN DiskannInit ELSE DiskannRests
  /\ IF instance = "graph" THEN GraphInit ELSE GraphRests

MCActor ==
  /\ UNCHANGED <<instance, diskannVars, graphVars>>
  /\ \/ instance = "usearch" /\ Actor
     \/ instance = "roomy usearch" /\ Roomy!Actor
MCWorkerStep(w) ==
  /\ instance \in {"usearch", "roomy usearch"}
  /\ UNCHANGED <<instance, diskannVars, graphVars>> /\ WorkerStep(w)
\* DiskANN has done all it was sent.
MCDone ==
  \/ instance = "diskann" /\ AllAtRest
  \/ instance = "graph" /\ params = "refused"
  \/ instance = "graph" /\ graphTasks = {} /\ changes = <<>> /\ searches = <<>>
MCNext ==
  /\ UNCHANGED instance
  /\ \/ instance = "usearch" /\ UsearchNext /\ UNCHANGED <<diskannVars, graphVars>>
     \/ instance = "roomy usearch" /\ Roomy!UsearchNext /\ UNCHANGED <<diskannVars, graphVars>>
     \/ instance = "diskann" /\ DiskannNext /\ UNCHANGED <<usearchVars, graphVars>>
     \/ instance = "graph" /\ GraphNext /\ UNCHANGED <<usearchVars, diskannVars>>
     \/ MCDone /\ UNCHANGED <<usearchVars, diskannVars, graphVars>>
MCSpec ==
  /\ MCInit /\ [][MCNext]_runVars
  /\ WF_runVars(MCActor)
  /\ \A w \in Worker : WF_runVars(MCWorkerStep(w))

\* What DiskANN indexes keep, read and answer is what their messages asked
\* for: the actor's life of a node, and the edges and searches of a graph.
DiskannKept == DiskannRight /\ DiskannGraphRight
=============================================================================
