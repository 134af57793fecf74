------------------------------ MODULE Pipeline ------------------------------
(***************************************************************************)
(* The way of a row from the database reader to an answered search: the    *)
(* monitor-items actor applies the row to the table and sends the          *)
(* operations over a bounded channel (monitor_items.rs), the index actor   *)
(* applies them to its partitions in order, and a search resolves its      *)
(* partition, reads it and translates what it found back to primary keys   *)
(* through the table (vs_index/usearch.rs).  The table runs ahead of the   *)
(* index, and searches run between any two steps.                          *)
(*                                                                         *)
(* The index actor is seen here through its effects: the permits that keep *)
(* the effects in order and apart are the subject of module Usearch.  The  *)
(* index library's data structure is external: a set of entries.           *)
(***************************************************************************)
EXTENDS Table

CONSTANTS
  ChannelSize,  \* slots of the channel to the index (perf::channel_size)
  Lossy         \* may the index refuse an add (no memory, library error) or
                \* fail a removal?

ASSUME PipelineAssumption ==
  /\ ChannelSize \in Nat \ {0}
  /\ Lossy \in BOOLEAN

VARIABLES
  modify,       \* the channel of VsIndexModify messages
  partitions,   \* partition id -> its entries, None when it does not exist
  search        \* the search in flight, or None

allVars == <<vars, modify, partitions, search>>

IndexPartition == PartitionIdx \union {GlobalPartition}
Entry(op) == [id |-> op.id, vector |-> op.vector]

-----------------------------------------------------------------------------
(* monitor_items.rs                                                        *)

\* One row from the database readers.  A failed call is logged and dropped.
ProcessRow ==
  /\ Modify
  /\ UNCHANGED <<modify, partitions, search>>

\* process_operations sends one operation and waits while the channel is full.
SendOperation ==
  /\ operations # <<>>
  /\ Len(modify) < ChannelSize
  /\ modify' = Append(modify, Head(operations))
  /\ operations' = Tail(operations)
  /\ UNCHANGED <<tableVars, partitions, search>>

-----------------------------------------------------------------------------
(* The index actor.                                                        *)

Receive(kinds) ==
  /\ modify # <<>>
  /\ Head(modify).op \in kinds
  /\ modify' = Tail(modify)
  /\ UNCHANGED <<vars, search>>

\* An add creates the partition it goes to.
ReceiveAdd ==
  LET op == Head(modify)
  IN /\ Receive({"AddVector"})
     /\ partitions' = [partitions EXCEPT ![op.partition] =
          (IF @ = None THEN {} ELSE @) \union {Entry(op)}]

\* check_memory_allocation drops the add before it reaches the partition; an
\* add that fails in the library leaves an empty partition behind.
RefuseAdd ==
  LET op == Head(modify)
  IN /\ Lossy
     /\ Receive({"AddVector"})
     /\ \/ UNCHANGED partitions
        \/ partitions' = [partitions EXCEPT
             ![op.partition] = IF @ = None THEN {} ELSE @]

\* A removal from a partition that does not exist is dropped.
ReceiveRemove ==
  LET op == Head(modify)
  IN /\ Receive({"RemoveBeforeAdd", "RemoveValue"})
     /\ partitions' = [partitions EXCEPT ![op.partition] =
          IF @ = None THEN None ELSE {e \in @ : e.id # op.id}]

FailRemove ==
  /\ Lossy
  /\ Receive({"RemoveBeforeAdd", "RemoveValue"})
  /\ UNCHANGED partitions

ReceiveRemovePartition ==
  /\ Receive({"RemovePartition"})
  /\ partitions' = [partitions EXCEPT ![Head(modify).partition] = None]

-----------------------------------------------------------------------------
(* A search.  It keeps the partition object it resolved (an Arc), and no   *)
(* modification runs on that object while it is in flight, so what it will *)
(* read is fixed when it is dispatched.  The table moves on meanwhile.     *)

StartSearch(key) ==
  LET p == TargetPartition(key)
  IN /\ search = None
     /\ p # None
     /\ partitions[p] # None
     /\ search' = [key |-> key, partition |-> p, entries |-> partitions[p]]
     /\ UNCHANGED <<vars, modify, partitions>>

\* What collect_results keeps, if it runs now.
Answer == {e \in search.entries : IsValidPrimaryId(e.id)}

FinishSearch ==
  /\ search # None
  /\ search' = None
  /\ UNCHANGED <<vars, modify, partitions>>

-----------------------------------------------------------------------------
PipelineInit ==
  /\ Init
  /\ modify = <<>>
  /\ partitions = [p \in IndexPartition |-> None]
  /\ search = None

PipelineNext ==
  \/ ProcessRow
  \/ SendOperation
  \/ ReceiveAdd
  \/ RefuseAdd
  \/ ReceiveRemove
  \/ FailRemove
  \/ ReceiveRemovePartition
  \/ \E key \in PartitionKey : StartSearch(key)
  \/ FinishSearch

PipelineSpec == PipelineInit /\ [][PipelineNext]_allVars

-----------------------------------------------------------------------------
(* Properties.                                                             *)

EntryType == [id : PrimaryId, vector : Vector]
SearchType ==
  [key : PartitionKey, partition : IndexPartition, entries : SUBSET EntryType]

\* Types of the channel, the partitions and the search.
PipelineTypeOK ==
  /\ modify \in Seq(Operation)
  /\ partitions \in [IndexPartition -> (SUBSET EntryType) \union {None}]
  /\ search \in SearchType \union {None}

Row(id) == values_timestamps[id.idx]

\* The row has changed fewer times since than there are epochs; the comment
\* on Epoch in primary_id.rs assumes it of every id still in use.
NotLapped(id) == Row(id).epoch < id.epoch + EpochCount

\* What a search may return for an entry: a row that is not deleted, with the
\* vector last written to it, from the partition that was asked for.
IsCurrent(e) ==
  /\ ~Row(e.id).tombstone
  /\ e.vector = indexed[e.id.idx]
  /\ Layout # "global" =>
       ids[e.id.idx] # None /\ keys[ids[e.id.idx]] = search.key

\* Whatever happened since a search resolved its partition (updates, deletes,
\* rows moving, the partition dropped and its id given to another key, adds
\* and removals the index lost), each row it would answer with now is current.
\* The epoch check of collect_results is all that ensures it.
SearchSound ==
  search # None => \A e \in Answer : NotLapped(e.id) => IsCurrent(e)

\* The entries the index should have for partition p.
LiveEntries(p) ==
  {[id |-> [idx |-> i, epoch |-> values_timestamps[i].epoch],
    vector |-> indexed[i]] :
     i \in {j \in PrimaryIdx : /\ ~values_timestamps[j].tombstone
                               /\ CurPartition(j) = p}}

\* Once the channel has drained, an index that lost nothing holds exactly the
\* live rows, each in its partition with its current id: no stale entry
\* survives an update, and a dropped and reused partition id loses no row.
IndexExact ==
  operations = <<>> /\ modify = <<>> /\ ~Lossy =>
    \A p \in IndexPartition :
      (IF partitions[p] = None THEN {} ELSE partitions[p]) = LiveEntries(p)
=============================================================================
