----------------------------- MODULE MCReplicas -----------------------------
(***************************************************************************)
(* Replication of four kinds of index in one run: partitioned by the       *)
(* primary key, as configured; the same with one reader, two keys and one  *)
(* row id at a time; partitioned by a regular column with two readers; and *)
(* the same with one reader and one more write.                            *)
(***************************************************************************)
EXTENDS MCReplication

VARIABLE instance

Few == INSTANCE Replication WITH
  Key <- {k1, k2}, PkPartition <- [k \in {k1, k2} |-> a], FilterValue <- {}, Updated <- {},
  LogCopies <- 1, MaxFailures <- 1, MaxTimestamp <- MaxTimestamp + 1,
  Reader <- {CHOOSE r \in Reader : TRUE}
Two == INSTANCE Replication WITH
  PartitionKey <- {a, b}, Layout <- "nonpk", PrimaryIncrement <- 2, FilterValue <- {},
  Updated <- {"partition"}, Deletes <- FALSE, LogCopies <- 1, MaxFailures <- 0
One == INSTANCE Replication WITH
  PartitionKey <- {a, b}, Layout <- "nonpk", PrimaryIncrement <- 2, FilterValue <- {},
  Updated <- {"partition"}, Deletes <- FALSE, LogCopies <- 1, MaxFailures <- 0,
  MaxTimestamp <- MaxTimestamp + 1, Reader <- {CHOOSE r \in Reader : TRUE}

ReplicasInit ==
  \/ instance = "pk" /\ ReplicationInit
  \/ instance = "pk, few ids" /\ Few!ReplicationInit
  \/ instance = "nonpk, two readers" /\ Two!ReplicationInit
  \/ instance = "nonpk, one reader" /\ One!ReplicationInit
ReplicasReplicate ==
  /\ UNCHANGED instance
  /\ \/ instance = "pk" /\ Replicate
     \/ instance = "pk, few ids" /\ Few!Replicate
     \/ instance = "nonpk, two readers" /\ Two!Replicate
     \/ instance = "nonpk, one reader" /\ One!Replicate
ReplicasNext ==
  /\ UNCHANGED instance
  /\ \/ instance = "pk" /\ ReplicationNext
     \/ instance = "pk, few ids" /\ Few!ReplicationNext
     \/ instance = "nonpk, two readers" /\ Two!ReplicationNext
     \/ instance = "nonpk, one reader" /\ One!ReplicationNext
ReplicasSpec ==
  /\ ReplicasInit /\ [][ReplicasNext]_<<replicationVars, instance>>
  /\ WF_<<replicationVars, instance>>(ReplicasReplicate)

\* Once the readers have caught up the table agrees with the base table: of an
\* index by the primary key but for the last writes that were refused or could
\* not be fetched (Accounted), of the two others without exception (Converged).
AllAccounted ==
  CASE instance = "pk" -> Accounted
    [] instance = "pk, few ids" -> Few!Accounted
    [] instance = "nonpk, two readers" -> Two!Converged
    [] OTHER -> One!Converged

\* The writes come to an end, so the table gets to agree with the base table,
\* with the same exceptions, and stays so: nobody waits for good on the permits
\* or on the channel (consumer.rs, monitor_items.rs).
AllSettled ==
  CASE instance = "pk, few ids" -> \A k \in {k1, k2} : Few!Settled(k)
    [] instance = "pk" -> \A k \in Key : Settled(k)
    [] instance = "nonpk, two readers" -> \A k \in Key : Two!InSync(k)
    [] OTHER -> \A k \in Key : One!InSync(k)
AllCatchUp == <>[]AllSettled
=============================================================================
