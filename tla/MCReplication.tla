--------------------------- MODULE MCReplication ---------------------------
(***************************************************************************)
(* Small instances of Replication.                                         *)
(***************************************************************************)
EXTENDS Replication, TLC

CONSTANTS k1, k2, a, b

\* Layout "pk": all keys in one partition.
OnePartition == [k \in Key |-> a]

\* The readers are alike; in layout "nonpk" so are the partition keys.
Symmetry == Permutations(Reader)
NonPkSymmetry == Permutations(PartitionKey) \union Permutations(Reader)
=============================================================================
