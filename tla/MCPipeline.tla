----------------------------- MODULE MCPipeline -----------------------------
(***************************************************************************)
(* Small instances of Table and Pipeline.                                  *)
(***************************************************************************)
EXTENDS Pipeline, TLC

CONSTANTS k1, k2, a, b

\* Layout "pk": each key in a partition of its own.
PartitionPerKey == k1 :> a @@ k2 :> b

\* Vectors are only compared for equality, so they may be exchanged; in
\* layout "nonpk" so may keys and partition keys.
Symmetry == Permutations(Vector)
NonPkSymmetry == Permutations(Key) \union Permutations(PartitionKey)
                   \union Permutations(Vector)
=============================================================================
