----------------------------- MODULE NodeState -----------------------------
(***************************************************************************)
(* The node_state actor (node_state.rs): the status of the node and of     *)
(* every index it knows, derived from events.  One action per event; the   *)
(* channel that carries the events is part of Lifecycle.                   *)
(*                                                                         *)
(* A description of an index (IndexMetadata) is a record with the fields   *)
(* key, version, kind, group (keyspace, table and target columns) and      *)
(* options (everything else).                                              *)
(***************************************************************************)
EXTENDS Naturals, Sequences

CONSTANT Metas      \* the descriptions of indexes that can ever exist

VARIABLES status,   \* NodeStatus
          initial,  \* initial_idxs: a set in a sequence, empty before discovery
          idxs      \* the status of every discovered index, by key

nodeVars == <<status, initial, idxs>>

Keys == {m.key : m \in Metas}
NodeStatus == {"Initializing", "ConnectingToDb", "DiscoveringIndexes",
               "IndexingEmbeddings", "Serving"}
IndexStatus == {"Initializing", "FullScanning", "Serving"}

NodeInit ==
    /\ status = "Initializing"
    /\ initial = <<>>
    /\ idxs = << >>

KeysOf(S) == {m.key : m \in S}

\* The statuses of keys that stay are kept, whatever became of the index.
UpdateIndexes(S) ==
    [k \in KeysOf(S) |-> IF k \in DOMAIN idxs THEN idxs[k] ELSE "Initializing"]

OnConnectingToDb ==
    /\ status' = "ConnectingToDb"
    /\ UNCHANGED <<initial, idxs>>

\* What a node resumes after it was connecting.
ResumedStatus ==
    IF initial = <<>> THEN "DiscoveringIndexes"
    ELSE IF initial[1] = {} THEN "Serving" ELSE "IndexingEmbeddings"

OnDiscoveringIndexes ==
    /\ status' = IF status \in {"Initializing", "ConnectingToDb"}
                 THEN ResumedStatus ELSE status
    /\ UNCHANGED <<initial, idxs>>

\* Initial indexes that are gone, or were replaced, are not waited for.
StillInitial(S) == IF initial = <<>> THEN S ELSE initial[1] \cap S

OnIndexesDiscovered(S) ==
    /\ initial' = << StillInitial(S) >>
    /\ idxs' = UpdateIndexes(S)
    /\ status' = IF StillInitial(S) = {} THEN "Serving" ELSE "IndexingEmbeddings"

OnFullScanStarted(m) ==
    /\ idxs' = IF m.key \in DOMAIN idxs
               THEN [idxs EXCEPT ![m.key] = "FullScanning"] ELSE idxs
    /\ UNCHANGED <<status, initial>>

\* Bug: the first initial index that is built opens the node.
AllBuiltAny(S, m) == S \ {m} # S

AllBuilt(S, m) == S \ {m} = {}

\* The event names an index by its key: it counts for whatever index has
\* the key now.
OnFullScanFinished(m) ==
    /\ idxs' = IF m.key \in DOMAIN idxs
               THEN [idxs EXCEPT ![m.key] = "Serving"] ELSE idxs
    /\ \/ /\ initial = <<>>
          /\ UNCHANGED <<status, initial>>
       \/ /\ initial # <<>>
          /\ initial' = << initial[1] \ {m} >>
          /\ status' = IF AllBuilt(initial[1], m) THEN "Serving" ELSE status

=============================================================================
