-------------------------- MODULE OpenSearchIndex --------------------------
(***************************************************************************)
(* The index kept in an external OpenSearch server                         *)
(* (vs_index/opensearch.rs): the actor creates the remote index, then takes *)
(* one message at a time, waits for one of two permits and hands it to a   *)
(* task that sends one request.  Two tasks run at once, so their requests  *)
(* reach the server in any order; a failed request is logged and forgotten. *)
(* The server is external: a set of documents named by primary id.         *)
(***************************************************************************)
EXTENDS Integers, Sequences, FiniteSets, SequencesExt

CONSTANTS
  OsScripts,      \* sequences of messages: [op, id]
  Permits,        \* permits of the semaphore (2)
  MaxOsFaults     \* bound: requests that fail

VARIABLES
  osMessages,     \* the channel; searches and modifications in the order received
  osPhase,        \* "creating", "serving" or "gone" (the receivers are dropped)
  osPermits,      \* free permits
  osTasks,        \* requests under way: the script's messages
  remote,         \* documents of the remote index
  osReplies,      \* replies to requests: "ok", "error", or "dropped" with the task
  osLost,         \* ids whose request to add failed (ghost)
  osFaults

osVars == <<osMessages, osPhase, osPermits, osTasks, remote, osReplies, osLost, osFaults>>

OsFault == osFaults < MaxOsFaults /\ osFaults' = osFaults + 1

\* create_index; when it fails the actor returns and its channels close.
OsCreate ==
  /\ osPhase = "creating"
  /\ \/ osPhase' = "serving" /\ UNCHANGED osFaults
     \/ osPhase' = "gone" /\ OsFault
  /\ UNCHANGED <<osMessages, osPermits, osTasks, remote, osReplies, osLost>>

\* A message sent to an actor that is gone is refused.
OsRefuse ==
  /\ osPhase = "gone" /\ osMessages # <<>>
  /\ osMessages' = Tail(osMessages)
  /\ osReplies' = osReplies \union {<<Head(osMessages), "error">>}
  /\ UNCHANGED <<osPhase, osPermits, osTasks, remote, osLost, osFaults>>

OsDispatch ==
  /\ osPhase = "serving" /\ osMessages # <<>> /\ osPermits > 0
  /\ osMessages' = Tail(osMessages)
  /\ osPermits' = osPermits - 1
  /\ osTasks' = osTasks \union {Head(osMessages)}
  /\ UNCHANGED <<osPhase, remote, osReplies, osLost, osFaults>>

-----------------------------------------------------------------------------
(* process: the task sends its request and gives its permit back.          *)

Ends(t) ==
  /\ osTasks' = osTasks \ {t}
  /\ osPermits' = osPermits + 1
  /\ UNCHANGED <<osMessages, osPhase>>
Replies(t, reply) == osReplies' = osReplies \union {<<t, reply>>}

\* add and remove: the server's answer is not looked at beyond logging.
OsModify(t) ==
  /\ t.op \in {"add", "remove"} /\ Ends(t)
  /\ \/ /\ remote' = IF t.op = "add" THEN remote \union {t.id} ELSE remote \ {t.id}
        /\ UNCHANGED <<osLost, osFaults>>
     \/ /\ OsFault /\ UNCHANGED remote
        /\ osLost' = IF t.op = "add" THEN osLost \union {t.id} ELSE osLost
  /\ UNCHANGED osReplies

\* ann: wrong dimensions, the target column among the wanted ones, and any
\* failure of the request or its body are errors.
OsAnn(t) ==
  /\ t.op \in {"ann", "ann target"} /\ Ends(t)
  /\ \/ t.op = "ann" /\ Replies(t, "ok") /\ UNCHANGED osFaults
     \/ t.op = "ann" /\ OsFault /\ Replies(t, "error")
     \/ t.op = "ann target" /\ Replies(t, "error") /\ UNCHANGED osFaults
  /\ UNCHANGED <<remote, osLost>>

\* filtered_ann is not supported; a count that fails is zero.
OsFilteredAnn(t) ==
  /\ t.op = "filtered ann" /\ Ends(t)
  /\ Replies(t, "error")
  /\ UNCHANGED <<remote, osLost, osFaults>>
OsCount(t) ==
  /\ t.op = "count" /\ Ends(t)
  /\ Replies(t, "ok")
  /\ UNCHANGED <<remote, osLost, osFaults>>

\* Bug: the permit is forgotten by the task that panics.
OsUnimplementedKeepsPermit(t) ==
  /\ t.op = "remove partition"
  /\ osTasks' = osTasks \ {t}
  /\ Replies(t, "dropped")
  /\ UNCHANGED <<osMessages, osPhase, osPermits, remote, osLost, osFaults>>
\* Removing a partition is not implemented: the task panics, and unwinding
\* returns its permit and drops what the message carries.
OsUnimplemented(t) ==
  /\ t.op = "remove partition" /\ Ends(t)
  /\ Replies(t, "dropped")
  /\ UNCHANGED <<remote, osLost, osFaults>>

OsProcess == \E t \in osTasks :
  OsModify(t) \/ OsAnn(t) \/ OsFilteredAnn(t) \/ OsCount(t) \/ OsUnimplemented(t)

-----------------------------------------------------------------------------
OsInit ==
  /\ osMessages \in OsScripts
  /\ osPhase = "creating" /\ osPermits = Permits /\ osTasks = {}
  /\ remote = {} /\ osReplies = {} /\ osLost = {} /\ osFaults = 0
OsNext == OsCreate \/ OsRefuse \/ OsDispatch \/ OsProcess
OsFairness == WF_osVars(OsCreate) /\ WF_osVars(OsRefuse) /\ WF_osVars(OsDispatch) /\ WF_osVars(OsProcess)

-----------------------------------------------------------------------------
\* Every message is taken and every request answered, though some tasks panic
\* with a permit in their hands (todo!() in process) and some requests fail: a
\* permit that does not come back would stop the index for good.
OsDrains ==
  <>[](/\ osMessages = <<>> /\ osTasks = {}
       /\ osPhase = "serving" => osPermits = Permits)
=============================================================================
