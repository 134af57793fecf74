----------------------------- MODULE DbSession -----------------------------
(***************************************************************************)
(* The database actor (db.rs): it keeps one session with ScyllaDB, drops   *)
(* it when its configuration changes or a CDC reader reports an error, and *)
(* makes a new one on the next tick of a timer.  The messages of the other *)
(* actors are answered by tasks that use whatever session there is by then.*)
(* The actor does nothing else while it connects.                          *)
(***************************************************************************)
EXTENDS Naturals, FiniteSets

CONSTANTS
    SessionConfigs, \* [session, tls, other]: what the session depends on, of it
                    \* whether there is a certificate to read, and the rest
    Messages,       \* messages to the actor
    MaxErrors,      \* bound: failures to connect, errors of the CDC readers
    MaxChanges      \* bound: configurations that are published

VARIABLES
    wanted,         \* the configuration that was published last
    changed,        \* the actor has not seen it yet
    dbConfig,       \* the configuration of the actor
    session,        \* the configuration of the session, or NoSession
    statements,     \* the statements are prepared
    phase,          \* "idle", "certificate", "building", "checking" or "ready"
    notified,       \* the permit in cdc_error_notify
    messages,       \* message -> "queued", "processing", "ok" or "failed"
    saved,          \* Internals has a session
    errors, changes
dbSessionVars == <<wanted, changed, dbConfig, session, statements, phase, notified,
                   messages, saved, errors, changes>>

NoSession == [session |-> 0, tls |-> FALSE, other |-> 0]

ASSUME DbSessionAssumption == NoSession \notin SessionConfigs

-----------------------------------------------------------------------------
(* reconnect_reasons: the parts of the configuration a session depends on   *)
ReconnectReasons(old, new) == old.session # new.session

\* The timer ticks with no session: the actor starts to connect.
ReconnectTick ==
    /\ phase = "idle" /\ session = NoSession
    /\ phase' = "certificate"
    /\ UNCHANGED <<wanted, changed, dbConfig, session, statements, notified, messages, saved,
                   errors, changes>>

\* connect of the driver: the certificate is read, the session is built, and
\* the node is asked for its version.
NextPhase == [certificate |-> "building", building |-> "checking", checking |-> "ready"]
ConnectStep ==
    /\ phase \in DOMAIN NextPhase
    /\ phase' = NextPhase[phase]
    /\ UNCHANGED <<wanted, changed, dbConfig, session, statements, notified, messages, saved,
                   errors, changes>>

\* The file is not there or not a certificate; no node answers, or not within
\* the timeout; the node is not enabled, or does not say its version.
CanFail == phase \in {"building", "checking"} \/ (phase = "certificate" /\ dbConfig.tls)
ConnectFails ==
    /\ CanFail /\ errors < MaxErrors
    /\ errors' = errors + 1
    /\ phase' = "idle" /\ saved' = FALSE
    /\ UNCHANGED <<wanted, changed, dbConfig, session, statements, notified, messages, changes>>

\* The first session prepares the statements; when that fails the session is
\* dropped.
PrepareFails ==
    /\ phase = "ready" /\ ~statements /\ errors < MaxErrors
    /\ errors' = errors + 1
    /\ phase' = "idle"
    /\ UNCHANGED <<wanted, changed, dbConfig, session, statements, notified, messages, saved,
                   changes>>

\* Bug: the session is made with the configuration that was published last.
ConnectedLatest ==
    /\ phase = "ready"
    /\ phase' = "idle" /\ statements' = TRUE /\ saved' = TRUE
    /\ session' = wanted
    /\ UNCHANGED <<wanted, changed, dbConfig, notified, messages, errors, changes>>

Connected ==
    /\ phase = "ready"
    /\ phase' = "idle" /\ statements' = TRUE /\ saved' = TRUE
    /\ session' = dbConfig
    /\ UNCHANGED <<wanted, changed, dbConfig, notified, messages, errors, changes>>

\* A CDC reader reports an error; several reports leave one permit.
CdcError ==
    /\ statements /\ errors < MaxErrors
    /\ errors' = errors + 1
    /\ notified' = TRUE
    /\ UNCHANGED <<wanted, changed, dbConfig, session, statements, phase, messages, saved, changes>>

CancelOnError ==
    /\ phase = "idle" /\ notified
    /\ notified' = FALSE /\ session' = NoSession /\ saved' = FALSE
    /\ UNCHANGED <<wanted, changed, dbConfig, statements, phase, messages, errors, changes>>

PublishConfig(c) ==
    /\ changes < MaxChanges
    /\ changes' = changes + 1
    /\ wanted' = c /\ changed' = TRUE
    /\ UNCHANGED <<dbConfig, session, statements, phase, notified, messages, saved, errors>>

\* Bug: the configuration is only taken over while there is a session.
ConfigChangedInSession ==
    /\ phase = "idle" /\ changed
    /\ changed' = FALSE
    /\ IF ReconnectReasons(dbConfig, wanted) /\ session # NoSession
       THEN dbConfig' = wanted /\ session' = NoSession /\ saved' = FALSE
       ELSE UNCHANGED <<dbConfig, session, saved>>
    /\ UNCHANGED <<wanted, statements, phase, notified, messages, errors, changes>>

\* A configuration without a reason to reconnect is not taken over.
ConfigChanged ==
    /\ phase = "idle" /\ changed
    /\ changed' = FALSE
    /\ IF ReconnectReasons(dbConfig, wanted)
       THEN dbConfig' = wanted /\ session' = NoSession /\ saved' = FALSE
       ELSE UNCHANGED <<dbConfig, session, saved>>
    /\ UNCHANGED <<wanted, statements, phase, notified, messages, errors, changes>>

\* A message is answered with an error, or handed to a task.
Receive(m) ==
    /\ phase = "idle" /\ messages[m] = "queued"
    /\ messages' = [messages EXCEPT ![m] =
         IF statements /\ session # NoSession THEN "processing" ELSE "failed"]
    /\ UNCHANGED <<wanted, changed, dbConfig, session, statements, phase, notified, saved,
                   errors, changes>>

\* Bug: a task that finds no session ends without an answer.
ProcessSilently(m, ok) ==
    /\ messages[m] = "processing"
    /\ messages' = [messages EXCEPT ![m] =
         IF session = NoSession THEN "lost" ELSE IF ok THEN "ok" ELSE "failed"]
    /\ UNCHANGED <<wanted, changed, dbConfig, session, statements, phase, notified, saved,
                   errors, changes>>

\* The task takes the session that is there by then; the query may fail too.
Process(m, ok) ==
    /\ messages[m] = "processing"
    /\ messages' = [messages EXCEPT ![m] = IF ok /\ session # NoSession THEN "ok" ELSE "failed"]
    /\ UNCHANGED <<wanted, changed, dbConfig, session, statements, phase, notified, saved,
                   errors, changes>>

-----------------------------------------------------------------------------
DbSessionInit ==
    /\ wanted \in SessionConfigs /\ changed = FALSE
    /\ dbConfig = wanted /\ session = NoSession /\ statements = FALSE
    /\ phase = "idle" /\ notified = FALSE
    /\ messages = [m \in Messages |-> "queued"]
    /\ saved = FALSE /\ errors = 0 /\ changes = 0

DbSessionNext ==
    \/ ReconnectTick \/ ConnectStep \/ ConnectFails \/ PrepareFails \/ Connected
    \/ CdcError \/ CancelOnError \/ ConfigChanged
    \/ \E c \in SessionConfigs : PublishConfig(c)
    \/ \E m \in Messages : Receive(m) \/ \E ok \in BOOLEAN : Process(m, ok)

\* select! takes every branch that stays ready; connecting goes on, and fails
\* no more than MaxErrors times.
DbSessionFairness ==
    /\ WF_dbSessionVars(ReconnectTick)
    /\ WF_dbSessionVars(ConnectStep \/ Connected)
    /\ SF_dbSessionVars(CancelOnError) /\ SF_dbSessionVars(ConfigChanged)
    /\ \A m \in Messages : /\ SF_dbSessionVars(Receive(m))
                           /\ WF_dbSessionVars(\E ok \in BOOLEAN : Process(m, ok))

DbSessionSpec == DbSessionInit /\ [][DbSessionNext]_dbSessionVars /\ DbSessionFairness

-----------------------------------------------------------------------------
(* Properties                                                               *)

(* The session is one the actor's own configuration asks for, at every      *)
(* point between a change and the reconnection, and Internals has a session *)
(* exactly when there is one (db.rs, the loop of new).                      *)
SessionConsistent ==
    /\ session # NoSession => session = dbConfig /\ statements
    /\ saved <=> session # NoSession
    /\ ~changed => ~ReconnectReasons(dbConfig, wanted)

(* When the configuration stops changing and the readers stop failing, the  *)
(* actor gets to a session with what the configuration asks for and keeps   *)
(* it.                                                                      *)
SessionFollowsConfig ==
    <>[](session # NoSession /\ ~ReconnectReasons(session, wanted))

(* Every message is answered, also when the session is dropped between the  *)
(* actor and the task (respond_with_error, process).                        *)
MessagesAnswered == \A m \in Messages : <>(messages[m] \in {"ok", "failed"})
=============================================================================
