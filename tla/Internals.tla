----------------------------- MODULE Internals -----------------------------
(***************************************************************************)
(* The counters of a node for its tests (internals.rs): an actor that      *)
(* handles the sessions itself, in the order of their messages, and hands  *)
(* every message about counters to a task of its own.                      *)
(***************************************************************************)
EXTENDS Naturals, Sequences, SequencesExt

CONSTANTS
    CounterNames,
    MaxIncrements,  \* bound: increments that are sent, for every counter
    MaxClears,      \* bound: times the counters are cleared
    MaxSessionsMade \* bound: sessions that are created or fail

VARIABLES
    inbox,          \* the messages of the actor
    spawned,        \* the messages that are with a task
    counters,       \* the counters that were started -> their values
    savedSession,   \* the session that was saved, 0 for none
    sent,           \* name -> increments that were sent
    due,            \* name -> increments that were sent since the counter is
                    \* known to be started, if it is: [on, n]
    waiting,        \* what the client of the counters waits for
    clears, made
internalsVars == <<inbox, spawned, counters, savedSession, sent, due, waiting, clears, made>>

\* Two of them name a counter; number tells messages that are equal apart.
Message(op, name, number) == [op |-> op, name |-> name, number |-> number]
SessionOps == {"create session", "session counters"}
SuccessCounter == "session-create-success"
FailureCounter == "session-create-failure"
NotStarted == [on |-> FALSE, n |-> 0]

-----------------------------------------------------------------------------
(* Senders: a client waits for its answer, a component that counts does not *)

StartCounter(c) ==
    /\ waiting = "nothing" /\ ~due[c].on
    /\ inbox' = Append(inbox, Message("start", c, 0)) /\ waiting' = "start"
    /\ UNCHANGED <<spawned, counters, savedSession, sent, due, clears, made>>

ClearCounters ==
    /\ waiting = "nothing" /\ clears < MaxClears
    /\ inbox' = Append(inbox, Message("clear", "none", 0)) /\ waiting' = "clear"
    /\ clears' = clears + 1
    /\ due' = [c \in CounterNames |-> NotStarted]
    /\ UNCHANGED <<spawned, counters, savedSession, sent, made>>

GetCounters(op) ==
    /\ waiting = "nothing"
    /\ inbox' = Append(inbox, Message(op, "none", 0)) /\ waiting' = op
    /\ UNCHANGED <<spawned, counters, savedSession, sent, due, clears, made>>

\* The routes under /internals.
InternalsRoutes ==
    \/ \E c \in CounterNames : StartCounter(c)
    \/ ClearCounters
    \/ \E op \in {"counters", "session counters"} : GetCounters(op)

IncrementCounter(c) ==
    /\ c \notin {SuccessCounter, FailureCounter} /\ sent[c] < MaxIncrements
    /\ inbox' = Append(inbox, Message("increment", c, sent[c] + 1))
    /\ sent' = [sent EXCEPT ![c] = @ + 1]
    /\ due' = [due EXCEPT ![c].n = IF due[c].on THEN @ + 1 ELSE 0]
    /\ UNCHANGED <<spawned, counters, savedSession, waiting, clears, made>>

\* The database actor: session 0 for a connection that failed.
CreateSession(ok) ==
    LET c == IF ok THEN SuccessCounter ELSE FailureCounter IN
    /\ made < MaxSessionsMade
    /\ made' = made + 1
    /\ inbox' = Append(inbox, Message("create session", "none", IF ok THEN made + 1 ELSE 0))
    /\ sent' = [sent EXCEPT ![c] = @ + 1]
    /\ due' = [due EXCEPT ![c].n = IF due[c].on THEN @ + 1 ELSE 0]
    /\ UNCHANGED <<spawned, counters, savedSession, waiting, clears>>

-----------------------------------------------------------------------------
(* The actor                                                                *)

\* increment_counter: a counter that was not started is not counted.
Incremented(c) == IF c \in DOMAIN counters THEN [counters EXCEPT ![c] = @ + 1] ELSE counters

\* processing and process_session
Dispatch ==
    /\ inbox # <<>>
    /\ inbox' = Tail(inbox)
    /\ LET msg == Head(inbox) IN
       \/ /\ msg.op \notin SessionOps
          /\ spawned' = spawned \cup {msg}
          /\ UNCHANGED <<counters, savedSession, waiting>>
       \/ /\ msg.op = "create session"
          /\ counters' = Incremented(IF msg.number # 0 THEN SuccessCounter ELSE FailureCounter)
          /\ savedSession' = msg.number
          /\ UNCHANGED <<spawned, waiting>>
       \/ /\ msg.op = "session counters"
          /\ waiting' = "nothing"
          /\ UNCHANGED <<spawned, counters, savedSession>>
    /\ UNCHANGED <<sent, due, clears, made>>

\* process_counters: the tasks run in any order.
ProcessCounters(msg) ==
    /\ spawned' = spawned \ {msg}
    /\ \/ /\ msg.op = "start"
          /\ counters' = [c \in DOMAIN counters \cup {msg.name} |->
                             IF c \in DOMAIN counters THEN counters[c] ELSE 0]
          /\ waiting' = "nothing"
          /\ due' = [due EXCEPT ![msg.name] = [on |-> TRUE, n |-> 0]]
       \/ /\ msg.op = "increment"
          /\ counters' = Incremented(msg.name)
          /\ UNCHANGED <<waiting, due>>
       \/ /\ msg.op = "clear"
          /\ counters' = << >> /\ waiting' = "nothing"
          /\ UNCHANGED due
       \/ /\ msg.op = "counters"
          /\ waiting' = "nothing"
          /\ UNCHANGED <<counters, due>>
    /\ UNCHANGED <<inbox, savedSession, sent, clears, made>>

-----------------------------------------------------------------------------
InternalsInit ==
    /\ inbox = <<>> /\ spawned = {} /\ counters = << >> /\ savedSession = 0
    /\ sent = [c \in CounterNames |-> 0] /\ due = [c \in CounterNames |-> NotStarted]
    /\ waiting = "nothing" /\ clears = 0 /\ made = 0
InternalsNext ==
    \/ InternalsRoutes
    \/ \E c \in CounterNames : IncrementCounter(c)
    \/ \E ok \in BOOLEAN : CreateSession(ok)
    \/ Dispatch
    \/ \E msg \in spawned : ProcessCounters(msg)
InternalsSpec == InternalsInit /\ [][InternalsNext]_internalsVars

\* What was sent since the client knows a counter to be started is counted
\* once the tasks have run, and nothing is counted twice.
InternalsRight ==
    /\ inbox = <<>> /\ spawned = {} => \A c \in CounterNames :
          due[c].on => c \in DOMAIN counters /\ counters[c] >= due[c].n
    /\ \A c \in DOMAIN counters : counters[c] <= sent[c]
=============================================================================
