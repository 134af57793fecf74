----------------------------- MODULE Simulator -----------------------------
(***************************************************************************)
(* The stand-in for the usearch library (Simulator in vs_index/usearch.rs):*)
(* a partition keeps its ids and a capacity, and every operation takes as  *)
(* long as the configuration says.  Operations hold the lock of the        *)
(* partition while they wait; a task of each partition follows the         *)
(* configuration and takes over what changes under the same lock.          *)
(*                                                                         *)
(* A setting (usearch_simulator) is a sequence of durations, for a search, *)
(* for an add or a removal, and for a reservation; it may be shorter.      *)
(***************************************************************************)
EXTENDS Integers, Sequences

CONSTANTS
    SimSettings,     \* the settings a configuration may hold
    Simulators,      \* partitions, each created and stopped once
    MaxSimChanges,   \* bound: configurations that are published
    MaxSimOps        \* bound: operations

VARIABLES
    setting,         \* the watch channel: [value, version]
    factory,         \* the factory's configuration and receiver: [value, version]
    sims,            \* simulator -> its state
    simOps           \* number of operations
simVars == <<setting, factory, sims, simOps>>

\* An index into a setting that is too short, or absent, is no duration.
Duration(value, i) == IF i \in DOMAIN value THEN value[i] ELSE 0
Durations(value) ==
    [search |-> Duration(value, 1), add_remove |-> Duration(value, 2), reserve |-> Duration(value, 3)]

\* The default configuration has no setting.
Fresh == [phase |-> "none", config |-> <<>>, durations |-> Durations(<<>>), seen |-> 0,
          keys |-> {}, capacity |-> 0, holders |-> {}, writer |-> FALSE,
          following |-> FALSE, notified |-> FALSE]

Update(sim, value) ==
    IF sim.config = value THEN sim
    ELSE [sim EXCEPT !.config = value, !.durations = Durations(value)]

-----------------------------------------------------------------------------
\* Simulator::new: the factory's configuration is of the time the factory was
\* made; so is the version its receiver has seen, and a clone of it inherits
\* that, so what was published since is seen as a change.
NewSimulator(s) ==
    /\ sims[s].phase = "none"
    /\ sims' = [sims EXCEPT ![s] = [Update(Fresh, factory.value) EXCEPT
                    !.phase = "up", !.following = TRUE, !.seen = factory.version]]
    /\ UNCHANGED <<setting, factory, simOps>>

PublishSetting(value) ==
    /\ setting.version < MaxSimChanges
    /\ setting' = [value |-> value, version |-> setting.version + 1]
    /\ UNCHANGED <<factory, sims, simOps>>

\* The task of a partition: the write lock waits for the operations.
FollowSetting(s) ==
    /\ sims[s].following /\ sims[s].seen # setting.version
    /\ sims[s].holders = {} /\ ~sims[s].writer
    /\ sims' = [sims EXCEPT ![s] = [Update(@, setting.value) EXCEPT !.seen = setting.version]]
    /\ UNCHANGED <<setting, factory, simOps>>

\* stop: the notification is kept until the task looks.
StopSimulator(s) ==
    /\ sims[s].phase = "up" /\ ~sims[s].writer
    /\ sims' = [sims EXCEPT ![s].phase = "stopped", ![s].notified = TRUE]
    /\ UNCHANGED <<setting, factory, simOps>>
EndFollowing(s) ==
    /\ sims[s].following /\ sims[s].notified
    /\ sims' = [sims EXCEPT ![s].following = FALSE, ![s].notified = FALSE]
    /\ UNCHANGED <<setting, factory, simOps>>

-----------------------------------------------------------------------------
(* Operations: the effect, then the wait, both under the lock.              *)

Begin(s, sim) ==
    /\ simOps < MaxSimOps
    /\ simOps' = simOps + 1
    /\ sims' = [sims EXCEPT ![s] = sim]
    /\ UNCHANGED <<setting, factory>>
Holder(s, op) == [op |-> op, duration |-> sims[s].durations[op], number |-> simOps]

ReserveSim(s, size) ==
    /\ sims[s].phase # "none" /\ sims[s].holders = {} /\ ~sims[s].writer
    /\ Begin(s, [sims[s] EXCEPT !.capacity = size, !.writer = TRUE,
                                !.holders = {Holder(s, "reserve")}])
ReadLocked(s) == sims[s].phase # "none" /\ ~sims[s].writer
AddToSim(s, id) ==
    /\ ReadLocked(s)
    /\ Begin(s, [sims[s] EXCEPT !.keys = @ \cup {id}, !.holders = @ \cup {Holder(s, "add_remove")}])
RemoveFromSim(s, id) ==
    /\ ReadLocked(s)
    /\ Begin(s, [sims[s] EXCEPT !.keys = @ \ {id}, !.holders = @ \cup {Holder(s, "add_remove")}])
SearchSim(s) ==
    /\ ReadLocked(s)
    /\ Begin(s, [sims[s] EXCEPT !.holders = @ \cup {Holder(s, "search")}])

\* The time is over.
ReleaseSim(s) ==
    /\ \E h \in sims[s].holders :
          sims' = [sims EXCEPT ![s].holders = @ \ {h}, ![s].writer = FALSE]
    /\ UNCHANGED <<setting, factory, simOps>>

-----------------------------------------------------------------------------
\* The simulator is used when there is a setting at the start.
SimInit ==
    /\ setting \in [value : SimSettings \ {<<>>}, version : {0}]
    /\ factory = setting
    /\ sims = [s \in Simulators |-> Fresh]
    /\ simOps = 0

SimTask(s) == FollowSetting(s) \/ EndFollowing(s)
SimNext ==
    \/ \E value \in SimSettings : PublishSetting(value)
    \/ \E s \in Simulators :
          \/ NewSimulator(s) \/ StopSimulator(s) \/ SimTask(s) \/ ReleaseSim(s)
          \/ ReserveSim(s, 1) \/ AddToSim(s, 1) \/ RemoveFromSim(s, 1) \/ SearchSim(s)

\* Tasks are run and waits end.  The task of a partition may choose the change
\* of the configuration while it is notified, but there are not always changes.
SimFairness == \A s \in Simulators : WF_simVars(SimTask(s)) /\ WF_simVars(ReleaseSim(s))

-----------------------------------------------------------------------------
(* An operation takes as long as the configuration said when it got the     *)
(* lock, however the configuration changes while it waits; and a            *)
(* reservation is alone (the RwLock around a Simulator).                    *)
SimSteady ==
    \A s \in Simulators : \A h \in sims[s].holders :
        /\ h.duration = sims[s].durations[h.op]
        /\ h.op = "reserve" => sims[s].holders = {h}

(* A partition that is in use comes to use the last setting, also one that  *)
(* was published before the partition was created, and the task of one that *)
(* was removed ends (Simulator::new).                                       *)
SimulatorsFollow ==
    \A s \in Simulators :
        /\ <>[](sims[s].phase = "up" => sims[s].durations = Durations(setting.value))
        /\ <>[](sims[s].phase = "stopped" => ~sims[s].following)
=============================================================================
