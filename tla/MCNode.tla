------------------------------- MODULE MCNode ------------------------------
(***************************************************************************)
(* The services of a node, one at a time: they share no state besides the  *)
(* configuration they are given, so an instance runs one of them while the *)
(* others rest in a state in which they have nothing to do.                *)
(***************************************************************************)
EXTENDS ServerConfig, DbSession, Memory, Metrics, Simulator, Startup

VARIABLE part
reportVars == <<seriesVars, saverVars, internalsVars>>
processVars == <<simVars, startupVars>>
nodeVars == <<serverConfigVars, dbSessionVars, memoryVars, reportVars, processVars, part>>

\* TLS and mTLS on addresses of their own; TLS on the address of the mTLS
\* server, which goes; no TLS; and environments that are refused, each for
\* another reason.
Secure ==
    [bad |-> {}, username |-> "user", password_file |-> "readable", rack |-> FALSE,
     datacenter |-> FALSE, cert |-> TRUE, key |-> TRUE, ca |-> TRUE, addr |-> 1, mtls_addr |-> 2]
Plain == [Secure EXCEPT !.username = "unset", !.cert = FALSE, !.key = FALSE, !.ca = FALSE]
MCEnvironments ==
    {Plain, [Secure EXCEPT !.addr = 2, !.ca = FALSE], [Plain EXCEPT !.bad = {"URI"}],
     [Plain EXCEPT !.bad = {"MTLS_URI"}], [Secure EXCEPT !.username = ""],
     [Secure EXCEPT !.password_file = "unset"], [Plain EXCEPT !.rack = TRUE],
     [Secure EXCEPT !.key = FALSE]}
MCInitialEnvironments == {Secure}
MCCounters == {"c", SuccessCounter, FailureCounter}
MCSessionConfigs ==
    {[session |-> 1, tls |-> FALSE, other |-> 1], [session |-> 1, tls |-> FALSE, other |-> 2],
     [session |-> 2, tls |-> TRUE, other |-> 1]}

MCSimSettings == {<<>>, <<1, 2>>, <<1, 3, 1>>}
\* Each engine, OpenSearch and DiskANN together, an address that is no URL,
\* an mTLS server, and certificates that do not load.
MCBootConfigs ==
    {DefaultConfig,
     [DefaultConfig EXCEPT !.threads = 1, !.opensearch = "url", !.diskann = "scylla", !.mtls_addr = 6081],
     [DefaultConfig EXCEPT !.threads = 2, !.opensearch = "not a url"],
     [DefaultConfig EXCEPT !.diskann = "scylla", !.addr = 7000],
     [DefaultConfig EXCEPT !.simulator = TRUE],
     [DefaultConfig EXCEPT !.simulator = TRUE, !.usable = FALSE]}

ServerConfigRests ==
    /\ config = LoadConfig(Plain)[1] /\ manager.pc = "ended"
    /\ files = [f \in Files |-> Gone] /\ seen = files
    /\ published = [s \in Servers |-> None]
    /\ servers = [s \in Servers |-> [NewServer(None) EXCEPT !.phase = "stopped"]]
    /\ writes = MaxWrites /\ reloads = MaxReloads
EndedManager ==
    [pc |-> "ended", config |-> LoadConfig(Plain)[1], cert |-> Gone, key |-> Gone, ca |-> Gone,
     overlooked |-> FALSE]

DbSessionRests ==
    /\ wanted = [session |-> 1, tls |-> FALSE, other |-> 1] /\ changed = FALSE
    /\ dbConfig = wanted /\ session = wanted /\ statements = TRUE /\ saved = TRUE
    /\ phase = "idle" /\ notified = FALSE
    /\ messages = [m \in Messages |-> "ok"]
    /\ errors = MaxErrors /\ changes = MaxChanges

MemoryRests ==
    /\ used = 0 /\ limitConfig = NoLimit /\ ownConfig = NoLimit
    /\ memoryLimit = CalculateMemoryLimit(Available, NoLimit)
    /\ allocate = CanAllocate /\ memoryChanges = MaxMemoryChanges

SeriesRest ==
    /\ kind = "vs" /\ engine = TRUE /\ rowsSent = 0 /\ items = MaxRows /\ sender = "idle"
    /\ series = [f \in {"latency"} |-> 1] /\ dirty = FALSE /\ scrape = [g \in Scrapers |-> NoScrape]
    /\ marked = 0 /\ refreshed = "no" /\ newest = 0 /\ overtaken = FALSE
    /\ scrapes = MaxScrapes /\ drops = MaxDrops

SimulatorRests == SimInit /\ setting.value = <<1, 2>>
StartupRests ==
    /\ current = DefaultConfig /\ boot = [BeforeStart EXCEPT !.at = "ended"]
    /\ wants = Addresses(current) /\ serving = NotServing /\ hangups = 0

Part(p, init, rests) == IF part = p THEN init ELSE rests
NodeInit ==
    /\ part \in {"servers", "session", "memory", "series", "saver", "internals", "simulator", "startup"}
    /\ Part("servers", ServerConfigInit, manager = EndedManager /\ ServerConfigRests)
    /\ Part("session", DbSessionInit, DbSessionRests) /\ Part("memory", MemoryInit, MemoryRests)
    /\ Part("series", SeriesInit, SeriesRest) /\ SaverInit /\ InternalsInit
    /\ Part("simulator", SimInit, SimulatorRests) /\ Part("startup", StartupInit, StartupRests)

NodeNext ==
    /\ UNCHANGED part
    /\ \/ part = "servers" /\ ServerConfigNext /\ UNCHANGED <<dbSessionVars, memoryVars, reportVars, processVars>>
       \/ part = "session" /\ DbSessionNext /\ UNCHANGED <<serverConfigVars, memoryVars, reportVars, processVars>>
       \/ part = "memory" /\ MemoryNext /\ UNCHANGED <<serverConfigVars, dbSessionVars, reportVars, processVars>>
       \/ /\ part = "series" /\ SeriesNext
          /\ UNCHANGED <<serverConfigVars, dbSessionVars, memoryVars, saverVars, internalsVars, processVars>>
       \/ /\ part = "saver" /\ SaverNext
          /\ UNCHANGED <<serverConfigVars, dbSessionVars, memoryVars, seriesVars, internalsVars, processVars>>
       \/ /\ part = "internals" /\ InternalsNext
          /\ UNCHANGED <<serverConfigVars, dbSessionVars, memoryVars, seriesVars, saverVars, processVars>>
       \/ /\ part = "simulator" /\ SimNext
          /\ UNCHANGED <<serverConfigVars, dbSessionVars, memoryVars, reportVars, startupVars>>
       \/ /\ part = "startup" /\ StartupNext
          /\ UNCHANGED <<serverConfigVars, dbSessionVars, memoryVars, reportVars, simVars>>

NodeSpec ==
    /\ NodeInit /\ [][NodeNext]_nodeVars
    /\ ServerConfigFairness /\ DbSessionFairness /\ MemoryFairness
    /\ SimFairness /\ StartupFairness
-----------------------------------------------------------------------------
(* The pair of files that is on disk when nothing is left to do is the one  *)
(* that is served, and a node that starts serves with the engine and at the *)
(* addresses that are configured (ConfigManager, httpserver, run).          *)
ServersServe == RotationServed /\ StartupRight

(* The servers come to follow the configuration, and a start comes to an    *)
(* end: the node listens or the process is over.                            *)
ServersComeUp == ServersFollow /\ StartupEnds

(* The memory monitor and the simulated indexes come to act on the last     *)
(* configuration, and an operation on a simulated index takes as long as    *)
(* the configuration said when it began (memory.rs, Simulator).             *)
ConfigurationFollowed == AllocateFollows /\ []SimSteady /\ SimulatorsFollow
=============================================================================
