------------------------------ MODULE Startup ------------------------------
(***************************************************************************)
(* The start of a node (main.rs, run in lib.rs): the configuration is      *)
(* loaded and published, the kind of vector index is chosen, the actors    *)
(* and the two servers are started, and the process waits for a signal.    *)
(* The manager of the configuration runs from early on, so a SIGHUP may    *)
(* change what the later steps read.                                       *)
(*                                                                         *)
(* Of a configuration only what these steps look at is kept:               *)
(*   threads, opensearch (an address), diskann (a back end), simulator,    *)
(*   addr, mtls_addr (0: no mTLS server), usable (the certificates load)   *)
(***************************************************************************)
EXTENDS Integers

CONSTANTS
    BootConfigs,     \* configurations that load_config accepts
    MaxHangups       \* bound: SIGHUPs during the start

VARIABLES
    boot,            \* main: [at, runtime, opensearch, diskann, factory, announced]
    current,         \* the configuration that is published
    wants,           \* server -> the address of its published configuration
    serving,         \* server -> [addr, version], addr 0 when it does not run
    hangups
startupVars == <<boot, current, wants, serving, hangups>>

NotSet == "none"
DefaultConfig ==
    [threads |-> 0, opensearch |-> NotSet, diskann |-> NotSet, simulator |-> FALSE,
     addr |-> 6080, mtls_addr |-> 0, usable |-> TRUE]

\* block_on; no number of threads is the same as zero.
Runtime(threads) ==
    CASE threads = 0 -> "a thread per core"
      [] threads = 1 -> "current thread"
      [] OTHER -> "given threads"

-----------------------------------------------------------------------------
(* The factories of vector indexes                                          *)

\* Whether the address is a URL is found out here.
NewOpensearch(addr) == IF addr = "not a url" THEN NotSet ELSE "opensearch"
NewUsearch(c) == IF c.simulator THEN "usearch-simulator" ELSE "usearch"
\* The back end is read once more, and is in memory by default.
NewDiskann(c) == IF c.diskann = "scylla" THEN "diskann on scylla" ELSE "diskann in memory"

IndexEngineVersion(index_factory) ==
    IF index_factory \in {"diskann on scylla", "diskann in memory"} THEN "diskann" ELSE index_factory

\* run: OpenSearch goes before DiskANN, and usearch is the default.
Chosen(opensearch, diskann, c) ==
    IF opensearch # NotSet THEN NewOpensearch(opensearch)
    ELSE IF diskann # NotSet THEN NewDiskann(c) ELSE NewUsearch(c)

-----------------------------------------------------------------------------
(* main and run, one step at a time; a step that fails ends the process     *)

To(at) == boot' = [boot EXCEPT !.at = at]

\* main: the configuration is loaded on a runtime of its own, and says how
\* many threads the runtime of the node has.
LoadConfiguration ==
    /\ boot.at = "load"
    /\ \/ \E c \in BootConfigs :
            /\ current' = c
            /\ boot' = [boot EXCEPT !.at = "manager", !.runtime = Runtime(c.threads)]
       \/ To("failed") /\ UNCHANGED current
    /\ UNCHANGED <<wants, serving, hangups>>

\* ConfigManager::new derives the configurations of the servers.
Addresses(c) == [http |-> c.addr, mtls |-> c.mtls_addr]
StartManager ==
    /\ boot.at = "manager"
    /\ IF current.usable THEN To("opensearch") /\ wants' = Addresses(current)
                         ELSE To("failed") /\ UNCHANGED wants
    /\ UNCHANGED <<current, serving, hangups>>

\* From now on a SIGHUP is handled; the servers keep their configurations when
\* those of the new one cannot be derived.
Loading == {"load", "manager"}
Over == {"failed", "ended", "killed"}
Hangup ==
    /\ boot.at \notin Loading \cup Over /\ hangups < MaxHangups
    /\ hangups' = hangups + 1
    /\ \E c \in BootConfigs :
          /\ current' = c
          /\ wants' = IF c.usable THEN Addresses(c) ELSE wants
    /\ UNCHANGED <<boot, serving>>

ReadOpensearch ==
    /\ boot.at = "opensearch"
    /\ boot' = [boot EXCEPT !.at = "diskann", !.opensearch = current.opensearch]
    /\ UNCHANGED <<current, wants, serving, hangups>>
ReadDiskann ==
    /\ boot.at = "diskann"
    /\ boot' = [boot EXCEPT !.at = "factory", !.diskann = current.diskann]
    /\ UNCHANGED <<current, wants, serving, hangups>>
ChooseFactory ==
    /\ boot.at = "factory"
    /\ LET chosen == Chosen(boot.opensearch, boot.diskann, current)
       IN  boot' = [boot EXCEPT !.factory = chosen,
                                !.at = IF chosen = NotSet THEN "failed" ELSE "http"]
    /\ UNCHANGED <<current, wants, serving, hangups>>

\* httproutes::new: the state that every handler of a server is given.
RoutesInnerState(addr) == [addr |-> addr, version |-> IndexEngineVersion(boot.factory)]

\* httpserver::new returns when the server listens, is not wanted, or has
\* failed as often as it may; after that its actor follows the configuration.
StartServer(server, next) ==
    /\ boot.at = server
    /\ \/ /\ serving' = [serving EXCEPT ![server] = RoutesInnerState(wants[server])]
          /\ To(next)
       \/ wants[server] # 0 /\ To("failed") /\ UNCHANGED serving
    /\ UNCHANGED <<current, wants, hangups>>

Started(server) ==
    boot.at \in (IF server = "http" THEN {"mtls", "address", "listening"} ELSE {"address", "listening"})
RestartServer(server) ==
    /\ Started(server) /\ serving[server].addr # wants[server]
    /\ \E addr \in {0, wants[server]} :
          serving' = [serving EXCEPT ![server].addr = addr]
    /\ UNCHANGED <<boot, current, wants, hangups>>

\* HttpServerExt::address: what the watch channel holds when main looks.
AskAddress ==
    /\ boot.at = "address"
    /\ boot' = [boot EXCEPT !.at = IF serving["http"].addr = 0 THEN "failed" ELSE "listening",
                            !.announced = serving["http"].addr]
    /\ UNCHANGED <<current, wants, serving, hangups>>

\* wait_for_shutdown; before it there is no handler, and the signal kills.
\* Whatever runs ends with the runtime.
Signal ==
    /\ boot.at \notin Over
    /\ To(IF boot.at = "listening" THEN "ended" ELSE "killed")
    /\ UNCHANGED <<current, wants, serving, hangups>>

GetInfo(server) == serving[server].version

-----------------------------------------------------------------------------
BeforeStart ==
    [at |-> "load", runtime |-> NotSet, opensearch |-> NotSet, diskann |-> NotSet,
     factory |-> NotSet, announced |-> 0]
NotServing == [server \in {"http", "mtls"} |-> [addr |-> 0, version |-> NotSet]]
StartupInit ==
    /\ boot = BeforeStart
    /\ current = DefaultConfig /\ wants = [http |-> 0, mtls |-> 0]
    /\ serving = NotServing
    /\ hangups = 0

Main ==
    \/ LoadConfiguration \/ StartManager \/ ReadOpensearch \/ ReadDiskann \/ ChooseFactory
    \/ StartServer("http", "mtls") \/ StartServer("mtls", "address") \/ AskAddress
StartupNext ==
    Main \/ Hangup \/ Signal \/ \E server \in {"http", "mtls"} : RestartServer(server)

StartupFairness == WF_startupVars(Main)

StartupSpec == StartupInit /\ [][StartupNext]_startupVars /\ StartupFairness

-----------------------------------------------------------------------------
(* The servers report the engine that the indexes are built with, and an    *)
(* address is announced only when the server was listening there; without   *)
(* a SIGHUP during the start it is the address and the engine that were     *)
(* configured: OpenSearch before DiskANN before usearch (run, main).        *)
StartupRight ==
    /\ \A server \in DOMAIN serving : serving[server].addr # 0 =>
          /\ boot.factory # NotSet
          /\ GetInfo(server) = IndexEngineVersion(boot.factory)
    /\ boot.at = "listening" => boot.announced # 0
    /\ boot.at = "listening" /\ hangups = 0 =>
          /\ boot.announced = current.addr
          /\ serving["mtls"].addr = current.mtls_addr
          /\ current.opensearch # NotSet => boot.factory = "opensearch"
          /\ boot.factory \in {"diskann in memory", "diskann on scylla"} =>
                current.opensearch = NotSet /\ current.diskann # NotSet

(* The start comes to an end: the node listens, or the process is over.     *)
StartupEnds == <>(boot.at \in Over \cup {"listening"})
=============================================================================
