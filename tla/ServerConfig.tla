---------------------------- MODULE ServerConfig ---------------------------
(***************************************************************************)
(* The configuration of the HTTP servers: the manager that loads it on     *)
(* SIGHUP and when a certificate file changes (config_manager.rs,          *)
(* file_monitor.rs), and the two servers that follow what it publishes     *)
(* (httpserver.rs).  A file holds a version or is Gone; every read of a    *)
(* file is a step of its own, and files are written in between.            *)
(*                                                                         *)
(* An environment says of every variable whether it is set and, where it   *)
(* matters, to what:                                                       *)
(*   bad        the variables whose value does not parse                   *)
(*   username, password_file, rack, datacenter                             *)
(*   cert, key, ca   whether the path is set                               *)
(*   addr, mtls_addr the addresses of the two servers                      *)
(* A configuration is [cert, key, ca, addr, mtls_addr, credentials].       *)
(***************************************************************************)
EXTENDS Integers, Sequences, FiniteSets

CONSTANTS
    Environments,   \* what the environment may hold
    InitialEnvironments, \* what it may hold at the start
    Versions,       \* the versions of a file
    MaxWrites,      \* bound: writes to files
    MaxReloads,     \* bound: SIGHUPs
    max_retries     \* attempts to start a server

VARIABLES
    files,          \* file -> version, or Gone
    config,         \* the configuration that is published
    published,      \* server -> its published configuration, or None
    seen,           \* file -> the content the monitor has seen
    manager,        \* [pc, config, cert, key, ca, overlooked]
    servers,        \* server -> [current, running, address, router, next,
                    \*            phase, attempts, changed]
    writes, reloads
serverConfigVars == <<files, config, published, seen, manager, servers, writes, reloads>>

Files == {"cert", "key", "ca"}
Servers == {"http", "mtls"}
Gone == -1

\* Two configurations are equal when the contents that were loaded are.
HttpServerConfig(addr, tls, identity, ca) ==
    [addr |-> addr, tls |-> tls, identity |-> identity, ca |-> ca]
None == HttpServerConfig(0, "off", <<>>, Gone)

-----------------------------------------------------------------------------
(* Loading the configuration: <<x>>, or <<>> for an error                   *)

\* The variables that must parse when they are set, in the order in which
\* load_config reads them.
BaseVariables ==
    {"DISABLE_COLORS", "URI", "THREADS", "MEMORY_LIMIT", "MEMORY_USAGE_CHECK_INTERVAL",
     "USEARCH_SIMULATOR", "DISKANN_ALPHA", "DISKANN_MAX_POINTS", "DISKANN_BACKEND",
     "ALTER_INDEX_SIMULATOR", "FULLTEXT_INDEXES"}
TimingVariables ==
    {"MTLS_URI", "CQL_CONNECTION_TIMEOUT", "CQL_KEEPALIVE_INTERVAL", "CQL_KEEPALIVE_TIMEOUT",
     "CQL_TCP_KEEPALIVE_INTERVAL", "CDC_SAFETY_INTERVAL", "CDC_SLEEP_INTERVAL",
     "CDC_FINE_SAFETY_INTERVAL", "CDC_FINE_SLEEP_INTERVAL", "MONITOR_INDEXES_INTERVAL",
     "INDEX_STATUS_UPDATE_INTERVAL", "CQL_URI_TRANSLATION_MAP"}

\* A user name needs a password file that can be read; a certificate alone
\* is enough, and so is neither.
Credentials(e) ==
    IF e.username = "unset" THEN <<"none">>
    ELSE IF e.username # "" /\ e.password_file = "readable" THEN <<"password">>
    ELSE <<>>

\* A rack needs a datacenter; the paths of the certificate and of the key are
\* set together or not at all.
LocalityOk(e) == e.rack => e.datacenter
TlsPathsOk(e) == e.cert <=> e.key

LoadConfig(e) ==
    IF /\ e.bad \cap (BaseVariables \cup TimingVariables) = {}
       /\ Credentials(e) # <<>> /\ LocalityOk(e) /\ TlsPathsOk(e)
    THEN <<[cert |-> e.cert, key |-> e.key, ca |-> e.ca, addr |-> e.addr,
            mtls_addr |-> e.mtls_addr, credentials |-> Credentials(e)[1]]>>
    ELSE <<>>

-----------------------------------------------------------------------------
(* Deriving the configurations of the servers: <<x>>, or <<>> for an error  *)

Read(c, f) == IF c[f] THEN files[f] ELSE Gone

\* Bug: the key is not compared with the certificate.
BuildServerConfigAny(cert, key) == cert # Gone /\ key # Gone

\* rustls refuses a key that does not belong to the certificate.
BuildServerConfig(cert, key) == cert # Gone /\ key # Gone /\ cert = key

\* The paths are set together, or neither is.
HasIdentity(c) == c.cert /\ c.key
HalfIdentity(c) == c.cert # c.key

DeriveHttpConfig(c, cert, key) ==
    IF HalfIdentity(c) THEN <<>>
    ELSE IF ~HasIdentity(c) THEN <<HttpServerConfig(c.addr, "none", <<>>, Gone)>>
    ELSE IF BuildServerConfig(cert, key)
    THEN <<HttpServerConfig(c.addr, "tls", <<cert, key>>, Gone)>>
    ELSE <<>>

DeriveMtlsHttpConfig(c, cert, key, ca) ==
    IF ~c.ca THEN <<None>>
    ELSE IF ca # Gone /\ HasIdentity(c) /\ BuildServerConfig(cert, key)
    THEN <<HttpServerConfig(c.mtls_addr, "mtls", <<cert, key>>, ca)>>
    ELSE <<>>

-----------------------------------------------------------------------------
(* The manager                                                              *)

\* watch::Sender::send; on an error the previous configuration is kept.
Publish(s, derived) ==
    IF derived = <<>> THEN UNCHANGED <<published, servers>>
    ELSE /\ published' = [published EXCEPT ![s] = derived[1]]
         /\ servers' = [servers EXCEPT ![s].changed = TRUE]

\* send_config starts to read: what was overlooked before is read now.
SendConfig(c) ==
    manager' = [manager EXCEPT !.pc = "http_cert", !.config = c, !.overlooked = FALSE]

\* SIGHUP: the environment is read again.  When load_config refuses it only
\* the monitor is updated.
Sighup(e) ==
    /\ manager.pc = "idle" /\ reloads < MaxReloads
    /\ reloads' = reloads + 1
    /\ IF LoadConfig(e) # <<>> THEN SendConfig(LoadConfig(e)[1])
       ELSE manager' = [manager EXCEPT !.pc = "update_cert", !.config = config,
                          !.overlooked = @ \/ \E f \in Files : Read(config, f) # seen[f]]
    /\ UNCHANGED <<files, config, published, seen, servers, writes>>

Tick ==
    /\ manager.pc = "idle"
    /\ manager' = [manager EXCEPT !.pc = "check_cert"]
    /\ UNCHANGED <<files, config, published, seen, servers, writes, reloads>>

HasChanges(f) == Read(config, f) # seen[f]

\* Bug: a change is recorded and nothing is loaded.
CheckFileRecords(f, pc, next) ==
    /\ manager.pc = pc
    /\ manager' = [manager EXCEPT !.pc = IF HasChanges(f) THEN "update_cert" ELSE next]
    /\ UNCHANGED <<files, config, published, seen, servers, writes, reloads>>

CheckFile(f, pc, next) ==
    /\ manager.pc = pc
    /\ IF HasChanges(f) THEN SendConfig(config)
       ELSE manager' = [manager EXCEPT !.pc = next]
    /\ UNCHANGED <<files, config, published, seen, servers, writes, reloads>>

ReadFile(f, pc, next) ==
    /\ manager.pc = pc
    /\ manager' = [manager EXCEPT !.pc = next, ![f] = Read(manager.config, f)]
    /\ UNCHANGED <<files, config, published, seen, servers, writes, reloads>>

PublishHttp ==
    /\ manager.pc = "http_publish"
    /\ Publish("http", DeriveHttpConfig(manager.config, manager.cert, manager.key))
    /\ manager' = [manager EXCEPT !.pc = "mtls_ca"]
    /\ UNCHANGED <<files, config, seen, writes, reloads>>

\* The mTLS configuration, then the configuration itself.
PublishMtls ==
    /\ manager.pc = "mtls_publish"
    /\ Publish("mtls", DeriveMtlsHttpConfig(manager.config, manager.cert, manager.key, manager.ca))
    /\ config' = manager.config
    /\ manager' = [manager EXCEPT !.pc = "update_cert", !.cert = Gone, !.key = Gone, !.ca = Gone]
    /\ UNCHANGED <<files, seen, writes, reloads>>

UpdateMonitor(f, pc, next) ==
    /\ manager.pc = pc
    /\ seen' = [seen EXCEPT ![f] = Read(manager.config, f)]
    /\ manager' = [manager EXCEPT !.pc = next]
    /\ UNCHANGED <<files, config, published, servers, writes, reloads>>

AllReceiversDropped == \A s \in Servers : servers[s].phase = "stopped"

\* Looked at every second.
ManagerEnds ==
    /\ manager.pc = "idle" /\ AllReceiversDropped
    /\ manager' = [manager EXCEPT !.pc = "ended"]
    /\ UNCHANGED <<files, config, published, seen, servers, writes, reloads>>

\* A write after the manager began to read may be recorded as seen without
\* having been loaded.
WriteFile(f, v) ==
    /\ writes < MaxWrites /\ v # files[f]
    /\ writes' = writes + 1
    /\ files' = [files EXCEPT ![f] = v]
    /\ manager' = [manager EXCEPT !.overlooked =
                     @ \/ manager.pc \notin {"idle", "check_cert", "check_key", "check_ca", "ended"}]
    /\ UNCHANGED <<config, published, seen, servers, reloads>>

-----------------------------------------------------------------------------
(* The servers                                                              *)

\* Bug: only another address restarts the server.
HandleConfigChangeSameAddr(s) ==
    LET srv == servers[s] new == published[s] IN
    /\ srv.phase = "idle" /\ srv.changed
    /\ servers' = [servers EXCEPT ![s] =
         IF new.addr = srv.current.addr THEN [srv EXCEPT !.changed = FALSE]
         ELSE [srv EXCEPT !.changed = FALSE, !.next = new, !.phase = "stopping", !.attempts = 0]]
    /\ UNCHANGED <<files, config, published, seen, manager, writes, reloads>>

\* A server that is not wanted as it is starts to shut down.
HandleConfigChange(s) ==
    LET srv == servers[s] new == published[s] IN
    /\ srv.phase = "idle" /\ srv.changed
    /\ servers' = [servers EXCEPT ![s] =
         IF new = srv.current THEN [srv EXCEPT !.changed = FALSE]
         ELSE [srv EXCEPT !.changed = FALSE, !.next = new, !.phase = "stopping", !.attempts = 0]]
    /\ UNCHANGED <<files, config, published, seen, manager, writes, reloads>>

\* RunningServer::shutdown returns, the task ended or was aborted: only now
\* is the address free for the next server.
Shutdown(s) ==
    LET srv == servers[s] IN
    /\ srv.phase = "stopping"
    /\ servers' = [servers EXCEPT ![s] =
         IF srv.next = None
         THEN [srv EXCEPT !.running = None, !.phase = "idle", !.current = None,
                          !.address = 0, !.router = None]
         ELSE [srv EXCEPT !.running = None, !.phase = "starting"]]
    /\ UNCHANGED <<files, config, published, seen, manager, writes, reloads>>

\* spawn_server: the task is listening, or it has ended (the address is
\* taken) or has not been heard of in time.
Listening(s, outcome) ==
    /\ outcome = "listening"
    /\ \A other \in Servers \ {s} : servers[other].running.addr # servers[s].next.addr

\* spawn_server_with_retry; when every attempt has failed the server is
\* offline and the configuration counts as applied.
SpawnServer(s, outcome) ==
    LET srv == servers[s] ok == Listening(s, outcome) IN
    /\ srv.phase = "starting"
    /\ servers' = [servers EXCEPT ![s] =
         IF ~ok /\ srv.attempts + 1 < max_retries THEN [srv EXCEPT !.attempts = @ + 1]
         ELSE [srv EXCEPT !.phase = "idle", !.current = srv.next, !.next = None, !.attempts = 0,
                          !.running = IF ok THEN srv.next ELSE None,
                          !.address = IF ok THEN srv.next.addr ELSE 0,
                          !.router = IF ok THEN srv.next ELSE @]]
    /\ UNCHANGED <<files, config, published, seen, manager, writes, reloads>>

\* The last sender of the actor is dropped.
StopServer(s) ==
    /\ servers[s].phase = "idle"
    /\ servers' = [servers EXCEPT ![s].phase = "stopped", ![s].running = None, ![s].address = 0]
    /\ UNCHANGED <<files, config, published, seen, manager, writes, reloads>>

-----------------------------------------------------------------------------
NewServer(c) ==
    [current |-> c, running |-> c, address |-> c.addr, router |-> c, next |-> None, phase |-> "idle",
     attempts |-> 0, changed |-> FALSE]

\* ConfigManager::new has derived both configurations and the servers have
\* started; the monitor is about to read the files for the first time.
ServerConfigInit ==
    /\ files = [f \in Files |-> CHOOSE v \in Versions : TRUE]
    /\ config \in {c \in {LoadConfig(e)[1] : e \in InitialEnvironments} :
          /\ DeriveHttpConfig(c, files["cert"], files["key"]) # <<>>
          /\ DeriveMtlsHttpConfig(c, files["cert"], files["key"], files["ca"]) # <<>>}
    /\ published = [s \in Servers |->
          IF s = "http" THEN DeriveHttpConfig(config, files["cert"], files["key"])[1]
          ELSE DeriveMtlsHttpConfig(config, files["cert"], files["key"], files["ca"])[1]]
    /\ servers = [s \in Servers |-> NewServer(published[s])]
    /\ seen = [f \in Files |-> Gone]
    /\ manager = [pc |-> "update_cert", config |-> config, cert |-> Gone, key |-> Gone,
                  ca |-> Gone, overlooked |-> FALSE]
    /\ writes = 0 /\ reloads = 0

ManagerStep ==
    \/ CheckFile("cert", "check_cert", "check_key")
    \/ CheckFile("key", "check_key", "check_ca")
    \/ CheckFile("ca", "check_ca", "idle")
    \/ ReadFile("cert", "http_cert", "http_key")
    \/ ReadFile("key", "http_key", "http_publish")
    \/ PublishHttp
    \/ ReadFile("ca", "mtls_ca", "mtls_cert")
    \/ ReadFile("cert", "mtls_cert", "mtls_key")
    \/ ReadFile("key", "mtls_key", "mtls_publish")
    \/ PublishMtls
    \/ UpdateMonitor("cert", "update_cert", "update_key")
    \/ UpdateMonitor("key", "update_key", "update_ca")
    \/ UpdateMonitor("ca", "update_ca", "idle")

Outcomes == {"listening", "ended", "timed out"}
ServerStep(s) ==
    HandleConfigChange(s) \/ Shutdown(s) \/ \E outcome \in Outcomes : SpawnServer(s, outcome)

ServerConfigNext ==
    \/ ManagerStep \/ Tick \/ ManagerEnds
    \/ \E e \in Environments : Sighup(e)
    \/ \E f \in Files, v \in Versions \cup {Gone} : WriteFile(f, v)
    \/ \E s \in Servers : ServerStep(s) \/ StopServer(s)

\* The tasks keep running, the interval keeps ticking.
ServerConfigFairness ==
    /\ WF_serverConfigVars(ManagerStep) /\ WF_serverConfigVars(Tick)
    /\ \A s \in Servers : WF_serverConfigVars(ServerStep(s))

ServerConfigSpec ==
    ServerConfigInit /\ [][ServerConfigNext]_serverConfigVars /\ ServerConfigFairness

-----------------------------------------------------------------------------
(* Properties                                                               *)

(* The certificate and the key of a running server belong together, though  *)
(* the two files are read one after the other and may be replaced between   *)
(* the reads (load_server_identity).                                        *)
ServedPairMatches ==
    \A s \in Servers : servers[s].running # None /\ servers[s].running.tls # "none" =>
        servers[s].running.identity[1] = servers[s].running.identity[2]

\* Nothing is left to do until a file or the environment changes.
Settled ==
    /\ manager.pc = "idle" /\ \A f \in Files : Read(config, f) = seen[f]
    /\ \A s \in Servers : servers[s].phase = "idle" /\ ~servers[s].changed

\* The servers that run have the content of the files, when it is usable, and
\* are found at the address that is announced.
FilesAreServed ==
    LET derived == [s \in Servers |->
            IF s = "http" THEN DeriveHttpConfig(config, files["cert"], files["key"])
            ELSE DeriveMtlsHttpConfig(config, files["cert"], files["key"], files["ca"])]
    IN  \A s \in Servers : derived[s] # <<>> =>
            /\ servers[s].current = derived[s][1] /\ servers[s].running \in {None, derived[s][1]}
            /\ servers[s].address = servers[s].running.addr

(* When nothing is left to do, the servers have the certificates that are   *)
(* in the files, except after a write during a reload or a refused          *)
(* environment: has_changes compares with what send_config loaded           *)
(* (handle_sighup, TlsFilesMonitor).                                        *)
RotationServed == Settled /\ ~manager.overlooked => FilesAreServed

(* A server takes over the last configuration that was published, also one  *)
(* that arrives while the server is starting with another (the loop of      *)
(* httpserver::new).                                                        *)
ServersFollow ==
    \A s \in Servers : <>[](servers[s].phase = "stopped" \/ servers[s].current = published[s])
=============================================================================
