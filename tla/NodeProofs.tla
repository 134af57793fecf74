----------------------------- MODULE NodeProofs ----------------------------
(***************************************************************************)
(* Proofs about the services of a node: the session with the database, the *)
(* configuration of the servers, the start, and what a node reports.       *)
(***************************************************************************)
EXTENDS MCNode, FiniteSetTheorems, InductionLemmas, TLAPS

-----------------------------------------------------------------------------
(* The session                                                              *)

\* While the actor connects there is no session, so what it connects with is
\* still its configuration when the session is made.
SessionInv ==
    /\ SessionConsistent
    /\ dbConfig \in SessionConfigs /\ wanted \in SessionConfigs
    /\ phase # "idle" => session = NoSession

\* One step per action.
LEMMA SessionNext ==
    ASSUME SessionInv, [DbSessionNext]_dbSessionVars
    PROVE  SessionInv'
<1> USE DEF SessionInv, SessionConsistent
<1>1. CASE UNCHANGED dbSessionVars
  BY <1>1 DEF dbSessionVars, ReconnectReasons
<1>2. CASE ReconnectTick
  BY <1>2 DEF ReconnectTick, ReconnectReasons
<1>3. CASE ConnectStep
  BY <1>3 DEF ConnectStep, NextPhase, ReconnectReasons
<1>4. CASE ConnectFails
  BY <1>4 DEF ConnectFails, CanFail, ReconnectReasons
<1>5. CASE PrepareFails
  BY <1>5 DEF PrepareFails, ReconnectReasons
<1>6. CASE Connected
  BY <1>6, DbSessionAssumption DEF Connected, ReconnectReasons
<1>7. CASE CdcError
  BY <1>7 DEF CdcError, ReconnectReasons
<1>8. CASE CancelOnError
  BY <1>8 DEF CancelOnError, ReconnectReasons
<1>9. CASE ConfigChanged
  BY <1>9 DEF ConfigChanged, ReconnectReasons
<1>10. ASSUME NEW c \in SessionConfigs, PublishConfig(c)
       PROVE  SessionInv'
  BY <1>10 DEF PublishConfig
<1>11. ASSUME NEW msg \in Messages, Receive(msg) \/ \E ok \in BOOLEAN : Process(msg, ok)
       PROVE  SessionInv'
  BY <1>11 DEF Receive, Process, ReconnectReasons
<1> QED
  BY <1>1, <1>2, <1>3, <1>4, <1>5, <1>6, <1>7, <1>8, <1>9, <1>10, <1>11 DEF DbSessionNext

(* For any configurations and messages, and however errors of the CDC      *)
(* readers and changes of the configuration fall between the steps of      *)
(* connecting, the session is the one that the actor's configuration asks  *)
(* for, and Internals knows of it exactly while it lasts (db.rs, new).     *)
THEOREM SessionKept == DbSessionSpec => []SessionConsistent
<1>1. DbSessionInit => SessionInv
  BY DEF DbSessionInit, SessionInv, SessionConsistent, ReconnectReasons
<1>2. SessionInv => SessionConsistent
  BY DEF SessionInv
<1> QED
  BY <1>1, <1>2, SessionNext, PTL DEF DbSessionSpec

-----------------------------------------------------------------------------
(* The certificates that are served                                         *)

\* The fields are all there, so that an update of one keeps the others.
ServerShape ==
    /\ DOMAIN files = Files /\ DOMAIN seen = Files
    /\ DOMAIN published = Servers /\ DOMAIN servers = Servers
    /\ DOMAIN manager = {"pc", "config", "cert", "key", "ca", "overlooked"}
    /\ \A s \in Servers : DOMAIN servers[s] =
          {"current", "running", "address", "router", "next", "phase", "attempts", "changed"}

\* The configurations that are published, or about to be served, have pairs
\* that match.
PairOk(c) == c # None /\ c.tls # "none" => c.identity[1] = c.identity[2]
PairInv ==
    \A s \in Servers :
        PairOk(published[s]) /\ PairOk(servers[s].running) /\ PairOk(servers[s].next)

\* What is derived has a pair that matches, since rustls has accepted it.
LEMMA DerivedPairs ==
    ASSUME NEW c, NEW cert, NEW key, NEW ca
    PROVE  /\ DeriveHttpConfig(c, cert, key) # <<>> =>
                  PairOk(DeriveHttpConfig(c, cert, key)[1])
           /\ DeriveMtlsHttpConfig(c, cert, key, ca) # <<>> =>
                  PairOk(DeriveMtlsHttpConfig(c, cert, key, ca)[1])
BY DEF DeriveHttpConfig, DeriveMtlsHttpConfig, BuildServerConfig, PairOk, HttpServerConfig

\* The fields after a step.
LEMMA ShapeNext ==
    ASSUME ServerShape, [ServerConfigNext]_serverConfigVars
    PROVE  ServerShape'
<1> USE DEF ServerShape
<1>1. CASE UNCHANGED serverConfigVars
  BY <1>1 DEF serverConfigVars
<1>2. ASSUME NEW s, NEW derived, Publish(s, derived)
      PROVE  /\ DOMAIN published' = Servers /\ DOMAIN servers' = Servers
             /\ \A t \in Servers : DOMAIN servers'[t] = DOMAIN servers[t]
  BY <1>2 DEF Publish
<1>3. CASE PublishHttp
  BY <1>2, <1>3 DEF PublishHttp
<1>4. CASE PublishMtls
  BY <1>2, <1>4 DEF PublishMtls
<1>5. ASSUME NEW f, NEW pc, NEW next,
             CheckFile(f, pc, next) \/ ReadFile(f, pc, next) \/ UpdateMonitor(f, pc, next)
      PROVE  ServerShape'
  BY <1>5 DEF CheckFile, ReadFile, UpdateMonitor, SendConfig
<1>6. CASE Tick \/ ManagerEnds \/ \E e \in Environments : Sighup(e)
  BY <1>6 DEF Tick, ManagerEnds, Sighup, SendConfig
<1>7. ASSUME NEW f, NEW v, WriteFile(f, v)
      PROVE  ServerShape'
  BY <1>7 DEF WriteFile
<1>8. ASSUME NEW s \in Servers, ServerStep(s) \/ StopServer(s)
      PROVE  ServerShape'
  BY <1>8 DEF ServerStep, StopServer, HandleConfigChange, Shutdown, SpawnServer
<1> QED
  BY <1>1, <1>3, <1>4, <1>5, <1>6, <1>7, <1>8 DEF ServerConfigNext, ManagerStep

\* One step per action that publishes, and one for the steps of a server.
LEMMA PairNext ==
    ASSUME ServerShape, PairInv, [ServerConfigNext]_serverConfigVars
    PROVE  PairInv'
<1> USE DEF ServerShape, PairInv
<1>1. CASE UNCHANGED <<published, servers>>
  BY <1>1
<1>2. ASSUME NEW s \in Servers, NEW derived, derived # <<>> => PairOk(derived[1]), Publish(s, derived)
      PROVE  PairInv'
  BY <1>2 DEF Publish
<1>3. CASE PublishHttp
  BY <1>2, <1>3, DerivedPairs DEF PublishHttp, Servers
<1>4. CASE PublishMtls
  BY <1>2, <1>4, DerivedPairs DEF PublishMtls, Servers
<1>5. ASSUME NEW s \in Servers, ServerStep(s) \/ StopServer(s)
      PROVE  PairInv'
  <2>1. PairOk(None)
    BY DEF PairOk
  <2>2. CASE HandleConfigChange(s)
    BY <2>2 DEF HandleConfigChange
  <2>3. CASE Shutdown(s)
    BY <2>1, <2>3 DEF Shutdown
  <2>4. ASSUME NEW outcome, SpawnServer(s, outcome)
        PROVE  PairInv'
    BY <2>1, <2>4 DEF SpawnServer
  <2>5. CASE StopServer(s)
    BY <2>1, <2>5 DEF StopServer
  <2> QED
    BY <1>5, <2>2, <2>3, <2>4, <2>5 DEF ServerStep
<1> QED
  BY <1>1, <1>3, <1>4, <1>5
     DEF ServerConfigNext, ManagerStep, serverConfigVars, CheckFile, ReadFile, UpdateMonitor, Tick,
         ManagerEnds, Sighup, WriteFile

\* At the start both servers run with what was derived.
LEMMA ServersInit == ServerConfigInit => ServerShape /\ PairInv
<1> SUFFICES ASSUME ServerConfigInit PROVE ServerShape /\ PairInv
  OBVIOUS
<1>1. ServerShape
  BY DEF ServerConfigInit, ServerShape, NewServer
<1>2. /\ \A s \in Servers : servers[s].running = published[s] /\ servers[s].next = None
      /\ PairOk(None)
  BY DEF ServerConfigInit, NewServer, PairOk
<1>3. \A s \in Servers : PairOk(published[s])
  BY DerivedPairs DEF ServerConfigInit
<1> QED
  BY <1>1, <1>2, <1>3 DEF PairInv

(* A server never runs with a certificate and a key that do not belong     *)
(* together, for any number of versions, writes and reloads, and whichever *)
(* files are replaced between the two reads (load_server_identity).        *)
THEOREM PairsMatch == ServerConfigSpec => []ServedPairMatches
<1>1. (ServerShape /\ PairInv) /\ [ServerConfigNext]_serverConfigVars => (ServerShape /\ PairInv)'
  BY ShapeNext, PairNext
<1>2. PairInv => ServedPairMatches
  BY DEF PairInv, PairOk, ServedPairMatches
<1> QED
  BY <1>1, <1>2, ServersInit, PTL DEF ServerConfigSpec

-----------------------------------------------------------------------------
(* A rotation of the certificates is served                                 *)

\* What is published for a server was derived from c and this content, if a
\* configuration can be derived from them.
HttpFollows(c, content) ==
    LET derived == DeriveHttpConfig(c, content["cert"], content["key"])
    IN  derived # <<>> => published["http"] = derived[1]
MtlsFollows(c, content) ==
    LET derived == DeriveMtlsHttpConfig(c, content["cert"], content["key"], content["ca"])
    IN  derived # <<>> => published["mtls"] = derived[1]

LoadingHttp == {"http_cert", "http_key", "http_publish"}
LoadingMtls == {"mtls_ca", "mtls_cert", "mtls_key", "mtls_publish"}
Updating == {"update_cert", "update_key", "update_ca"}
Watching == {"idle", "check_cert", "check_key", "check_ca", "ended"}

\* Unless a write was overlooked, the manager holds what is in the files: in
\* its hands while it loads, and in what it has published afterwards.  While
\* it watches, what it has published was derived from what it has seen.
ManagerInv ==
    /\ manager.pc \in LoadingHttp \cup LoadingMtls \cup Updating \cup Watching
    /\ manager.pc \in Updating => config = manager.config
    /\ ~manager.overlooked =>
        /\ manager.pc \in {"http_key", "http_publish", "mtls_key", "mtls_publish"} =>
              manager.cert = Read(manager.config, "cert")
        /\ manager.pc \in {"http_publish", "mtls_publish"} =>
              manager.key = Read(manager.config, "key")
        /\ manager.pc \in {"mtls_cert", "mtls_key", "mtls_publish"} =>
              manager.ca = Read(manager.config, "ca")
        /\ manager.pc \in LoadingMtls => HttpFollows(manager.config, files)
        /\ manager.pc \in Updating => HttpFollows(config, files) /\ MtlsFollows(config, files)
        /\ manager.pc \in {"update_key", "update_ca"} => seen["cert"] = Read(config, "cert")
        /\ manager.pc = "update_ca" => seen["key"] = Read(config, "key")
        /\ manager.pc \in Watching => HttpFollows(config, seen) /\ MtlsFollows(config, seen)

\* A server without news has taken over what is published, or is about to;
\* when it rests it runs with that, or not at all, at the address it tells.
FollowInv ==
    \A s \in Servers :
        /\ servers[s].phase \in {"idle", "stopping", "starting", "stopped"}
        /\ ~servers[s].changed =>
              /\ servers[s].phase = "idle" => servers[s].current = published[s]
              /\ servers[s].phase \in {"stopping", "starting"} => servers[s].next = published[s]
        /\ servers[s].phase = "idle" =>
              /\ servers[s].running \in {None, servers[s].current}
              /\ servers[s].address = servers[s].running.addr

\* A file whose path is not set does not matter for what is derived.
LEMMA DerivedFromReads ==
    ASSUME NEW c, NEW cert, NEW key, NEW ca,
           c["cert"] => cert = files["cert"], c["key"] => key = files["key"],
           c["ca"] => ca = files["ca"]
    PROVE  /\ DeriveHttpConfig(c, cert, key) = DeriveHttpConfig(c, files["cert"], files["key"])
           /\ DeriveMtlsHttpConfig(c, cert, key, ca)
              = DeriveMtlsHttpConfig(c, files["cert"], files["key"], files["ca"])
BY DEF DeriveHttpConfig, DeriveMtlsHttpConfig, HasIdentity, HalfIdentity

\* The steps of the manager.
LEMMA ManagerNext ==
    ASSUME ServerShape, ManagerInv, [ServerConfigNext]_serverConfigVars
    PROVE  ManagerInv'
<1> USE DEF ServerShape, ManagerInv, LoadingHttp, LoadingMtls, Updating, Watching
<1>1. CASE UNCHANGED <<files, config, published, seen, manager>>
  BY <1>1 DEF HttpFollows, MtlsFollows, Read
<1>2. ASSUME NEW c, SendConfig(c), UNCHANGED <<files, config, published, seen>>
      PROVE  ManagerInv'
  BY <1>2 DEF SendConfig
<1>3. ASSUME NEW f \in Files, NEW pc \in Watching, NEW next \in Watching, CheckFile(f, pc, next)
      PROVE  ManagerInv'
  <2>1. CASE HasChanges(f)
    BY <1>2, <1>3, <2>1 DEF CheckFile
  <2>2. CASE ~HasChanges(f)
    BY <1>3, <2>2 DEF CheckFile, HttpFollows, MtlsFollows
  <2> QED
    BY <2>1, <2>2
<1>4. CASE Tick \/ ManagerEnds
  BY <1>4 DEF Tick, ManagerEnds, HttpFollows, MtlsFollows
<1>5. ASSUME NEW e \in Environments, Sighup(e)
      PROVE  ManagerInv'
  <2>1. CASE LoadConfig(e) # <<>>
    BY <1>2, <1>5, <2>1 DEF Sighup
  <2>2. CASE LoadConfig(e) = <<>>
    <3>1. /\ manager.pc = "idle" /\ manager'.pc = "update_cert" /\ manager'.config = config
          /\ UNCHANGED <<files, config, published, seen>>
          /\ ~manager'.overlooked =>
                ~manager.overlooked /\ \A f \in Files : Read(config, f) = seen[f]
      BY <1>5, <2>2 DEF Sighup
    <3>2. ~manager'.overlooked => HttpFollows(config, files) /\ MtlsFollows(config, files)
      BY <3>1, DerivedFromReads DEF HttpFollows, MtlsFollows, Read, Files
    <3> QED
      BY <3>1, <3>2 DEF HttpFollows, MtlsFollows
  <2> QED
    BY <2>1, <2>2
<1>6. CASE ReadFile("cert", "http_cert", "http_key")
  BY <1>6 DEF ReadFile, Read
<1>7. CASE ReadFile("key", "http_key", "http_publish")
  BY <1>7 DEF ReadFile, Read
<1>8. CASE ReadFile("ca", "mtls_ca", "mtls_cert")
  BY <1>8 DEF ReadFile, Read, HttpFollows
<1>9. CASE ReadFile("cert", "mtls_cert", "mtls_key")
  BY <1>9 DEF ReadFile, Read, HttpFollows
<1>10. CASE ReadFile("key", "mtls_key", "mtls_publish")
  BY <1>10 DEF ReadFile, Read, HttpFollows
<1>11. CASE PublishHttp
  <2> DEFINE c == manager.config
             derived == DeriveHttpConfig(c, manager.cert, manager.key)
  <2>1. /\ manager.pc = "http_publish" /\ manager'.pc = "mtls_ca" /\ manager'.config = c
        /\ manager'.overlooked = manager.overlooked
        /\ UNCHANGED <<files, config, seen>> /\ Publish("http", derived)
    BY <1>11 DEF PublishHttp
  <2>2. ~manager.overlooked =>
          derived = DeriveHttpConfig(c, files["cert"], files["key"])
    BY <2>1, DerivedFromReads DEF Read
  <2>3. derived # <<>> => published'["http"] = derived[1]
    BY <2>1 DEF Publish, Servers
  <2> QED
    BY <2>1, <2>2, <2>3 DEF HttpFollows
<1>12. CASE PublishMtls
  <2> DEFINE c == manager.config
             derived == DeriveMtlsHttpConfig(c, manager.cert, manager.key, manager.ca)
  <2>1. /\ manager.pc = "mtls_publish" /\ manager'.pc = "update_cert" /\ manager'.config = c
        /\ manager'.overlooked = manager.overlooked /\ config' = c
        /\ UNCHANGED <<files, seen>> /\ Publish("mtls", derived)
    BY <1>12 DEF PublishMtls
  <2>2. ~manager.overlooked =>
          derived = DeriveMtlsHttpConfig(c, files["cert"], files["key"], files["ca"])
    BY <2>1, DerivedFromReads DEF Read
  <2>3. /\ derived # <<>> => published'["mtls"] = derived[1]
        /\ published'["http"] = published["http"]
    BY <2>1 DEF Publish, Servers
  <2> QED
    BY <2>1, <2>2, <2>3 DEF HttpFollows, MtlsFollows
<1>13. CASE UpdateMonitor("cert", "update_cert", "update_key")
  BY <1>13 DEF UpdateMonitor, Read, HttpFollows, MtlsFollows, Files
<1>14. CASE UpdateMonitor("key", "update_key", "update_ca")
  BY <1>14 DEF UpdateMonitor, Read, HttpFollows, MtlsFollows, Files
<1>15. CASE UpdateMonitor("ca", "update_ca", "idle")
  <2>1. /\ manager.pc = "update_ca" /\ manager'.pc = "idle"
        /\ manager'.overlooked = manager.overlooked /\ UNCHANGED <<files, config, published>>
    BY <1>15 DEF UpdateMonitor
  <2>2. /\ seen'["cert"] = seen["cert"] /\ seen'["key"] = seen["key"]
        /\ seen'["ca"] = Read(config, "ca")
    BY <1>15, <2>1 DEF UpdateMonitor, Files
  <2>3. ~manager.overlooked =>
          /\ seen'["cert"] = Read(config, "cert") /\ seen'["key"] = Read(config, "key")
    BY <2>1, <2>2
  <2>4. ~manager.overlooked =>
          /\ DeriveHttpConfig(config, seen'["cert"], seen'["key"])
             = DeriveHttpConfig(config, files["cert"], files["key"])
          /\ DeriveMtlsHttpConfig(config, seen'["cert"], seen'["key"], seen'["ca"])
             = DeriveMtlsHttpConfig(config, files["cert"], files["key"], files["ca"])
    BY <2>2, <2>3, DerivedFromReads DEF Read
  <2> QED
    BY <2>1, <2>4 DEF HttpFollows, MtlsFollows
<1>16. ASSUME NEW f \in Files, NEW v, WriteFile(f, v)
       PROVE  ManagerInv'
  BY <1>16 DEF WriteFile, HttpFollows, MtlsFollows
<1> QED
  BY <1>1, <1>3, <1>4, <1>5, <1>6, <1>7, <1>8, <1>9, <1>10, <1>11, <1>12, <1>13, <1>14, <1>15, <1>16
     DEF ServerConfigNext, ManagerStep, serverConfigVars, ServerStep, StopServer, HandleConfigChange,
         Shutdown, SpawnServer, Files

\* The steps of the servers, and news for them.
LEMMA FollowNext ==
    ASSUME ServerShape, FollowInv, [ServerConfigNext]_serverConfigVars
    PROVE  FollowInv'
<1> USE DEF ServerShape, FollowInv
<1>1. CASE UNCHANGED <<published, servers>>
  BY <1>1
<1>2. ASSUME NEW s \in Servers, NEW derived, Publish(s, derived)
      PROVE  FollowInv'
  BY <1>2 DEF Publish
<1>3. CASE PublishHttp \/ PublishMtls
  BY <1>2, <1>3 DEF PublishHttp, PublishMtls, Servers
<1>4. ASSUME NEW s \in Servers, HandleConfigChange(s)
      PROVE  FollowInv'
  BY <1>4 DEF HandleConfigChange
<1>5. ASSUME NEW s \in Servers, Shutdown(s)
      PROVE  FollowInv'
  BY <1>5 DEF Shutdown, None, HttpServerConfig
<1>6. ASSUME NEW s \in Servers, NEW outcome, SpawnServer(s, outcome)
      PROVE  FollowInv'
  BY <1>6 DEF SpawnServer, None, HttpServerConfig
<1>7. ASSUME NEW s \in Servers, StopServer(s)
      PROVE  FollowInv'
  BY <1>7 DEF StopServer
<1> QED
  BY <1>1, <1>3, <1>4, <1>5, <1>6, <1>7
     DEF ServerConfigNext, ManagerStep, serverConfigVars, ServerStep, CheckFile, ReadFile,
         UpdateMonitor, Tick, ManagerEnds, Sighup, WriteFile

\* At the start the monitor has yet to look at the files.
LEMMA RotationInit == ServerConfigInit => ManagerInv /\ FollowInv
<1> SUFFICES ASSUME ServerConfigInit PROVE ManagerInv /\ FollowInv
  OBVIOUS
<1>1. ManagerInv
  BY DEF ServerConfigInit, ManagerInv, HttpFollows, MtlsFollows, LoadingHttp, LoadingMtls, Updating,
         Watching, Servers
<1>2. FollowInv
  BY DEF ServerConfigInit, FollowInv, NewServer
<1> QED
  BY <1>1, <1>2

\* What was seen is what is in the files.
LEMMA RotationIsServed == ManagerInv /\ FollowInv => RotationServed
<1> SUFFICES ASSUME ManagerInv, FollowInv, Settled, ~manager.overlooked PROVE FilesAreServed
  BY DEF RotationServed
<1>1. /\ HttpFollows(config, seen) /\ MtlsFollows(config, seen)
      /\ \A f \in Files : Read(config, f) = seen[f]
  BY DEF ManagerInv, Settled, Watching
<1>2. HttpFollows(config, files) /\ MtlsFollows(config, files)
  BY <1>1, DerivedFromReads DEF HttpFollows, MtlsFollows, Read, Files
<1>3. \A s \in Servers : /\ servers[s].current = published[s]
                         /\ servers[s].running \in {None, published[s]}
                         /\ servers[s].address = servers[s].running.addr
  BY DEF FollowInv, Settled
<1> QED
  BY <1>2, <1>3 DEF FilesAreServed, HttpFollows, MtlsFollows, Servers

-----------------------------------------------------------------------------
(* The start                                                                *)

BeforeFactory == {"load", "manager", "opensearch", "diskann", "factory"}
AfterFactory == {"http", "mtls", "address", "listening"}

StartupShape ==
    /\ DOMAIN boot = {"at", "runtime", "opensearch", "diskann", "factory", "announced"}
    /\ DOMAIN serving = {"http", "mtls"}
    /\ \A server \in {"http", "mtls"} : DOMAIN serving[server] = {"addr", "version"}
    /\ hangups \in Nat
    /\ boot.at \in BeforeFactory \cup AfterFactory \cup Over

\* A server runs only once the factory is chosen, and tells its engine.
EngineInv ==
    /\ boot.at \in AfterFactory => boot.factory # NotSet
    /\ \A server \in {"http", "mtls"} :
          /\ boot.at \in BeforeFactory \cup AfterFactory /\ ~Started(server) =>
                serving[server].addr = 0
          /\ Started(server) => serving[server].version = IndexEngineVersion(boot.factory)
          /\ serving[server].addr # 0 =>
                /\ boot.factory # NotSet
                /\ serving[server].version = IndexEngineVersion(boot.factory)

\* Without a SIGHUP the configuration is still the one that was read before.
SameConfig ==
    hangups = 0 =>
        /\ boot.at \in (BeforeFactory \cup AfterFactory) \ Loading => wants = Addresses(current)
        /\ boot.at \in AfterFactory \cup {"diskann", "factory"} =>
              boot.opensearch = current.opensearch
        /\ boot.at \in AfterFactory \cup {"factory"} => boot.diskann = current.diskann
        /\ boot.at \in AfterFactory =>
              boot.factory = Chosen(boot.opensearch, boot.diskann, current)
        /\ \A server \in {"http", "mtls"} :
              Started(server) => serving[server].addr = wants[server]
        /\ boot.at = "listening" => boot.announced = serving["http"].addr

StartupInv ==
    /\ StartupShape /\ EngineInv /\ SameConfig
    /\ boot.at = "listening" => boot.announced # 0

\* One step per action.
LEMMA StartupNextInv ==
    ASSUME StartupInv, [StartupNext]_startupVars
    PROVE  StartupInv'
<1> USE DEF StartupInv, StartupShape, EngineInv, SameConfig, BeforeFactory, AfterFactory, Over,
            Loading, Started
<1>1. CASE UNCHANGED startupVars
  BY <1>1 DEF startupVars
<1>2. CASE LoadConfiguration
  BY <1>2 DEF LoadConfiguration, To
<1>3. CASE StartManager
  BY <1>3 DEF StartManager, To
<1>4. CASE ReadOpensearch
  BY <1>4 DEF ReadOpensearch
<1>5. CASE ReadDiskann
  BY <1>5 DEF ReadDiskann
<1>6. CASE ChooseFactory
  BY <1>6 DEF ChooseFactory
<1>7. CASE StartServer("http", "mtls")
  BY <1>7 DEF StartServer, RoutesInnerState, To
<1>8. CASE StartServer("mtls", "address")
  BY <1>8 DEF StartServer, RoutesInnerState, To
<1>9. CASE AskAddress
  BY <1>9 DEF AskAddress
<1>10. CASE Hangup
  BY <1>10 DEF Hangup
<1>11. CASE Signal
  BY <1>11 DEF Signal, To
<1>12. ASSUME NEW server \in {"http", "mtls"}, RestartServer(server)
       PROVE  StartupInv'
  BY <1>12 DEF RestartServer
<1> QED
  BY <1>1, <1>2, <1>3, <1>4, <1>5, <1>6, <1>7, <1>8, <1>9, <1>10, <1>11, <1>12
     DEF StartupNext, Main

\* At the start nothing has been read.
LEMMA StartupInitInv == StartupInit => StartupInv
BY DEF StartupInit, StartupInv, StartupShape, EngineInv, SameConfig, BeforeFactory, AfterFactory,
       Over, Loading, Started, BeforeStart, NotServing

\* The factory that was chosen says what was configured.
LEMMA StartupIsRight == StartupInv => StartupRight
<1> SUFFICES ASSUME StartupInv PROVE StartupRight
  OBVIOUS
<1>1. \A server \in DOMAIN serving : serving[server].addr # 0 =>
         boot.factory # NotSet /\ GetInfo(server) = IndexEngineVersion(boot.factory)
  BY DEF StartupInv, StartupShape, EngineInv, GetInfo
<1>2. ASSUME boot.at = "listening", hangups = 0
      PROVE  /\ boot.announced = current.addr
             /\ serving["mtls"].addr = current.mtls_addr
             /\ current.opensearch # NotSet => boot.factory = "opensearch"
             /\ boot.factory \in {"diskann in memory", "diskann on scylla"} =>
                   current.opensearch = NotSet /\ current.diskann # NotSet
  <2>1. /\ wants = Addresses(current) /\ boot.announced = serving["http"].addr
        /\ serving["http"].addr = wants["http"] /\ serving["mtls"].addr = wants["mtls"]
        /\ boot.factory = Chosen(current.opensearch, current.diskann, current)
        /\ boot.factory # NotSet
    BY <1>2 DEF StartupInv, EngineInv, SameConfig, AfterFactory, BeforeFactory, Loading, Started
  <2>2. boot.announced = current.addr /\ serving["mtls"].addr = current.mtls_addr
    BY <2>1 DEF Addresses
  <2> QED
    BY <2>1, <2>2 DEF Chosen, NewOpensearch, NewDiskann, NewUsearch, NotSet
<1> QED
  BY <1>1, <1>2 DEF StartupRight, StartupInv

(* When nothing is left to do, the servers have the certificates that are  *)
(* in the files unless a write was overlooked, whatever the order of       *)
(* writes, reloads and restarts; and a node tells its engine and announces *)
(* its address as it should, whenever SIGHUPs arrive during its start      *)
(* (ConfigManager, httpserver, run).                                       *)
THEOREM NodeServes == ServerConfigSpec /\ StartupSpec => []ServersServe
<1> DEFINE RotationInv == ServerShape /\ ManagerInv /\ FollowInv
<1>1. ServerConfigInit => RotationInv
  BY ServersInit, RotationInit
<1>2. RotationInv /\ [ServerConfigNext]_serverConfigVars => RotationInv'
  BY ShapeNext, ManagerNext, FollowNext
<1>3. ServerConfigSpec => []RotationInv
  BY <1>1, <1>2, PTL DEF ServerConfigSpec
<1>4. StartupSpec => []StartupInv
  BY StartupInitInv, StartupNextInv, PTL DEF StartupSpec
<1>5. RotationInv /\ StartupInv => ServersServe
  BY RotationIsServed, StartupIsRight DEF ServersServe
<1> QED
  BY <1>3, <1>4, <1>5, PTL

-----------------------------------------------------------------------------
(* The series of an index                                                   *)

\* What a request holds: only one whose index is gone has counted more than
\* the index has.
RequestInv(request) ==
    /\ request.old => request.pc \in {"found", "counted"}
    /\ ~request.old /\ request.pc \in {"found", "counted"} => engine
    /\ ~request.old /\ request.pc = "counted" => request.n <= items

\* The rows that were marked are in what was set last, or in what a request
\* is about to set, or a request has yet to count them.
WillSet(request) == ~request.old /\ request.pc = "counted" /\ request.n >= marked
WillCount(request) == ~request.old /\ request.pc \in {"asking", "found"}
MarkInv ==
    /\ refreshed = "counted" => newest >= marked \/ \E g \in Scrapers : WillSet(scrape[g])
    /\ refreshed = "no" /\ ~dirty => newest >= marked \/ \E g \in Scrapers : WillCount(scrape[g])

RequestPhases == {"idle", "collected", "asking", "found", "counted"}
RequestType == [pc : RequestPhases, n : Nat, old : BOOLEAN]
SeriesType ==
    /\ scrape \in [Scrapers -> RequestType]
    /\ rowsSent \in Nat /\ items \in Nat /\ marked \in Nat /\ newest \in Nat
    /\ engine \in BOOLEAN /\ dirty \in BOOLEAN /\ overtaken \in BOOLEAN
    /\ refreshed \in {"no", "failed", "counted"}
SizeInv ==
    /\ marked <= items /\ newest <= items
    /\ ~engine => rowsSent = 0 /\ items = 0
    /\ ~overtaken => ValueOf("size") = newest
RequestsInv == \A g \in Scrapers : RequestInv(scrape[g])
SeriesInv == SeriesType /\ SizeInv /\ RequestsInv /\ MarkInv

\* The size after other series are set, or it is.
LEMMA SizeSet ==
    ASSUME NEW families, NEW value, series' = SetTo(families, value)
    PROVE  ValueOf("size")' = IF "size" \in families THEN value ELSE ValueOf("size")
BY DEF SetTo, ValueOf

\* What was written is right when nothing is on its way.
LEMMA SeriesInvRight == SeriesInv => SeriesRight
<1> SUFFICES ASSUME SeriesInv, engine, ~overtaken
             PROVE  /\ ValueOf("size") <= items
                    /\ ~dirty /\ (\A g \in Scrapers : scrape[g].pc = "idle") =>
                          ValueOf("size") >= marked \/ refreshed = "failed"
  BY DEF SeriesRight
<1>1. ValueOf("size") = newest /\ newest <= items
  BY DEF SeriesInv, SizeInv
<1>2. ASSUME \A g \in Scrapers : scrape[g].pc = "idle"
      PROVE  \A g \in Scrapers : ~WillSet(scrape[g]) /\ ~WillCount(scrape[g])
  BY <1>2 DEF WillSet, WillCount
<1> QED
  BY <1>1, <1>2 DEF SeriesInv, SeriesType, MarkInv

\* What every step of monitor_items and of a search keeps.
LEMMA SenderStepInv ==
    ASSUME SeriesInv, SendRow \/ CountModified \/ MarkDirty \/ ApplyRow \/ TimeSearch
    PROVE  SeriesInv'
<1> USE DEF SeriesInv
<1>1. /\ scrape' = scrape /\ newest' = newest /\ overtaken' = overtaken /\ engine' = engine
      /\ rowsSent' \in Nat /\ items' \in Nat /\ items' >= items
      /\ ~engine => rowsSent' = 0 /\ items' = 0
      /\ \/ UNCHANGED <<marked, refreshed, dirty>>
         \/ marked' = items /\ items' = items /\ refreshed' = "no" /\ dirty' = TRUE
  BY DEF SendRow, CountModified, MarkDirty, ApplyRow, TimeSearch, requestVars, historyVars,
         SeriesType, SizeInv
<1>2. ValueOf("size")' = ValueOf("size")
  <2>1. CASE series' = series
    BY <2>1 DEF ValueOf
  <2>2. CASE CountModified
    BY <2>2, SizeSet DEF CountModified
  <2>3. CASE TimeSearch
    BY <2>3, SizeSet DEF TimeSearch
  <2> QED
    BY <2>1, <2>2, <2>3 DEF SendRow, MarkDirty, ApplyRow
<1>3. SeriesType' /\ SizeInv'
  <2>1. SeriesType'
    BY <1>1 DEF SeriesType
  <2>2. marked' <= items' /\ newest' <= items' /\ (~engine' => rowsSent' = 0 /\ items' = 0)
    BY <1>1 DEF SeriesType, SizeInv
  <2>3. ~overtaken' => ValueOf("size")' = newest'
    BY <1>1, <1>2 DEF SizeInv
  <2> QED
    BY <2>1, <2>2, <2>3 DEF SizeInv
<1>4. RequestsInv'
  <2> SUFFICES ASSUME NEW g \in Scrapers
               PROVE  RequestInv(scrape[g])'
    BY DEF RequestsInv
  <2> QED
    BY <1>1 DEF RequestsInv, RequestInv, SeriesType, RequestType
<1>5. MarkInv'
  BY <1>1 DEF MarkInv, WillSet, WillCount
<1> QED
  BY <1>3, <1>4, <1>5

\* A request that goes on: the others are as they were.
LEMMA RequestStepInv ==
    ASSUME SeriesInv, NEW g \in Scrapers,
           CollectDirty(g) \/ RemoveDirty(g) \/ FindIndex(g) \/ CountItems(g) \/ CountFails(g)
    PROVE  SeriesInv'
<1> USE DEF SeriesInv
<1> DEFINE now == scrape[g]
           then == scrape'[g]
<1>1. now \in RequestType /\ RequestInv(now) /\ scrape \in [Scrapers -> RequestType]
  BY DEF SeriesType, RequestsInv
<1>2. /\ UNCHANGED <<engine, rowsSent, items, marked, newest, overtaken, series>>
      /\ then \in RequestType /\ scrape' = [scrape EXCEPT ![g] = then]
      /\ RequestInv(then)
      /\ refreshed' \in {"no", "failed", "counted"} /\ dirty' \in BOOLEAN
      /\ refreshed' = "counted" =>
            \/ refreshed = "counted" /\ now.pc # "counted"
            \/ WillSet(then)
      /\ refreshed' = "no" /\ ~dirty' =>
            refreshed = "no" /\ (WillCount(then) \/ marked = 0 \/ (~dirty /\ ~WillCount(now)))
  <2> USE DEF RequestInv, WillSet, WillCount, RequestType, RequestPhases
  <2>1. CASE CollectDirty(g)
    <3>1. /\ now.pc = "idle" /\ dirty
          /\ scrape' = [scrape EXCEPT ![g].pc = "collected"]
          /\ UNCHANGED <<engine, rowsSent, items, marked, newest, overtaken, series, refreshed, dirty>>
      BY <2>1 DEF CollectDirty, Asks, historyVars
    <3>2. then = [now EXCEPT !.pc = "collected"]
      BY <1>1, <3>1
    <3> QED
      BY <1>1, <3>1, <3>2 DEF SeriesType
  <2>2. CASE RemoveDirty(g)
    <3>1. /\ now.pc = "collected" /\ dirty' = FALSE
          /\ scrape' = [scrape EXCEPT ![g].pc = "asking"]
          /\ UNCHANGED <<engine, rowsSent, items, marked, newest, overtaken, series, refreshed>>
      BY <2>2 DEF RemoveDirty, Asks, historyVars
    <3>2. then = [now EXCEPT !.pc = "asking"]
      BY <1>1, <3>1
    <3> QED
      BY <1>1, <3>1, <3>2 DEF SeriesType
  <2>3. CASE FindIndex(g) /\ engine
    <3>1. /\ now.pc = "asking" /\ scrape' = [scrape EXCEPT ![g].pc = "found"]
          /\ UNCHANGED <<engine, rowsSent, items, marked, newest, overtaken, series, refreshed, dirty>>
      BY <2>3 DEF FindIndex, Asks, historyVars
    <3>2. then = [now EXCEPT !.pc = "found"]
      BY <1>1, <3>1
    <3> QED
      BY <1>1, <2>3, <3>1, <3>2 DEF SeriesType
  <2>4. CASE FindIndex(g) /\ ~engine
    <3>1. /\ now.pc = "asking" /\ scrape' = [scrape EXCEPT ![g] = NoScrape]
          /\ UNCHANGED <<engine, rowsSent, items, marked, newest, overtaken, series, refreshed, dirty>>
      BY <2>4 DEF FindIndex, historyVars
    <3>2. then = NoScrape
      BY <1>1, <3>1
    <3>3. marked = 0
      BY <2>4 DEF SizeInv, SeriesType
    <3> QED
      BY <1>1, <3>1, <3>2, <3>3 DEF SeriesType, NoScrape
  <2>5. CASE CountItems(g)
    <3>1. PICK n \in Answers(g) :
             /\ scrape' = [scrape EXCEPT ![g].pc = "counted", ![g].n = n]
             /\ IF scrape[g].old THEN UNCHANGED refreshed ELSE Noted(n = items)
      BY <2>5 DEF CountItems
    <3>2. /\ now.pc = "found"
          /\ UNCHANGED <<engine, rowsSent, items, marked, newest, overtaken, series, dirty>>
      BY <2>5 DEF CountItems
    <3>3. then = [now EXCEPT !.pc = "counted", !.n = n] /\ scrape' = [scrape EXCEPT ![g] = then]
      BY <1>1, <3>1
    <3>4. n \in Nat /\ (~now.old => n <= items)
      BY <1>1 DEF Answers, SeriesType
    <3>5. then.pc = "counted" /\ then.n = n /\ then.old = now.old /\ then \in RequestType
      BY <1>1, <3>3, <3>4
    <3>6. now.old => refreshed' = refreshed
      BY <3>1
    <3>7. ~now.old => refreshed' = IF n = items THEN "counted"
                                   ELSE IF refreshed = "no" THEN "failed" ELSE refreshed
      BY <3>1 DEF Noted
    <3>8. marked <= items /\ items \in Nat /\ marked \in Nat /\ refreshed \in {"no", "failed", "counted"}
          /\ dirty \in BOOLEAN
      BY DEF SeriesType, SizeInv
    <3> HIDE DEF now, then
    <3>9. RequestInv(then)
      BY <1>1, <3>2, <3>4, <3>5
    <3> QED
      BY <1>1, <3>2, <3>3, <3>4, <3>5, <3>6, <3>7, <3>8, <3>9
  <2>6. CASE CountFails(g)
    <3>1. /\ now.pc = "found" /\ scrape' = [scrape EXCEPT ![g] = NoScrape]
          /\ UNCHANGED <<engine, rowsSent, items, marked, newest, overtaken, series, dirty>>
          /\ refreshed' = IF now.old THEN refreshed
                          ELSE IF refreshed = "no" THEN "failed" ELSE refreshed
      BY <2>6 DEF CountFails, Noted
    <3>2. then = NoScrape
      BY <1>1, <3>1
    <3> QED
      BY <1>1, <3>1, <3>2 DEF SeriesType, NoScrape
  <2> QED
    BY <2>1, <2>2, <2>3, <2>4, <2>5, <2>6
<1> HIDE DEF now, then
<1>3. \A h \in Scrapers : scrape'[h] = IF h = g THEN then ELSE scrape[h]
  BY <1>1, <1>2
<1>4. ValueOf("size")' = ValueOf("size")
  BY <1>2 DEF ValueOf
<1>5. SeriesType' /\ SizeInv'
  BY <1>1, <1>2, <1>4 DEF SeriesType, SizeInv
<1>6. RequestsInv'
  <2> SUFFICES ASSUME NEW h \in Scrapers
               PROVE  RequestInv(scrape[h])'
    BY DEF RequestsInv
  <2>1. RequestInv(scrape[h])
    BY DEF RequestsInv
  <2> QED
    BY <1>2, <1>3, <2>1 DEF RequestInv, then
<1>7. MarkInv'
  <2>1. ASSUME refreshed' = "counted"
        PROVE  newest >= marked \/ \E h \in Scrapers : WillSet(scrape[h])'
    <3>1. CASE WillSet(then)
      BY <1>2, <1>3, <3>1 DEF WillSet, then
    <3>2. CASE refreshed = "counted" /\ now.pc # "counted" /\ ~(newest >= marked)
      <4>1. PICK h \in Scrapers : WillSet(scrape[h])
        BY <3>2 DEF MarkInv
      <4>2. h # g
        BY <3>2, <4>1 DEF WillSet, now
      <4> QED
        BY <1>2, <1>3, <4>1, <4>2 DEF WillSet
    <3> QED
      BY <1>2, <2>1, <3>1, <3>2
  <2>2. ASSUME refreshed' = "no", ~dirty'
        PROVE  newest >= marked \/ \E h \in Scrapers : WillCount(scrape[h])'
    <3>1. CASE WillCount(then)
      BY <1>2, <1>3, <3>1 DEF WillCount, then
    <3>2. CASE marked = 0
      BY <3>2 DEF SeriesType
    <3>3. CASE ~dirty /\ ~WillCount(now) /\ ~(newest >= marked)
      <4>1. PICK h \in Scrapers : WillCount(scrape[h])
        BY <1>2, <2>2, <3>3 DEF MarkInv
      <4>2. h # g
        BY <3>3, <4>1 DEF now
      <4> QED
        BY <1>2, <1>3, <4>1, <4>2 DEF WillCount
    <3> QED
      BY <1>2, <2>2, <3>1, <3>2, <3>3
  <2> QED
    BY <1>2, <2>1, <2>2 DEF MarkInv
<1> QED
  BY <1>5, <1>6, <1>7

\* A request that writes: what it has counted is now in newest.
LEMMA SetSizeInv ==
    ASSUME SeriesInv, NEW g \in Scrapers, SetSize(g)
    PROVE  SeriesInv'
<1> USE DEF SeriesInv
<1> DEFINE now == scrape[g]
<1>1. now \in RequestType /\ RequestInv(now) /\ scrape \in [Scrapers -> RequestType]
  BY DEF SeriesType, RequestsInv
<1>2. /\ now.pc = "counted" /\ scrape' = [scrape EXCEPT ![g] = NoScrape]
      /\ overtaken' = (now.old \/ now.n < newest)
      /\ newest' = IF overtaken' THEN newest ELSE now.n
      /\ UNCHANGED <<engine, rowsSent, items, dirty, marked, refreshed>>
  BY DEF SetSize, Overtakes
<1>3. ValueOf("size")' = now.n
  BY SizeSet DEF SetSize, Refreshed
<1>4. \A h \in Scrapers : scrape'[h] = IF h = g THEN NoScrape ELSE scrape[h]
  BY <1>1, <1>2
<1>5. scrape' \in [Scrapers -> RequestType]
  BY <1>1, <1>2 DEF RequestType, RequestPhases, NoScrape
<1>6. now.n \in Nat /\ now.old \in BOOLEAN /\ newest \in Nat /\ items \in Nat /\ marked \in Nat
  BY <1>1 DEF RequestType, SeriesType
<1> HIDE DEF now
<1>7. overtaken' \in BOOLEAN /\ newest' \in Nat /\ newest' >= newest /\ newest' <= items
      /\ (~overtaken' => newest' = now.n) /\ (~now.old => newest' >= now.n)
  <2>1. newest <= items /\ (~now.old => now.n <= items)
    BY <1>1, <1>2 DEF RequestInv, SizeInv
  <2>2. CASE now.old \/ now.n < newest
    <3>1. overtaken' = TRUE /\ newest' = newest
      BY <1>2, <1>6, <2>2
    <3> QED
      BY <1>6, <2>1, <2>2, <3>1
  <2>3. CASE ~now.old /\ ~(now.n < newest)
    <3>1. overtaken' = FALSE /\ newest' = now.n
      BY <1>2, <1>6, <2>3
    <3>2. now.n <= items
      BY <2>1, <2>3
    <3>3. newest' \in Nat /\ newest' >= newest /\ newest' <= items /\ newest' >= now.n
      BY <1>6, <2>3, <3>1, <3>2
    <3> QED
      BY <3>1, <3>3
  <2> QED
    BY <2>2, <2>3
<1>8. SeriesType' /\ SizeInv'
  BY <1>2, <1>3, <1>5, <1>7 DEF SeriesType, SizeInv
<1>9. RequestsInv'
  <2> SUFFICES ASSUME NEW h \in Scrapers
               PROVE  RequestInv(scrape[h])'
    BY DEF RequestsInv
  <2>1. RequestInv(scrape[h])
    BY DEF RequestsInv
  <2> QED
    BY <1>2, <1>4, <2>1 DEF RequestInv, NoScrape
<1>10. MarkInv'
  <2>1. ASSUME refreshed = "counted"
        PROVE  newest' >= marked \/ \E h \in Scrapers : WillSet(scrape[h])'
    <3>1. CASE newest >= marked
      BY <1>6, <1>7, <3>1
    <3>2. CASE ~(newest >= marked)
      <4>1. PICK h \in Scrapers : WillSet(scrape[h])
        BY <2>1, <3>2 DEF MarkInv
      <4>2. CASE h = g
        BY <1>6, <1>7, <4>1, <4>2 DEF WillSet, now
      <4>3. CASE h # g
        BY <1>2, <1>4, <4>1, <4>3 DEF WillSet
      <4> QED
        BY <4>2, <4>3
    <3> QED
      BY <3>1, <3>2
  <2>2. ASSUME refreshed = "no", ~dirty
        PROVE  newest' >= marked \/ \E h \in Scrapers : WillCount(scrape[h])'
    <3>1. CASE newest >= marked
      BY <1>6, <1>7, <3>1
    <3>2. CASE ~(newest >= marked)
      <4>1. PICK h \in Scrapers : WillCount(scrape[h])
        BY <2>2, <3>2 DEF MarkInv
      <4>2. h # g
        BY <1>2, <4>1 DEF WillCount, now
      <4> QED
        BY <1>4, <4>1, <4>2 DEF WillCount
    <3> QED
      BY <3>1, <3>2
  <2> QED
    BY <1>2, <2>1, <2>2 DEF MarkInv
<1> QED
  BY <1>8, <1>9, <1>10

\* The index is dropped: what requests have of it is old.
LEMMA DropSeriesInv ==
    ASSUME SeriesInv, DropSeries
    PROVE  SeriesInv'
<1> USE DEF SeriesInv
<1>1. /\ engine' = FALSE /\ dirty' = FALSE /\ overtaken' = FALSE
      /\ rowsSent' = 0 /\ items' = 0 /\ marked' = 0 /\ newest' = 0 /\ refreshed' = "no"
      /\ scrape' = [g \in Scrapers |-> Outdated(scrape[g])]
  BY DEF DropSeries, RemoveIndexLabels
<1>2. ValueOf("size")' = 0
  BY DEF DropSeries, RemoveIndexLabels, IndexFamilies, Restrict, ValueOf
<1>3. ASSUME NEW g \in Scrapers
      PROVE  /\ scrape'[g] \in RequestType
             /\ scrape'[g].old <=> scrape'[g].pc \in {"found", "counted"}
  <2>1. scrape[g] \in RequestType /\ RequestInv(scrape[g]) /\ scrape'[g] = Outdated(scrape[g])
    BY <1>1 DEF SeriesType, RequestsInv
  <2> QED
    BY <2>1 DEF RequestInv, RequestType, RequestPhases, Outdated, SeriesType
<1>4. SeriesType' /\ SizeInv'
  <2>1. scrape' \in [Scrapers -> RequestType]
    BY <1>1, <1>3
  <2>2. SeriesType'
    BY <1>1, <2>1 DEF SeriesType
  <2>3. SizeInv'
    BY <1>1, <1>2 DEF SizeInv
  <2> QED
    BY <2>2, <2>3
<1>5. RequestsInv'
  BY <1>1, <1>3 DEF RequestsInv, RequestInv
<1>6. MarkInv'
  BY <1>1 DEF MarkInv
<1> QED
  BY <1>4, <1>5, <1>6

\* One step per action.
LEMMA SeriesNextInv ==
    ASSUME SeriesInv, [SeriesNext]_seriesVars
    PROVE  SeriesInv'
<1>1. CASE UNCHANGED seriesVars
  BY <1>1 DEF seriesVars, requestVars, historyVars, SeriesInv, SeriesType, SizeInv, RequestsInv,
              RequestInv, MarkInv, WillSet, WillCount, ValueOf
<1>2. CASE CreateAgain
  BY <1>2 DEF CreateAgain, requestVars, historyVars, SeriesInv, SeriesType, SizeInv, RequestsInv,
              RequestInv, MarkInv, WillSet, WillCount, ValueOf
<1> QED
  BY <1>1, <1>2, SenderStepInv, RequestStepInv, SetSizeInv, DropSeriesInv DEF SeriesNext, GetMetrics

\* At the start there is no series.
LEMMA SeriesInitInv == SeriesInit => SeriesInv
<1> SUFFICES ASSUME SeriesInit
             PROVE  SeriesInv
  OBVIOUS
<1>1. SeriesType
  BY DEF SeriesInit, SeriesType, NoScrape, RequestType, RequestPhases
<1>2. SizeInv
  BY DEF SeriesInit, SizeInv, ValueOf
<1>3. RequestsInv
  BY DEF SeriesInit, RequestsInv, RequestInv, NoScrape
<1>4. MarkInv
  BY DEF SeriesInit, MarkInv
<1> QED
  BY <1>1, <1>2, <1>3, <1>4 DEF SeriesInv

-----------------------------------------------------------------------------
(* The position that is reported                                            *)

At(pos, t) == {s \in DOMAIN pos : pos[s] = t}
CountsOf(pos) == [t \in Range(pos) |-> Cardinality(At(pos, t))]
Moved(pos, s, at) == [t \in DOMAIN pos \cup {s} |-> IF t = s THEN at ELSE pos[t]]

\* What was computed when every stream had a position is not later than any,
\* and not later than where the next generation begins.
Reported(r) ==
    r.partial \/ /\ r.at \in Nat
                 /\ \A s \in DOMAIN positions : r.at <= positions[s]
                 /\ DOMAIN positions = LogStreams \/ r.at <= floor
SaverInv ==
    /\ DOMAIN positions \subseteq LogStreams
    /\ \A s \in DOMAIN positions : positions[s] \in 1..MaxPosition
    /\ floor \in Nat /\ DOMAIN saves = LogStreams
    /\ counts = CountsOf(positions)
    /\ Reported(processed)
    /\ \A s \in LogStreams :
          Reported(saves[s]) /\ (~saves[s].partial => DOMAIN positions = LogStreams)

\* The streams at a position are finitely many, and there is one at a position
\* that some stream is at.
LEMMA AtFinite ==
    ASSUME NEW pos, IsFiniteSet(DOMAIN pos), NEW t
    PROVE  /\ IsFiniteSet(At(pos, t)) /\ Cardinality(At(pos, t)) \in Nat
           /\ Cardinality(At(pos, t)) > 0 <=> t \in Range(pos)
<1>1. IsFiniteSet(At(pos, t))
  BY FS_Subset DEF At
<1>2. Cardinality(At(pos, t)) \in Nat
  BY <1>1, FS_CardinalityType
<1>3. Cardinality(At(pos, t)) = 0 <=> At(pos, t) = {}
  BY <1>1, FS_EmptySet
<1>4. At(pos, t) = {} <=> t \notin Range(pos)
  BY DEF At, Range
<1> QED
  BY <1>1, <1>2, <1>3, <1>4

\* The streams that are at a position after one of them has moved.
LEMMA AtMoved ==
    ASSUME NEW pos, IsFiniteSet(DOMAIN pos), NEW s, NEW at, s \in DOMAIN pos => at # pos[s], NEW t
    PROVE  Cardinality(At(Moved(pos, s, at), t)) =
              IF t = at THEN Cardinality(At(pos, t)) + 1
              ELSE IF s \in DOMAIN pos /\ pos[s] = t THEN Cardinality(At(pos, t)) - 1
              ELSE Cardinality(At(pos, t))
<1>1. IsFiniteSet(At(pos, t))
  BY AtFinite
<1>2. CASE t = at
  <2>1. At(Moved(pos, s, at), t) = At(pos, t) \cup {s} /\ s \notin At(pos, t)
    BY <1>2 DEF At, Moved
  <2> QED
    BY <1>1, <1>2, <2>1, FS_AddElement
<1>3. CASE t # at /\ s \in DOMAIN pos /\ pos[s] = t
  <2>1. At(Moved(pos, s, at), t) = At(pos, t) \ {s} /\ s \in At(pos, t)
    BY <1>3 DEF At, Moved
  <2> QED
    BY <1>1, <1>3, <2>1, FS_RemoveElement
<1>4. CASE t # at /\ ~(s \in DOMAIN pos /\ pos[s] = t)
  <2>1. At(Moved(pos, s, at), t) = At(pos, t)
    BY <1>4 DEF At, Moved
  <2> QED
    BY <1>4, <2>1
<1> QED
  BY <1>2, <1>3, <1>4

\* The counts that record keeps are those of the new positions.
LEMMA CountedRight ==
    ASSUME IsFiniteSet(DOMAIN positions), NEW s, NEW at,
           s \in DOMAIN positions => at # positions[s]
    PROVE  Counted(CountsOf(positions), s, at) = CountsOf(Moved(positions, s, at))
<1> DEFINE known == CountsOf(positions)
           moved == Moved(positions, s, at)
           left == IF s \in DOMAIN positions
                   THEN [known EXCEPT ![positions[s]] = @ - 1] ELSE known
           rest == Restrict(left, {t \in DOMAIN left : left[t] > 0})
           new == [t \in DOMAIN rest \cup {at} |->
                     (IF t \in DOMAIN rest THEN rest[t] ELSE 0) + (IF t = at THEN 1 ELSE 0)]
           n(t) == Cardinality(At(positions, t))
           gone(t) == s \in DOMAIN positions /\ positions[s] = t
<1>1. DOMAIN left = Range(positions)
  BY DEF CountsOf
<1>2. \A t \in Range(positions) : left[t] = IF gone(t) THEN n(t) - 1 ELSE n(t)
  BY DEF CountsOf
<1>3. \A t : n(t) \in Nat /\ (n(t) > 0 <=> t \in Range(positions))
  BY AtFinite
<1>4. DOMAIN rest = {t \in Range(positions) : left[t] > 0}
  BY <1>1 DEF Restrict
<1>5. \A t \in DOMAIN rest : rest[t] = left[t]
  BY <1>4 DEF Restrict
<1>6. DOMAIN moved = DOMAIN positions \cup {s} /\ IsFiniteSet(DOMAIN moved)
  BY FS_AddElement DEF Moved
<1>7. \A t : t \in Range(moved) <=> Cardinality(At(moved, t)) > 0
  BY <1>6, AtFinite
<1>8. \A t : Cardinality(At(moved, t)) =
                IF t = at THEN n(t) + 1 ELSE IF gone(t) THEN n(t) - 1 ELSE n(t)
  BY AtMoved
<1>9. ~gone(at) /\ \A t : gone(t) => t \in Range(positions)
  BY DEF Range
<1> HIDE DEF left, rest, moved, known, n, gone
<1>10. Range(moved) = DOMAIN rest \cup {at}
  <2>1. ASSUME NEW t
        PROVE  t \in Range(moved) <=> t \in DOMAIN rest \cup {at}
    BY <1>2, <1>3, <1>4, <1>7, <1>8, <1>9
  <2> QED
    BY <2>1
<1>11. ASSUME NEW t \in Range(moved)
       PROVE  new[t] = Cardinality(At(moved, t))
  <2>1. t \in DOMAIN rest \cup {at}
    BY <1>10
  <2>2. new[t] = (IF t \in DOMAIN rest THEN rest[t] ELSE 0) + (IF t = at THEN 1 ELSE 0)
    BY <2>1
  <2> QED
    BY <1>2, <1>3, <1>4, <1>5, <1>8, <1>9, <2>1, <2>2
<1>12. new = CountsOf(moved)
  BY <1>10, <1>11 DEF CountsOf
<1> QED
  BY <1>12 DEF Counted, new, rest, left, known, moved

\* The smallest and the largest position of some.
LEMMA PositionBounds ==
    ASSUME NEW S, S \subseteq 1..MaxPosition, S # {}
    PROVE  /\ Min(S) \in S /\ \A t \in S : Min(S) <= t
           /\ Max(S) \in S /\ \A t \in S : Max(S) >= t
<1>1. MaxPosition \in Nat /\ S \subseteq Nat /\ S \subseteq 0..MaxPosition
  BY SaverAssumption
<1>2. \E x \in S : \A y \in S : x <= y
  BY <1>1, SmallestNat
<1>3. \E x \in S : \A y \in S : x >= y
  BY <1>1, LargestNat
<1> QED
  BY <1>2, <1>3 DEF Min, Max

\* A stream moves on, or gets its first position.
LEMMA RecordInv ==
    ASSUME SaverInv, NEW s \in LogStreams, NEW at \in 1..MaxPosition, Record(s, at)
    PROVE  SaverInv'
<1>1. /\ positions' = Moved(positions, s, at) /\ counts' = Counted(counts, s, at)
      /\ s \in DOMAIN positions => at > positions[s]
      /\ at >= floor /\ UNCHANGED <<processed, floor>>
      /\ saves' = [saves EXCEPT ![s] = [at |-> Min(DOMAIN counts'),
                                        partial |-> DOMAIN positions' # LogStreams]]
  BY DEF Record, Moved
<1>2. /\ DOMAIN positions' = DOMAIN positions \cup {s}
      /\ DOMAIN positions' \subseteq LogStreams
      /\ \A t \in DOMAIN positions' : positions'[t] = IF t = s THEN at ELSE positions[t]
  BY <1>1 DEF Moved, SaverInv
<1>3. \A t \in DOMAIN positions' : positions'[t] \in 1..MaxPosition
  BY <1>2 DEF SaverInv
<1>4. IsFiniteSet(DOMAIN positions)
  BY SaverAssumption, FS_Subset DEF SaverInv
<1>5. s \in DOMAIN positions => at # positions[s]
  BY <1>1 DEF SaverInv
<1>6. counts' = CountsOf(positions')
  BY <1>1, <1>4, <1>5, CountedRight DEF SaverInv
<1>7. /\ DOMAIN counts' = Range(positions') /\ Range(positions') \subseteq 1..MaxPosition
      /\ Range(positions') # {}
  BY <1>2, <1>3, <1>6 DEF CountsOf, Range
<1>8. /\ Min(DOMAIN counts') \in Nat
      /\ \A t \in DOMAIN positions' : Min(DOMAIN counts') <= positions'[t]
  <2>1. /\ Min(DOMAIN counts') \in Range(positions')
        /\ \A t \in Range(positions') : Min(DOMAIN counts') <= t
    BY <1>7, PositionBounds
  <2> QED
    BY <1>7, <2>1 DEF Range
<1>10. /\ DOMAIN saves' = LogStreams
       /\ saves'[s].at = Min(DOMAIN counts')
       /\ saves'[s].partial <=> DOMAIN positions' # LogStreams
       /\ \A t \in LogStreams \ {s} : saves'[t] = saves[t]
  BY <1>1 DEF SaverInv
<1>11. ASSUME NEW t \in LogStreams
       PROVE  /\ saves'[t].partial \/
                    /\ saves'[t].at \in Nat
                    /\ \A u \in DOMAIN positions' : saves'[t].at <= positions'[u]
                    /\ DOMAIN positions' = LogStreams \/ saves'[t].at <= floor'
              /\ ~saves'[t].partial => DOMAIN positions' = LogStreams
  <2>1. CASE t = s
    BY <1>8, <1>10, <2>1
  <2>2. CASE t # s
    <3>1. saves'[t] = saves[t]
      BY <1>10, <2>2
    <3>2. Reported(saves[t]) /\ (~saves[t].partial => DOMAIN positions = LogStreams)
      BY DEF SaverInv
    <3>3. ~saves[t].partial => DOMAIN positions' = LogStreams
      BY <1>2, <3>2
    <3>4. saves[t].partial \/ \A u \in DOMAIN positions' : saves[t].at <= positions'[u]
      <4>1. ~saves[t].partial => /\ saves[t].at \in Nat /\ s \in DOMAIN positions
                                 /\ \A u \in DOMAIN positions : saves[t].at <= positions[u]
        BY <3>2 DEF Reported
      <4>2. ~saves[t].partial => saves[t].at <= at
        BY <1>1, <4>1 DEF SaverInv
      <4> QED
        BY <1>2, <4>1, <4>2
    <3>5. saves[t].partial \/ saves[t].at \in Nat
      BY <3>2 DEF Reported
    <3> QED
      BY <3>1, <3>3, <3>4, <3>5
  <2> QED
    BY <2>1, <2>2
<1>12. Reported(processed)'
  <2>1. processed.partial \/
           /\ processed.at \in Nat
           /\ \A u \in DOMAIN positions : processed.at <= positions[u]
           /\ DOMAIN positions = LogStreams \/ processed.at <= floor
    BY DEF SaverInv, Reported
  <2>2. processed.partial \/ processed.at <= at
    BY <1>1, <2>1 DEF SaverInv
  <2>3. processed.partial \/ DOMAIN positions' = LogStreams \/ processed.at <= floor
    BY <1>2, <2>1
  <2> QED
    BY <1>1, <1>2, <2>1, <2>2, <2>3 DEF Reported
<1> QED
  BY <1>1, <1>2, <1>3, <1>6, <1>10, <1>11, <1>12 DEF SaverInv, Reported

\* One step per action.
LEMMA SaverNextInv ==
    ASSUME SaverInv, [SaverNext]_saverVars
    PROVE  SaverInv'
<1>1. CASE UNCHANGED saverVars
  BY <1>1 DEF saverVars, SaverInv, Reported, CountsOf, At
<1>2. ASSUME NEW s \in LogStreams, SetProcessed(s)
      PROVE  SaverInv'
  BY <1>2 DEF SetProcessed, SaverInv, Reported, NoSave, CountsOf, At
<1>3. CASE NewGeneration
  <2>1. /\ positions' = << >> /\ counts' = << >> /\ floor' = Max(Range(positions))
        /\ UNCHANGED <<saves, processed>> /\ DOMAIN positions # {}
        /\ \A s \in LogStreams : saves[s] = NoSave
    BY <1>3 DEF NewGeneration
  <2>2. /\ Range(positions) \subseteq 1..MaxPosition /\ Range(positions) # {}
    BY <2>1 DEF Range, SaverInv
  <2>3. floor' \in Range(positions) /\ \A t \in Range(positions) : floor' >= t
    BY <2>1, <2>2, PositionBounds
  <2>4. floor' \in Nat /\ \A s \in DOMAIN positions : positions[s] <= floor'
    BY <2>2, <2>3 DEF Range, SaverInv
  <2>5. ~processed.partial => processed.at \in Nat /\ processed.at <= floor'
    <3>1. PICK s \in DOMAIN positions : TRUE
      BY <2>1
    <3>2. positions[s] \in Nat /\ positions[s] <= floor'
      BY <2>4 DEF SaverInv
    <3>3. processed.partial \/
             /\ processed.at \in Nat
             /\ \A u \in DOMAIN positions : processed.at <= positions[u]
      BY DEF SaverInv, Reported
    <3>4. CASE ~processed.partial
      <4>1. processed.at \in Nat /\ processed.at <= positions[s]
        BY <3>3, <3>4
      <4> QED
        BY <2>4, <3>2, <4>1
    <3> QED
      BY <3>4
  <2>6. DOMAIN positions' = {} /\ CountsOf(positions') = << >>
    BY <2>1 DEF CountsOf, Range
  <2> QED
    BY <2>1, <2>4, <2>5, <2>6 DEF SaverInv, Reported, NoSave
<1> QED
  BY <1>1, <1>2, <1>3, RecordInv DEF SaverNext

\* At the start no stream has a position.
LEMMA SaverInitInv == SaverInit => SaverInv
<1> SUFFICES ASSUME SaverInit PROVE SaverInv
  OBVIOUS
<1>1. CountsOf(positions) = << >>
  BY DEF SaverInit, CountsOf, Range
<1> QED
  BY <1>1 DEF SaverInit, SaverInv, Reported, NoSave

\* The counts and the report are right.
LEMMA SaverIsRight == SaverInv => SaverRight
BY DEF SaverInv, SaverRight, Reported, CountsOf, At

-----------------------------------------------------------------------------
(* The counters                                                             *)

ClientOps == {"start", "clear", "counters", "session counters"}
CounterMessages ==
    {m \in [op : ClientOps \cup {"increment", "create session"},
            name : CounterNames \cup {"none"}, number : Nat] :
        m.op \in {"start", "increment"} => m.name \in CounterNames}

\* The message counts one for the counter when it is handled.
Adds(m, c) ==
    \/ m.op = "increment" /\ m.name = c
    \/ m.op = "create session" /\ c = (IF m.number # 0 THEN SuccessCounter ELSE FailureCounter)
InQueue(q, c) == {i \in DOMAIN q : Adds(q[i], c)}
InTasks(tasks, c) == {m \in tasks : Adds(m, c)}
Pending(c) == Cardinality(InQueue(inbox, c)) + Cardinality(InTasks(spawned, c))
Value(c) == IF c \in DOMAIN counters THEN counters[c] ELSE 0

CounterTypes ==
    /\ inbox \in Seq(CounterMessages)
    /\ spawned \subseteq CounterMessages /\ IsFiniteSet(spawned)
    /\ \A m \in spawned : m.op \notin SessionOps
    /\ sent \in [CounterNames -> Nat] /\ due \in [CounterNames -> [on : BOOLEAN, n : Nat]]
    /\ DOMAIN counters \subseteq CounterNames /\ \A c \in DOMAIN counters : counters[c] \in Nat
    /\ made \in Nat

\* No two increments are the same message.
Numbered ==
    /\ \A i \in DOMAIN inbox : inbox[i].op = "increment" =>
          inbox[i].number <= sent[inbox[i].name] /\ inbox[i] \notin spawned
    /\ \A i, j \in DOMAIN inbox : inbox[i].op = "increment" /\ inbox[i] = inbox[j] => i = j
    /\ \A m \in spawned : m.op = "increment" => m.number <= sent[m.name]

\* The client waits for the answer to its last message, and no counter is
\* known to be started while the counters are cleared.
OneWaits ==
    /\ \A i \in DOMAIN inbox : inbox[i].op \in ClientOps =>
          /\ waiting = inbox[i].op
          /\ \A j \in DOMAIN inbox : inbox[j].op \in ClientOps => j = i
          /\ \A m \in spawned : m.op \notin ClientOps
    /\ \A m \in spawned : m.op \in ClientOps =>
          waiting = m.op /\ \A other \in spawned : other.op \in ClientOps => other = m
    /\ waiting = "clear" => \A c \in CounterNames : ~due[c].on

\* What was sent is counted, on its way, or was not to be counted.
Accounted ==
    \A c \in CounterNames :
        /\ Value(c) + Pending(c) <= sent[c]
        /\ due[c].on => c \in DOMAIN counters /\ counters[c] + Pending(c) >= due[c].n

InternalsInv == CounterTypes /\ Numbered /\ OneWaits /\ Accounted

\* A message joins the queue, ...
LEMMA QueueAppend ==
    ASSUME NEW q \in Seq(CounterMessages), NEW m \in CounterMessages, NEW c
    PROVE  /\ Cardinality(InQueue(q, c)) \in Nat
           /\ Cardinality(InQueue(Append(q, m), c)) =
                 IF Adds(m, c) THEN Cardinality(InQueue(q, c)) + 1 ELSE Cardinality(InQueue(q, c))
<1> DEFINE n == Len(q)
           new == Append(q, m)
<1>1. /\ n \in Nat /\ DOMAIN q = 1..n /\ DOMAIN new = 1..(n + 1)
      /\ new[n + 1] = m /\ \A i \in 1..n : new[i] = q[i]
  OBVIOUS
<1>2. 1..(n + 1) = (1..n) \cup {n + 1} /\ n + 1 \notin 1..n
  BY <1>1
<1>3. IsFiniteSet(1..n)
  BY <1>1, FS_Interval
<1>4. IsFiniteSet(InQueue(q, c))
  BY <1>1, <1>3, FS_Subset DEF InQueue
<1>5. Cardinality(InQueue(q, c)) \in Nat
  BY <1>4, FS_CardinalityType
<1> HIDE DEF n, new
<1>6. CASE Adds(m, c)
  <2>1. InQueue(new, c) = InQueue(q, c) \cup {n + 1} /\ n + 1 \notin InQueue(q, c)
    BY <1>1, <1>2, <1>6 DEF InQueue
  <2> QED
    BY <1>4, <1>5, <1>6, <2>1, FS_AddElement DEF new
<1>7. CASE ~Adds(m, c)
  <2>1. InQueue(new, c) = InQueue(q, c)
    BY <1>1, <1>2, <1>7 DEF InQueue
  <2> QED
    BY <1>5, <1>7, <2>1 DEF new
<1> QED
  BY <1>6, <1>7

\* ... and leaves it at its other end.
LEMMA QueueTail ==
    ASSUME NEW q \in Seq(CounterMessages), q # <<>>, NEW c
    PROVE  /\ Cardinality(InQueue(q, c)) \in Nat /\ Cardinality(InQueue(Tail(q), c)) \in Nat
           /\ Cardinality(InQueue(q, c)) =
                 IF Adds(Head(q), c) THEN Cardinality(InQueue(Tail(q), c)) + 1
                 ELSE Cardinality(InQueue(Tail(q), c))
<1> DEFINE n == Len(q)
           rest == Tail(q)
           later == InQueue(q, c) \ {1}
           shift == [i \in InQueue(rest, c) |-> i + 1]
<1>1. /\ n \in Nat \ {0} /\ DOMAIN q = 1..n /\ DOMAIN rest = 1..(n - 1)
      /\ Head(q) = q[1] /\ \A i \in 1..(n - 1) : rest[i] = q[i + 1]
  OBVIOUS
<1>2. IsFiniteSet(1..n) /\ IsFiniteSet(1..(n - 1))
  BY <1>1, FS_Interval
<1> HIDE DEF n, rest
<1>3. IsFiniteSet(InQueue(q, c)) /\ IsFiniteSet(InQueue(rest, c))
  BY <1>1, <1>2, FS_Subset DEF InQueue
<1>4. Cardinality(InQueue(q, c)) \in Nat /\ Cardinality(InQueue(rest, c)) \in Nat
  BY <1>3, FS_CardinalityType
<1>5. shift \in Bijection(InQueue(rest, c), later)
  <2>1. \A i \in InQueue(rest, c) : i \in 1..(n - 1) /\ i + 1 \in later
    BY <1>1 DEF InQueue
  <2>2. shift \in Injection(InQueue(rest, c), later)
    BY <2>1 DEF Injection, IsInjective
  <2>3. ASSUME NEW j \in later
        PROVE  \E i \in InQueue(rest, c) : shift[i] = j
    <3>1. j \in 2..n /\ j - 1 \in 1..(n - 1) /\ (j - 1) + 1 = j /\ Adds(q[j], c)
      BY <1>1 DEF InQueue
    <3>2. j - 1 \in InQueue(rest, c)
      BY <1>1, <3>1 DEF InQueue
    <3> QED
      BY <3>1, <3>2
  <2> QED
    BY <2>1, <2>2, <2>3 DEF Bijection, Surjection
<1>6. Cardinality(later) = Cardinality(InQueue(rest, c))
  <2>1. ExistsBijection(InQueue(rest, c), later)
    BY <1>5 DEF ExistsBijection
  <2> HIDE DEF later
  <2> QED
    BY <1>3, <2>1, FS_Bijection
<1>7. 1 \in InQueue(q, c) <=> Adds(Head(q), c)
  BY <1>1 DEF InQueue
<1>8. Cardinality(later) = IF 1 \in InQueue(q, c) THEN Cardinality(InQueue(q, c)) - 1
                           ELSE Cardinality(InQueue(q, c))
  BY <1>3, FS_RemoveElement
<1> QED
  BY <1>4, <1>6, <1>7, <1>8 DEF rest

\* The increments that wait are finitely many.
LEMMA PendingType ==
    ASSUME CounterTypes, NEW c
    PROVE  /\ Cardinality(InQueue(inbox, c)) \in Nat
           /\ IsFiniteSet(InTasks(spawned, c)) /\ Cardinality(InTasks(spawned, c)) \in Nat
           /\ Pending(c) \in Nat
<1>1. [op |-> "clear", name |-> "none", number |-> 0] \in CounterMessages
  BY DEF CounterMessages, ClientOps
<1>2. Cardinality(InQueue(inbox, c)) \in Nat
  BY <1>1, QueueAppend DEF CounterTypes
<1>3. IsFiniteSet(InTasks(spawned, c))
  BY FS_Subset DEF InTasks, CounterTypes
<1>4. Cardinality(InTasks(spawned, c)) \in Nat
  BY <1>3, FS_CardinalityType
<1> QED
  BY <1>2, <1>3, <1>4 DEF Pending

\* What a step does to the increments that wait: a message is sent, ...
LEMMA PendingSent ==
    ASSUME CounterTypes, NEW m \in CounterMessages, inbox' = Append(inbox, m), spawned' = spawned,
           NEW c
    PROVE  Pending(c)' = IF Adds(m, c) THEN Pending(c) + 1 ELSE Pending(c)
<1>1. inbox \in Seq(CounterMessages)
  BY DEF CounterTypes
<1>2. Cardinality(InQueue(inbox', c)) =
         IF Adds(m, c) THEN Cardinality(InQueue(inbox, c)) + 1 ELSE Cardinality(InQueue(inbox, c))
  BY <1>1, QueueAppend
<1> QED
  BY <1>2, PendingType DEF Pending

\* ... is handled by the actor itself, ...
LEMMA PendingHandled ==
    ASSUME CounterTypes, inbox # <<>>, inbox' = Tail(inbox), spawned' = spawned, NEW c
    PROVE  /\ Pending(c)' \in Nat
           /\ Pending(c) = IF Adds(Head(inbox), c) THEN Pending(c)' + 1 ELSE Pending(c)'
<1>1. inbox \in Seq(CounterMessages)
  BY DEF CounterTypes
<1>2. /\ Cardinality(InQueue(inbox', c)) \in Nat
      /\ Cardinality(InQueue(inbox, c)) =
         IF Adds(Head(inbox), c) THEN Cardinality(InQueue(inbox', c)) + 1
         ELSE Cardinality(InQueue(inbox', c))
  BY <1>1, QueueTail
<1> QED
  BY <1>2, PendingType DEF Pending

\* ... goes to a task, ...
LEMMA PendingSpawned ==
    ASSUME CounterTypes, Numbered, inbox # <<>>, inbox' = Tail(inbox),
           Head(inbox).op \notin SessionOps, spawned' = spawned \cup {Head(inbox)}, NEW c
    PROVE  Pending(c)' = Pending(c)
<1> DEFINE m == Head(inbox)
<1>1. inbox \in Seq(CounterMessages) /\ m = inbox[1] /\ 1 \in DOMAIN inbox
  BY DEF CounterTypes
<1>2. /\ Cardinality(InQueue(inbox', c)) \in Nat
      /\ Cardinality(InQueue(inbox, c)) =
         IF Adds(m, c) THEN Cardinality(InQueue(inbox', c)) + 1
         ELSE Cardinality(InQueue(inbox', c))
  BY <1>1, QueueTail
<1>3. CASE Adds(m, c)
  <2>1. m \notin spawned
    BY <1>1, <1>3 DEF Adds, Numbered, SessionOps
  <2>2. InTasks(spawned', c) = InTasks(spawned, c) \cup {m} /\ m \notin InTasks(spawned, c)
    BY <1>3, <2>1 DEF InTasks
  <2>3. Cardinality(InTasks(spawned', c)) = Cardinality(InTasks(spawned, c)) + 1
    BY <2>2, PendingType, FS_AddElement
  <2> QED
    BY <1>2, <1>3, <2>3, PendingType DEF Pending
<1>4. CASE ~Adds(m, c)
  <2>1. InTasks(spawned', c) = InTasks(spawned, c)
    BY <1>4 DEF InTasks
  <2> QED
    BY <1>2, <1>4, <2>1, PendingType DEF Pending
<1> QED
  BY <1>3, <1>4

\* ... or is handled by its task.
LEMMA PendingProcessed ==
    ASSUME CounterTypes, NEW m \in spawned, inbox' = inbox, spawned' = spawned \ {m}, NEW c
    PROVE  /\ Pending(c)' \in Nat
           /\ Pending(c) = IF Adds(m, c) THEN Pending(c)' + 1 ELSE Pending(c)'
<1>1. InTasks(spawned', c) = InTasks(spawned, c) \ {m} /\ (m \in InTasks(spawned, c) <=> Adds(m, c))
  BY DEF InTasks
<1>2. Cardinality(InTasks(spawned', c)) =
         IF Adds(m, c) THEN Cardinality(InTasks(spawned, c)) - 1 ELSE Cardinality(InTasks(spawned, c))
  BY <1>1, PendingType, FS_RemoveElement
<1>3. Cardinality(InTasks(spawned', c)) \in Nat
  BY <1>1, PendingType, FS_RemoveElement, FS_CardinalityType
<1> QED
  BY <1>2, <1>3, PendingType DEF Pending

\* The client sends a message, and waits.
LEMMA ClientSends ==
    ASSUME InternalsInv, waiting = "nothing", NEW m \in CounterMessages, m.op \in ClientOps,
           inbox' = Append(inbox, m), waiting' = m.op,
           UNCHANGED <<spawned, counters, sent, made>>,
           due' \in [CounterNames -> [on : BOOLEAN, n : Nat]],
           \A c \in CounterNames : due'[c].on => due'[c] = due[c] /\ m.op # "clear"
    PROVE  InternalsInv'
<1> USE DEF InternalsInv
<1>1. CounterTypes'
  BY DEF CounterTypes
<1>2. /\ DOMAIN inbox' = 1..(Len(inbox) + 1) /\ inbox'[Len(inbox) + 1] = m
      /\ DOMAIN inbox = 1..Len(inbox) /\ \A i \in DOMAIN inbox : inbox'[i] = inbox[i]
      /\ Len(inbox) \in Nat
  BY DEF CounterTypes
<1>3. m.op # "increment" /\ m.op # "nothing"
  BY DEF ClientOps
<1>4. Numbered'
  BY <1>2, <1>3 DEF Numbered
<1>5. /\ \A i \in DOMAIN inbox : inbox[i].op \notin ClientOps
      /\ \A other \in spawned : other.op \notin ClientOps
  BY DEF OneWaits, ClientOps
<1>6. OneWaits'
  <2>1. waiting' = "clear" => \A c \in CounterNames : ~due'[c].on
    OBVIOUS
  <2> QED
    BY <1>2, <1>5, <2>1 DEF OneWaits
<1>7. \A c \in CounterNames : Pending(c)' = Pending(c) /\ Pending(c) \in Nat
  BY <1>3, PendingSent, PendingType DEF Adds, ClientOps
<1>8. \A c \in CounterNames : Value(c)' = Value(c)
  BY DEF Value
<1>9. Accounted'
  BY <1>7, <1>8 DEF Accounted
<1> QED
  BY <1>1, <1>4, <1>6, <1>9

\* One more was sent for c, by this message.
SentOne(m, c) ==
    /\ m.op \in {"increment", "create session"}
    /\ \A d \in CounterNames : Adds(m, d) <=> d = c
    /\ m.op = "increment" => m.name = c /\ c \in CounterNames /\ m.number = sent[c] + 1
    /\ sent' \in [CounterNames -> Nat]
    /\ \A d \in CounterNames : sent'[d] = IF d = c THEN sent[d] + 1 ELSE sent[d]
    /\ due' \in [CounterNames -> [on : BOOLEAN, n : Nat]]
    /\ \A d \in CounterNames :
          /\ due'[d].on <=> due[d].on
          /\ due[d].on => due'[d].n = IF d = c THEN due[d].n + 1 ELSE due[d].n

\* A component counts one for c.
LEMMA ComponentSends ==
    ASSUME InternalsInv, NEW m \in CounterMessages, NEW c,
           SentOne(m, c), inbox' = Append(inbox, m),
           UNCHANGED <<spawned, counters, waiting>>, made' \in Nat
    PROVE  InternalsInv'
<1> USE DEF InternalsInv
<1>11. sent' \in [CounterNames -> Nat] /\ due' \in [CounterNames -> [on : BOOLEAN, n : Nat]]
  BY DEF SentOne
<1>12. \A d \in CounterNames : sent'[d] = IF d = c THEN sent[d] + 1 ELSE sent[d]
  BY DEF SentOne
<1>13. /\ \A d \in CounterNames : due'[d].on <=> due[d].on
      /\ \A d \in CounterNames :
            due[d].on => due'[d].n = IF d = c THEN due[d].n + 1 ELSE due[d].n
  BY DEF SentOne
<1>14. m.op = "increment" => m.name = c /\ c \in CounterNames /\ m.number = sent[c] + 1
  BY DEF SentOne
<1>1. CounterTypes'
  BY <1>11 DEF CounterTypes
<1>2. /\ DOMAIN inbox' = 1..(Len(inbox) + 1) /\ inbox'[Len(inbox) + 1] = m
      /\ DOMAIN inbox = 1..Len(inbox) /\ \A i \in DOMAIN inbox : inbox'[i] = inbox[i]
      /\ Len(inbox) \in Nat
  BY DEF CounterTypes
<1>3. m.op \notin ClientOps
  BY DEF ClientOps, SentOne
<1>4. \A d \in CounterNames : sent[d] \in Nat /\ due[d].n \in Nat
  BY DEF CounterTypes
<1>6. Numbered'
  <2>1. ASSUME NEW other \in CounterMessages, other.op = "increment",
               other.number <= sent[other.name]
        PROVE  other.number <= sent'[other.name] /\ other # m
    <3>1. other.name \in CounterNames /\ other.number \in Nat
      BY <2>1 DEF CounterMessages
    <3> QED
      BY <1>4, <1>12, <1>14, <2>1, <3>1
  <2>2. m.op = "increment" => m.number <= sent'[m.name]
    BY <1>4, <1>12, <1>14
  <2>3. ASSUME NEW i \in DOMAIN inbox, inbox[i].op = "increment"
        PROVE  /\ inbox[i].number <= sent'[inbox[i].name] /\ inbox[i] # m
               /\ inbox[i] \notin spawned
    BY <2>1, <2>3 DEF Numbered, CounterTypes
  <2>4. ASSUME NEW other \in spawned, other.op = "increment"
        PROVE  other.number <= sent'[other.name] /\ other # m
    BY <2>1, <2>4 DEF Numbered, CounterTypes
  <2>5. \A i \in DOMAIN inbox' : inbox'[i].op = "increment" =>
           inbox'[i].number <= sent'[inbox'[i].name] /\ inbox'[i] \notin spawned
    BY <1>2, <2>2, <2>3, <2>4
  <2>6. \A i, j \in DOMAIN inbox' : inbox'[i].op = "increment" /\ inbox'[i] = inbox'[j] => i = j
    BY <1>2, <2>3 DEF Numbered
  <2> QED
    BY <2>4, <2>5, <2>6 DEF Numbered
<1>7. OneWaits'
  BY <1>2, <1>3, <1>13 DEF OneWaits
<1>8. \A d \in CounterNames : /\ Pending(d) \in Nat
                              /\ Pending(d)' = IF d = c THEN Pending(d) + 1 ELSE Pending(d)
  BY PendingSent, PendingType DEF SentOne
<1>9. \A d \in CounterNames : Value(d)' = Value(d) /\ Value(d) \in Nat
  BY DEF Value, CounterTypes
<1>10. Accounted'
  <2>1. ASSUME NEW d \in CounterNames
        PROVE  Value(d)' + Pending(d)' <= sent'[d]
    <3>1. Value(d) + Pending(d) <= sent[d]
      BY DEF Accounted
    <3> QED
      BY <1>4, <1>8, <1>9, <1>12, <3>1
  <2>2. ASSUME NEW d \in CounterNames, due'[d].on
        PROVE  d \in DOMAIN counters /\ counters[d] + Pending(d)' >= due'[d].n
    <3>1. d \in DOMAIN counters /\ counters[d] + Pending(d) >= due[d].n
      BY <2>2, <1>13 DEF Accounted
    <3>2. counters[d] \in Nat
      BY <3>1 DEF CounterTypes
    <3> QED
      BY <1>4, <1>8, <1>13, <2>2, <3>1, <3>2
  <2> QED
    BY <2>1, <2>2 DEF Accounted
<1> QED
  BY <1>1, <1>6, <1>7, <1>10

\* The queue without its head.
LEMMA HeadTaken ==
    ASSUME CounterTypes, inbox # <<>>, inbox' = Tail(inbox)
    PROVE  /\ Head(inbox) = inbox[1] /\ 1 \in DOMAIN inbox /\ Head(inbox) \in CounterMessages
           /\ inbox' \in Seq(CounterMessages)
           /\ \A i \in DOMAIN inbox' : /\ i + 1 \in DOMAIN inbox /\ i + 1 # 1
                                       /\ inbox'[i] = inbox[i + 1]
           /\ \A i, j \in DOMAIN inbox' : i + 1 = j + 1 => i = j
BY DEF CounterTypes

\* The actor takes a message from its queue.
LEMMA DispatchInv ==
    ASSUME InternalsInv, Dispatch
    PROVE  InternalsInv'
<1> DEFINE m == Head(inbox)
<1> USE DEF InternalsInv
<1>1. inbox # <<>> /\ inbox' = Tail(inbox) /\ UNCHANGED <<sent, due, made>>
  BY DEF Dispatch
<1>2. /\ m = inbox[1] /\ 1 \in DOMAIN inbox /\ m \in CounterMessages
      /\ inbox' \in Seq(CounterMessages)
      /\ \A i \in DOMAIN inbox' : /\ i + 1 \in DOMAIN inbox /\ i + 1 # 1
                                  /\ inbox'[i] = inbox[i + 1]
      /\ \A i, j \in DOMAIN inbox' : i + 1 = j + 1 => i = j
  BY <1>1, HeadTaken
<1> HIDE DEF m
<1>3. CASE m.op \notin SessionOps
  <2>1. spawned' = spawned \cup {m} /\ UNCHANGED <<counters, waiting>>
    BY <1>3 DEF Dispatch, m, SessionOps
  <2>2. CounterTypes'
    <3>1. IsFiniteSet(spawned')
      BY <2>1, FS_AddElement DEF CounterTypes
    <3> QED
      BY <1>1, <1>2, <1>3, <2>1, <3>1 DEF CounterTypes
  <2>3. Numbered'
    BY <1>1, <1>2, <2>1 DEF Numbered
  <2>4. OneWaits'
    BY <1>1, <1>2, <2>1 DEF OneWaits
  <2>5. \A c \in CounterNames : Pending(c)' = Pending(c)
    BY <1>1, <1>3, <2>1, PendingSpawned DEF m
  <2>6. \A c \in CounterNames : Value(c)' = Value(c)
    BY <2>1 DEF Value
  <2>7. Accounted'
    BY <1>1, <2>1, <2>5, <2>6 DEF Accounted
  <2> QED
    BY <2>2, <2>3, <2>4, <2>7
<1>4. CASE m.op = "create session"
  <2> DEFINE c == IF m.number # 0 THEN SuccessCounter ELSE FailureCounter
  <2>1. counters' = Incremented(c) /\ UNCHANGED <<spawned, waiting>>
    BY <1>4 DEF Dispatch, m, SessionOps
  <2>2. \A d : Adds(m, d) <=> d = c
    BY <1>4 DEF Adds
  <2> HIDE DEF c
  <2>3. /\ DOMAIN counters' = DOMAIN counters
        /\ \A d \in DOMAIN counters :
              counters'[d] = IF d = c THEN counters[d] + 1 ELSE counters[d]
    BY <2>1 DEF Incremented
  <2>4. CounterTypes'
    <3>1. ASSUME NEW d \in DOMAIN counters'
          PROVE  counters'[d] \in Nat
      <4>1. d \in DOMAIN counters
        BY <2>3
      <4>2. counters[d] \in Nat
        BY <4>1 DEF CounterTypes
      <4>3. counters'[d] = counters[d] \/ counters'[d] = counters[d] + 1
        BY <2>3, <4>1
      <4> QED
        BY <4>2, <4>3
    <3> QED
      BY <1>1, <1>2, <2>1, <2>3, <3>1 DEF CounterTypes
  <2>5. Numbered' /\ OneWaits'
    BY <1>1, <1>2, <2>1 DEF Numbered, OneWaits
  <2>6. \A d \in CounterNames : /\ Pending(d) = IF d = c THEN Pending(d)' + 1 ELSE Pending(d)'
                                /\ Pending(d)' \in Nat
    BY <1>1, <2>1, <2>2, PendingHandled DEF m
  <2>7. Accounted'
    <3>1. ASSUME NEW d \in CounterNames
          PROVE  Value(d)' + Pending(d)' <= sent[d]
      <4>1. Value(d) + Pending(d) <= sent[d] /\ sent[d] \in Nat
        BY DEF Accounted, CounterTypes
      <4>2. /\ d \in DOMAIN counters => Value(d)' = counters'[d] /\ Value(d) = counters[d]
            /\ d \notin DOMAIN counters => Value(d)' = 0 /\ Value(d) = 0
        BY <2>3 DEF Value
      <4>3. d \in DOMAIN counters => counters[d] \in Nat
        BY DEF CounterTypes
      <4> QED
        BY <2>3, <2>6, <4>1, <4>2, <4>3
    <3>2. ASSUME NEW d \in CounterNames, due[d].on
          PROVE  d \in DOMAIN counters' /\ counters'[d] + Pending(d)' >= due[d].n
      <4>1. d \in DOMAIN counters /\ counters[d] + Pending(d) >= due[d].n
        BY <3>2 DEF Accounted
      <4>2. counters[d] \in Nat /\ due[d].n \in Nat
        BY <4>1 DEF CounterTypes
      <4> QED
        BY <2>3, <2>6, <4>1, <4>2
    <3> QED
      BY <1>1, <3>1, <3>2 DEF Accounted
  <2> QED
    BY <2>4, <2>5, <2>7
<1>5. CASE m.op = "session counters"
  <2>1. waiting' = "nothing" /\ UNCHANGED <<spawned, counters>>
    BY <1>5 DEF Dispatch, m, SessionOps
  <2>2. CounterTypes' /\ Numbered'
    BY <1>1, <1>2, <2>1 DEF CounterTypes, Numbered
  <2>3. /\ \A j \in DOMAIN inbox : inbox[j].op \in ClientOps => j = 1
        /\ \A other \in spawned : other.op \notin ClientOps
    BY <1>2, <1>5 DEF OneWaits, ClientOps
  <2>4. OneWaits'
    BY <1>1, <1>2, <2>1, <2>3 DEF OneWaits
  <2>5. \A d \in CounterNames : Pending(d)' = Pending(d)
    BY <1>1, <1>5, <2>1, PendingHandled DEF m, Adds
  <2>6. \A d \in CounterNames : Value(d)' = Value(d)
    BY <2>1 DEF Value
  <2>7. Accounted'
    BY <1>1, <2>1, <2>5, <2>6 DEF Accounted
  <2> QED
    BY <2>2, <2>4, <2>7
<1> QED
  BY <1>3, <1>4, <1>5 DEF SessionOps

\* A task handles its message.
LEMMA ProcessCountersInv ==
    ASSUME InternalsInv, NEW m \in spawned, ProcessCounters(m)
    PROVE  InternalsInv'
<1> USE DEF InternalsInv
<1>1. spawned' = spawned \ {m} /\ UNCHANGED <<inbox, sent, made>> /\ m \in CounterMessages
  BY DEF ProcessCounters, CounterTypes
<1>2. IsFiniteSet(spawned')
  BY <1>1, FS_RemoveElement DEF CounterTypes
<1>3. Numbered'
  BY <1>1 DEF Numbered
<1>4. \A c \in CounterNames : /\ Pending(c) = IF Adds(m, c) THEN Pending(c)' + 1 ELSE Pending(c)'
                              /\ Pending(c) \in Nat /\ Pending(c)' \in Nat
  BY <1>1, PendingProcessed, PendingType
<1>5. m.op \in ClientOps =>
         /\ waiting = m.op
         /\ \A i \in DOMAIN inbox : inbox[i].op \notin ClientOps
         /\ \A other \in spawned' : other.op \notin ClientOps
  BY <1>1 DEF OneWaits
<1>6. ASSUME m.op \in ClientOps, waiting' = "nothing"
      PROVE  OneWaits'
  BY <1>1, <1>5, <1>6 DEF OneWaits
<1>7. ASSUME m.op \in ClientOps
      PROVE  \A c \in CounterNames : Pending(c)' = Pending(c)
  BY <1>4, <1>7 DEF Adds, ClientOps
<1>8. CASE m.op = "start"
  <2> DEFINE name == m.name
  <2>1. /\ counters' = [c \in DOMAIN counters \cup {name} |->
                           IF c \in DOMAIN counters THEN counters[c] ELSE 0]
        /\ waiting' = "nothing" /\ due' = [due EXCEPT ![name] = [on |-> TRUE, n |-> 0]]
        /\ name \in CounterNames
    BY <1>1, <1>8 DEF ProcessCounters, CounterMessages
  <2>2. m.op \in ClientOps
    BY <1>8 DEF ClientOps
  <2>3. due' \in [CounterNames -> [on : BOOLEAN, n : Nat]]
    BY <2>1 DEF CounterTypes
  <2>4. /\ DOMAIN counters' = DOMAIN counters \cup {name}
        /\ \A c \in DOMAIN counters : counters'[c] = counters[c]
        /\ \A c \in DOMAIN counters' : counters'[c] \in Nat
    BY <2>1 DEF CounterTypes
  <2>5. CounterTypes'
    BY <1>1, <1>2, <2>1, <2>3, <2>4 DEF CounterTypes
  <2>6. \A c \in CounterNames : Value(c)' = Value(c)
    BY <2>1 DEF Value
  <2>7. /\ due'[name].n = 0
        /\ \A c \in CounterNames \ {name} : due'[c] = due[c]
    BY <2>1 DEF CounterTypes
  <2>8. Accounted'
    <3>1. ASSUME NEW c \in CounterNames, due'[c].on
          PROVE  c \in DOMAIN counters' /\ counters'[c] + Pending(c)' >= due'[c].n
      <4>1. CASE c = name
        BY <1>4, <1>7, <2>2, <2>4, <2>7, <4>1
      <4>2. CASE c # name
        BY <1>7, <2>2, <2>4, <2>7, <3>1, <4>2 DEF Accounted
      <4> QED
        BY <4>1, <4>2
    <3> QED
      BY <1>1, <1>7, <2>2, <2>6, <3>1 DEF Accounted
  <2> QED
    BY <1>3, <1>6, <2>1, <2>2, <2>5, <2>8
<1>9. CASE m.op = "increment"
  <2> DEFINE c == m.name
  <2>1. counters' = Incremented(c) /\ UNCHANGED <<waiting, due>>
    BY <1>9 DEF ProcessCounters
  <2>2. \A d : Adds(m, d) <=> d = c
    BY <1>9 DEF Adds
  <2> HIDE DEF c
  <2>3. /\ DOMAIN counters' = DOMAIN counters
        /\ \A d \in DOMAIN counters :
              counters'[d] = IF d = c THEN counters[d] + 1 ELSE counters[d]
    BY <2>1 DEF Incremented
  <2>4. CounterTypes'
    BY <1>1, <1>2, <2>1, <2>3 DEF CounterTypes
  <2>5. OneWaits'
    BY <1>1, <2>1 DEF OneWaits
  <2>6. \A d \in CounterNames : /\ Pending(d) = IF d = c THEN Pending(d)' + 1 ELSE Pending(d)'
                                /\ Pending(d)' \in Nat
    BY <1>4, <2>2
  <2>7. Accounted'
    <3>1. ASSUME NEW d \in CounterNames
          PROVE  Value(d)' + Pending(d)' <= sent[d]
      <4>1. Value(d) + Pending(d) <= sent[d] /\ sent[d] \in Nat
        BY DEF Accounted, CounterTypes
      <4>2. /\ d \in DOMAIN counters => Value(d)' = counters'[d] /\ Value(d) = counters[d]
            /\ d \notin DOMAIN counters => Value(d)' = 0 /\ Value(d) = 0
        BY <2>3 DEF Value
      <4>3. d \in DOMAIN counters => counters[d] \in Nat
        BY DEF CounterTypes
      <4> QED
        BY <2>3, <2>6, <4>1, <4>2, <4>3
    <3>2. ASSUME NEW d \in CounterNames, due[d].on
          PROVE  d \in DOMAIN counters' /\ counters'[d] + Pending(d)' >= due[d].n
      <4>1. d \in DOMAIN counters /\ counters[d] + Pending(d) >= due[d].n
        BY <3>2 DEF Accounted
      <4>2. counters[d] \in Nat /\ due[d].n \in Nat
        BY <4>1 DEF CounterTypes
      <4> QED
        BY <2>3, <2>6, <4>1, <4>2
    <3> QED
      BY <1>1, <2>1, <3>1, <3>2 DEF Accounted
  <2> QED
    BY <1>3, <2>4, <2>5, <2>7
<1>10. CASE m.op = "clear"
  <2>1. counters' = << >> /\ waiting' = "nothing" /\ due' = due /\ m.op \in ClientOps
    BY <1>10 DEF ProcessCounters, ClientOps
  <2>2. DOMAIN counters' = {}
    BY <2>1
  <2>3. CounterTypes'
    BY <1>1, <1>2, <2>1, <2>2 DEF CounterTypes
  <2>4. \A c \in CounterNames : ~due[c].on
    BY <1>5, <1>10, <2>1 DEF OneWaits
  <2>5. ASSUME NEW c \in CounterNames
        PROVE  Value(c)' + Pending(c)' <= sent[c]
    <3>1. Value(c)' = 0 /\ Value(c) \in Nat /\ sent[c] \in Nat
      BY <2>2 DEF Value, CounterTypes
    <3>2. Value(c) + Pending(c) <= sent[c]
      BY DEF Accounted
    <3> QED
      BY <1>4, <1>7, <2>1, <3>1, <3>2
  <2>6. Accounted'
    BY <1>1, <2>1, <2>4, <2>5 DEF Accounted
  <2> QED
    BY <1>3, <1>6, <2>1, <2>3, <2>6
<1>11. CASE m.op = "counters"
  <2>1. waiting' = "nothing" /\ UNCHANGED <<counters, due>> /\ m.op \in ClientOps
    BY <1>11 DEF ProcessCounters, ClientOps
  <2>2. CounterTypes'
    BY <1>1, <1>2, <2>1 DEF CounterTypes
  <2>3. \A c \in CounterNames : Value(c)' = Value(c)
    BY <2>1 DEF Value
  <2>4. Accounted'
    BY <1>1, <1>7, <2>1, <2>3 DEF Accounted
  <2> QED
    BY <1>3, <1>6, <2>1, <2>2, <2>4
<1> QED
  BY <1>8, <1>9, <1>10, <1>11 DEF ProcessCounters

\* One step per action.
LEMMA InternalsNextInv ==
    ASSUME InternalsInv, [InternalsNext]_internalsVars
    PROVE  InternalsInv'
<1>1. CASE UNCHANGED internalsVars
  BY <1>1 DEF internalsVars, InternalsInv, CounterTypes, Numbered, OneWaits, Accounted, Value,
              Pending
<1>2. /\ due \in [CounterNames -> [on : BOOLEAN, n : Nat]] /\ sent \in [CounterNames -> Nat]
      /\ made \in Nat
  BY DEF InternalsInv, CounterTypes
<1>3. ASSUME NEW c \in CounterNames, StartCounter(c)
      PROVE  InternalsInv'
  <2> DEFINE msg == Message("start", c, 0)
  <2>1. msg \in CounterMessages /\ msg.op = "start" /\ msg.op \in ClientOps
    BY DEF Message, CounterMessages, ClientOps
  <2> HIDE DEF msg
  <2> QED
    BY <1>2, <1>3, <2>1, ClientSends DEF StartCounter, msg
<1>4. CASE ClearCounters
  <2> DEFINE msg == Message("clear", "none", 0)
  <2>1. msg \in CounterMessages /\ msg.op = "clear" /\ msg.op \in ClientOps
    BY DEF Message, CounterMessages, ClientOps
  <2>2. /\ due' \in [CounterNames -> [on : BOOLEAN, n : Nat]]
        /\ \A c \in CounterNames : ~due'[c].on
    BY <1>4 DEF ClearCounters, NotStarted
  <2>3. /\ waiting = "nothing" /\ inbox' = Append(inbox, msg) /\ waiting' = "clear"
        /\ UNCHANGED <<spawned, counters, sent, made>>
    BY <1>4 DEF ClearCounters
  <2> HIDE DEF msg
  <2> QED
    BY <2>1, <2>2, <2>3, ClientSends
<1>5. ASSUME NEW op \in {"counters", "session counters"}, GetCounters(op)
      PROVE  InternalsInv'
  <2> DEFINE msg == Message(op, "none", 0)
  <2>1. msg \in CounterMessages /\ msg.op = op /\ msg.op \in ClientOps /\ msg.op # "clear"
    BY DEF Message, CounterMessages, ClientOps
  <2> HIDE DEF msg
  <2> QED
    BY <1>2, <1>5, <2>1, ClientSends DEF GetCounters, msg
<1>6. ASSUME NEW c, due' = [due EXCEPT ![c].n = IF due[c].on THEN @ + 1 ELSE 0],
             sent' = [sent EXCEPT ![c] = @ + 1]
      PROVE  /\ sent' \in [CounterNames -> Nat]
             /\ \A d \in CounterNames : sent'[d] = IF d = c THEN sent[d] + 1 ELSE sent[d]
             /\ due' \in [CounterNames -> [on : BOOLEAN, n : Nat]]
             /\ \A d \in CounterNames :
                   /\ due'[d].on <=> due[d].on
                   /\ due[d].on => due'[d].n = IF d = c THEN due[d].n + 1 ELSE due[d].n
  <2>1. CASE c \in CounterNames
    <3>1. due[c].n \in Nat /\ sent[c] \in Nat
      BY <1>2, <2>1
    <3> QED
      BY <1>2, <1>6, <2>1, <3>1
  <2>2. CASE c \notin CounterNames
    BY <1>2, <1>6, <2>2
  <2> QED
    BY <2>1, <2>2
<1>7. ASSUME NEW c \in CounterNames, IncrementCounter(c)
      PROVE  InternalsInv'
  <2> DEFINE msg == Message("increment", c, sent[c] + 1)
  <2>1. /\ msg \in CounterMessages /\ msg.op = "increment" /\ msg.name = c
        /\ msg.number = sent[c] + 1
    BY <1>2 DEF Message, CounterMessages
  <2> HIDE DEF msg
  <2>2. \A d \in CounterNames : Adds(msg, d) <=> d = c
    BY <2>1 DEF Adds
  <2>3. /\ due' = [due EXCEPT ![c].n = IF due[c].on THEN @ + 1 ELSE 0]
        /\ sent' = [sent EXCEPT ![c] = @ + 1]
        /\ inbox' = Append(inbox, msg) /\ UNCHANGED <<spawned, counters, waiting>> /\ made' \in Nat
    BY <1>2, <1>7 DEF IncrementCounter, msg
  <2>4. /\ sent' \in [CounterNames -> Nat]
        /\ \A d \in CounterNames : sent'[d] = IF d = c THEN sent[d] + 1 ELSE sent[d]
        /\ due' \in [CounterNames -> [on : BOOLEAN, n : Nat]]
        /\ \A d \in CounterNames :
              /\ due'[d].on <=> due[d].on
              /\ due[d].on => due'[d].n = IF d = c THEN due[d].n + 1 ELSE due[d].n
    BY <1>6, <2>3
  <2>5. SentOne(msg, c)
    BY <2>1, <2>2, <2>4, Zenon DEF SentOne
  <2> QED
    BY <2>1, <2>3, <2>5, ComponentSends
<1>8. ASSUME NEW ok \in BOOLEAN, CreateSession(ok)
      PROVE  InternalsInv'
  <2> DEFINE c == IF ok THEN SuccessCounter ELSE FailureCounter
             number == IF ok THEN made + 1 ELSE 0
             msg == Message("create session", "none", number)
  <2>1. /\ msg \in CounterMessages /\ msg.op = "create session"
        /\ (msg.number # 0) <=> ok
    <3>1. number \in Nat /\ (number # 0 <=> ok)
      BY <1>2
    <3> HIDE DEF number
    <3> QED
      BY <3>1 DEF Message, CounterMessages
  <2>2. /\ due' = [due EXCEPT ![c].n = IF due[c].on THEN @ + 1 ELSE 0]
        /\ sent' = [sent EXCEPT ![c] = @ + 1]
        /\ inbox' = Append(inbox, msg) /\ UNCHANGED <<spawned, counters, waiting>> /\ made' \in Nat
    <3>1. made' = made + 1
      BY <1>8, Zenon DEF CreateSession
    <3>2. made' \in Nat
      BY <1>2, <3>1
    <3> QED
      BY <1>8, <3>2, Zenon DEF CreateSession
  <2> HIDE DEF msg
  <2>3. \A d \in CounterNames : Adds(msg, d) <=> d = c
    BY <2>1 DEF Adds
  <2> HIDE DEF c
  <2>4. /\ sent' \in [CounterNames -> Nat]
        /\ \A d \in CounterNames : sent'[d] = IF d = c THEN sent[d] + 1 ELSE sent[d]
        /\ due' \in [CounterNames -> [on : BOOLEAN, n : Nat]]
        /\ \A d \in CounterNames :
              /\ due'[d].on <=> due[d].on
              /\ due[d].on => due'[d].n = IF d = c THEN due[d].n + 1 ELSE due[d].n
    BY <1>6, <2>2
  <2>5. SentOne(msg, c)
    <3>1. msg.op # "increment" /\ msg.op \in {"increment", "create session"}
      BY <2>1
    <3> QED
      BY <2>3, <2>4, <3>1, Zenon DEF SentOne
  <2> QED
    BY <2>1, <2>2, <2>5, ComponentSends
<1> QED
  BY <1>1, <1>3, <1>4, <1>5, <1>7, <1>8, DispatchInv, ProcessCountersInv
     DEF InternalsNext, InternalsRoutes

\* At the start nothing was sent.
LEMMA InternalsInitInv == InternalsInit => InternalsInv
<1> SUFFICES ASSUME InternalsInit PROVE InternalsInv
  OBVIOUS
<1>1. CounterTypes
  BY FS_EmptySet DEF InternalsInit, CounterTypes, NotStarted
<1>2. Numbered /\ OneWaits
  BY DEF InternalsInit, Numbered, OneWaits, NotStarted
<1>3. \A c \in CounterNames : Value(c) = 0 /\ Pending(c) = 0
  <2>1. \A c \in CounterNames : InQueue(inbox, c) = {} /\ InTasks(spawned, c) = {}
    BY DEF InternalsInit, InQueue, InTasks
  <2>2. DOMAIN counters = {}
    BY DEF InternalsInit
  <2>3. \A c \in CounterNames : Value(c) = 0
    BY <2>2 DEF Value
  <2> QED
    BY <2>1, <2>3, FS_EmptySet DEF Pending
<1> QED
  BY <1>1, <1>2, <1>3 DEF InternalsInit, InternalsInv, Accounted, NotStarted

\* Nothing is on its way any more: everything is counted.
LEMMA InternalsAreRight == InternalsInv => InternalsRight
<1> SUFFICES ASSUME InternalsInv PROVE InternalsRight
  OBVIOUS
<1>1. ASSUME inbox = <<>>, spawned = {}, NEW c \in CounterNames, due[c].on
      PROVE  c \in DOMAIN counters /\ counters[c] >= due[c].n
  <2>1. InQueue(inbox, c) = {} /\ InTasks(spawned, c) = {}
    BY <1>1 DEF InQueue, InTasks
  <2>2. Pending(c) = 0
    BY <2>1, FS_EmptySet DEF Pending
  <2>3. c \in DOMAIN counters /\ counters[c] + Pending(c) >= due[c].n
    BY <1>1 DEF InternalsInv, Accounted
  <2>4. counters[c] \in Nat
    BY <2>3 DEF InternalsInv, CounterTypes
  <2> QED
    BY <2>2, <2>3, <2>4
<1>2. ASSUME NEW c \in DOMAIN counters
      PROVE  counters[c] <= sent[c]
  <2>1. c \in CounterNames /\ counters[c] \in Nat /\ sent[c] \in Nat
    BY DEF InternalsInv, CounterTypes
  <2>2. counters[c] + Pending(c) <= sent[c]
    BY <2>1 DEF InternalsInv, Accounted, Value
  <2> QED
    BY <2>1, <2>2, PendingType DEF InternalsInv
<1> QED
  BY <1>1, <1>2 DEF InternalsRight

(* What a node reports of itself is right for any number of rows, streams, *)
(* counters and requests, however their tasks interleave: no mark of an    *)
(* index is lost between collecting and removing, the position that is     *)
(* reported is not ahead of a stream, and every increment after            *)
(* start_counter is counted once (metrics.rs, checkpoint_saver.rs,         *)
(* internals.rs).                                                          *)
THEOREM NodeReports == SeriesSpec /\ SaverSpec /\ InternalsSpec => []ReportsRight
<1>1. SeriesSpec => []SeriesInv
  BY SeriesInitInv, SeriesNextInv, PTL DEF SeriesSpec
<1>2. SaverSpec => []SaverInv
  BY SaverInitInv, SaverNextInv, PTL DEF SaverSpec
<1>3. InternalsSpec => []InternalsInv
  BY InternalsInitInv, InternalsNextInv, PTL DEF InternalsSpec
<1>4. SeriesInv /\ SaverInv /\ InternalsInv => ReportsRight
  BY SeriesInvRight, SaverIsRight, InternalsAreRight DEF ReportsRight
<1> QED
  BY <1>1, <1>2, <1>3, <1>4, PTL
=============================================================================
