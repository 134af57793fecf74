----------------------------- MODULE Discovery -----------------------------
(***************************************************************************)
(* How a list of indexes is read from a database whose nodes apply schema  *)
(* changes one after the other: the round of get_indexes                   *)
(* (monitor_indexes.rs), the answers of the db actor (db.rs) and the       *)
(* queries behind them (db_driver/scylla.rs).  The schema tables are local *)
(* to a node, so every query may be served by another one; the columns of  *)
(* a table come from the driver's own view of the cluster, which follows   *)
(* the schema on its own.  What a row says is the subject of IndexOptions, *)
(* what becomes of the list that of Lifecycle.                             *)
(*                                                                         *)
(* A schema is a record [tables, indexes]: tables by name, [key, cdc,      *)
(* dimensions], and indexes by name, [table, version, kind, alternator,    *)
(* dimensions, options].  The key stands for the columns of the table.     *)
(***************************************************************************)
EXTENDS Naturals, Sequences

CONSTANTS
    DbNodes,
    Schemas,            \* the schemas the database goes through
    MaxDiscoveryFaults  \* bound on lost sessions and failed queries

VARIABLES
    latest,     \* version of the schema of the database: an index of Schemas
    applied,    \* the version every node has applied
    view,       \* the version the driver's view of the cluster shows
    connected,  \* the db actor has a session
    lastVersion,\* SchemaVersion of monitor_indexes; 0 is Uuid::nil
    round,      \* get_indexes: [step, unasked, todo, index, list]
    discovered, \* the last list that was announced, [version, list], in a
                \* sequence that is empty before the first
    discoveryFaults \* counts them

discoveryVars ==
    <<latest, applied, view, connected, lastVersion, round, discovered, discoveryFaults>>
databaseVars == <<latest, applied, view, connected>>

DiscoveryFault ==
    /\ discoveryFaults < MaxDiscoveryFaults
    /\ discoveryFaults' = discoveryFaults + 1

-----------------------------------------------------------------------------
(* The database and the driver's view                                       *)

AlterSchema ==
    /\ latest < Len(Schemas)
    /\ latest' = latest + 1
    /\ UNCHANGED <<applied, view, connected, lastVersion, round, discovered, discoveryFaults>>

ApplySchema(n) ==
    /\ applied[n] < latest
    /\ applied' = [applied EXCEPT ![n] = @ + 1]
    /\ UNCHANGED <<latest, view, connected, lastVersion, round, discovered, discoveryFaults>>

\* The driver's view is refreshed from the node of its control connection.
RefreshView ==
    /\ connected
    /\ \E n \in DbNodes : view # applied[n] /\ view' = applied[n]
    /\ UNCHANGED <<latest, applied, connected, lastVersion, round, discovered, discoveryFaults>>

LoseConnection ==
    /\ connected
    /\ DiscoveryFault
    /\ connected' = FALSE
    /\ UNCHANGED <<latest, applied, view, lastVersion, round, discovered>>

Reconnect ==
    /\ ~connected
    /\ connected' = TRUE
    /\ \E n \in DbNodes : view' = applied[n]
    /\ UNCHANGED <<latest, applied, lastVersion, round, discovered, discoveryFaults>>

\* The node that serves a query, as it has applied the schema.
Served(n) == Schemas[applied[n]]

-----------------------------------------------------------------------------
(* A round                                                                  *)

NoIndex == [name |-> "none"]
Idle == [step |-> "idle", unasked |-> {}, todo |-> {}, index |-> NoIndex, list |-> {}]

ReadSchemaVersion(n) ==
    /\ round.step = "idle"
    /\ connected
    /\ applied[n] # lastVersion
    /\ lastVersion' = applied[n]
    /\ round' = [Idle EXCEPT !.step = "start", !.unasked = DbNodes]
    /\ UNCHANGED <<databaseVars, discovered, discoveryFaults>>

\* Any error and any check that fails end the round: the version is
\* forgotten and the next tick starts again.
FailRound ==
    /\ lastVersion' = 0
    /\ round' = Idle
    /\ UNCHANGED discovered

\* refresh_metadata, whose outcome is not looked at.
RefreshAndFail ==
    /\ \/ \E n \in DbNodes : view' = applied[n]
       \/ UNCHANGED view
    /\ FailRound
    /\ UNCHANGED <<latest, applied, connected, discoveryFaults>>

\* The step that follows when an index is done with, or none is left.
NextIndex(r) == IF r.todo = {} THEN [r EXCEPT !.step = "end", !.unasked = DbNodes]
                ELSE [r EXCEPT !.step = "version"]
\* An answer of the database moves the round on and nothing else.
Proceed(r) ==
    /\ round' = r
    /\ UNCHANGED <<databaseVars, lastVersion, discovered, discoveryFaults>>

\* Bug: the list is not checked against the schema at the end.
AgreesAtStart(n) ==
    /\ round.step \in {"start", "end"}
    /\ connected
    /\ n \in round.unasked
    /\ round.step = "start" => applied[n] = lastVersion

\* check_schema_agreement asks the nodes one by one.  Once all of them have
\* given the version, the step that follows is taken.
Agrees(n) ==
    /\ round.step \in {"start", "end"}
    /\ connected
    /\ n \in round.unasked
    /\ applied[n] = lastVersion
Agreed(n) == round.unasked = {n}

AskNode(n) == Agrees(n) /\ ~Agreed(n) /\ Proceed([round EXCEPT !.unasked = @ \ {n}])

IsValidSchemaAtStart(n) ==
    /\ Agrees(n) /\ Agreed(n) /\ round.step = "start"
    /\ Proceed([Idle EXCEPT !.step = "list"])

\* The list is announced with the answer of the last node.
IsValidSchemaAtEnd(n) ==
    /\ Agrees(n) /\ Agreed(n) /\ round.step = "end"
    /\ discovered' = <<[version |-> lastVersion, list |-> round.list]>>
    /\ round' = Idle
    /\ UNCHANGED <<databaseVars, lastVersion, discoveryFaults>>

NotAgreed(n) ==
    /\ round.step \in {"start", "end"}
    /\ connected
    /\ n \in round.unasked
    /\ applied[n] # lastVersion
    /\ FailRound
    /\ UNCHANGED <<databaseVars, discoveryFaults>>

\* The driver's view of a table: whether it is there, its CDC log, its key.
HasTable(t) == t \in DOMAIN Schemas[view].tables
HasCdcLog(t) == Schemas[view].tables[t].cdc
KeyOf(t) == Schemas[view].tables[t].key

\* The rows of the indexes, with the columns of their tables as the driver
\* sees them.
ListIndexes(n) ==
    LET S == Served(n).indexes
    IN  /\ round.step = "list"
        /\ connected
        /\ \/ /\ \A i \in DOMAIN S : HasTable(S[i].table)
              /\ Proceed(NextIndex([round EXCEPT !.todo =
                    {[name |-> i, table |-> S[i].table, kind |-> S[i].kind,
                      alternator |-> S[i].alternator, key |-> KeyOf(S[i].table)] : i \in DOMAIN S}]))
           \/ /\ \E i \in DOMAIN S : ~HasTable(S[i].table)
              /\ RefreshAndFail

\* The row of the index at hand, by keyspace, table and name.
HasIndexRow(n, i) ==
    /\ i.name \in DOMAIN Served(n).indexes
    /\ Served(n).indexes[i.name].table = i.table
IndexRow(n, i) == Served(n).indexes[i.name]

WithField(f, x, v) == [y \in DOMAIN f \cup {x} |-> IF y = x THEN v ELSE f[y]]

ReadIndexVersion(n, i) ==
    /\ round.step = "version"
    /\ connected
    /\ i \in round.todo
    /\ \/ /\ HasIndexRow(n, i)
          /\ Proceed([round EXCEPT
                !.step = IF i.kind = "vs" THEN "dimensions" ELSE "params",
                !.todo = @ \ {i},
                !.index = WithField(i, "version", IndexRow(n, i).version)])
       \/ ~HasIndexRow(n, i) /\ FailRound /\ UNCHANGED <<databaseVars, discoveryFaults>>

\* The dimensions are in the row of the index for an Alternator table, in
\* that of the column otherwise; <<>> when the node has no such row.
TargetDimensions(n, i) ==
    IF i.alternator THEN IF HasIndexRow(n, i) THEN <<IndexRow(n, i).dimensions>> ELSE <<>>
    ELSE IF i.table \in DOMAIN Served(n).tables
    THEN <<Served(n).tables[i.table].dimensions>> ELSE <<>>

\* A type that is not supported leaves the index out.
ReadDimensions(n) ==
    LET d == TargetDimensions(n, round.index)
    IN  /\ round.step = "dimensions"
        /\ connected
        /\ \/ d = <<>> /\ FailRound /\ UNCHANGED <<databaseVars, discoveryFaults>>
           \/ d = <<0>> /\ Proceed(NextIndex(round))
           \/ /\ d \notin {<<>>, <<0>>}
              /\ Proceed([round EXCEPT !.step = "params",
                                       !.index = WithField(@, "dimensions", d[1])])

Default == "default"
ReadParams(n) ==
    /\ round.step = "params"
    /\ connected
    /\ Proceed([round EXCEPT !.step = "valid", !.index = WithField(@, "options",
          IF HasIndexRow(n, @) THEN IndexRow(n, @).options ELSE Default)])

\* The driver must know the keyspace, the table and its CDC log.
IsValidIndex(i) == HasTable(i.table) /\ HasCdcLog(i.table)

ValidateIndex ==
    /\ round.step = "valid"
    /\ connected
    /\ \/ /\ IsValidIndex(round.index)
          /\ Proceed(NextIndex([round EXCEPT !.list = @ \cup {round.index}]))
       \/ ~IsValidIndex(round.index) /\ RefreshAndFail

\* A query fails, or there is no session to answer it: respond_with_error
\* gives an error, and FALSE to the two checks.
QueryFails ==
    /\ round.step # "idle"
    /\ \/ ~connected /\ UNCHANGED discoveryFaults
       \/ DiscoveryFault
    /\ FailRound
    /\ UNCHANGED databaseVars

-----------------------------------------------------------------------------
DiscoveryInit ==
    /\ latest = 1
    /\ applied = [n \in DbNodes |-> 1]
    /\ view = 1
    /\ connected = TRUE
    /\ lastVersion = 0
    /\ round = Idle
    /\ discovered = <<>>
    /\ discoveryFaults = 0

Round ==
    \/ \E n \in DbNodes :
          \/ ReadSchemaVersion(n)
          \/ AskNode(n)
          \/ IsValidSchemaAtStart(n)
          \/ IsValidSchemaAtEnd(n)
          \/ NotAgreed(n)
          \/ ListIndexes(n)
          \/ \E i \in round.todo : ReadIndexVersion(n, i)
          \/ ReadDimensions(n)
          \/ ReadParams(n)
    \/ ValidateIndex
    \/ QueryFails

DiscoveryNext ==
    \/ AlterSchema
    \/ \E n \in DbNodes : ApplySchema(n)
    \/ RefreshView
    \/ LoseConnection
    \/ Reconnect
    \/ Round

DiscoverySpec == DiscoveryInit /\ [][DiscoveryNext]_discoveryVars

\* The nodes catch up with the schema, the driver refreshes its view, the
\* db actor connects again and monitor_indexes keeps ticking.
DiscoveryFairness ==
    /\ WF_discoveryVars(\E n \in DbNodes : ApplySchema(n))
    /\ WF_discoveryVars(RefreshView)
    /\ WF_discoveryVars(Reconnect)
    /\ WF_discoveryVars(Round)

-----------------------------------------------------------------------------
\* What a schema says of its indexes.
Described(S, i) ==
    [name |-> i, table |-> S.indexes[i].table, kind |-> S.indexes[i].kind,
     version |-> S.indexes[i].version, options |-> S.indexes[i].options,
     dimensions |-> IF S.indexes[i].kind # "vs" THEN 0
                    ELSE IF S.indexes[i].alternator THEN S.indexes[i].dimensions
                    ELSE S.tables[S.indexes[i].table].dimensions]
Supported(S, i) == S.indexes[i].kind = "vs" => Described(S, i).dimensions # 0
Snapshot(S) == {Described(S, i) : i \in {j \in DOMAIN S.indexes : Supported(S, j)}}

\* The part of a listed index that was read from the schema tables.
FromTables(i) ==
    [name |-> i.name, table |-> i.table, kind |-> i.kind, version |-> i.version,
     options |-> i.options, dimensions |-> IF i.kind = "vs" THEN i.dimensions ELSE 0]

(* However the nodes lag behind each other and whichever of them serves a   *)
(* query, a list that is announced is the list of one version of the        *)
(* schema, complete and unmixed: the two checks of the agreement make a     *)
(* dozen queries one read (get_indexes of monitor_indexes.rs).              *)
DiscoveredExact ==
    discovered # <<>> =>
        {FromTables(i) : i \in discovered[1].list} = Snapshot(Schemas[discovered[1].version])

(* Once the schema stops changing the list of its last version is found:    *)
(* no failed round, stale view or lost session makes monitor_indexes stay   *)
(* with an older one.                                                       *)
DiscoverySettles == <>[](discovered # <<>> /\ discovered[1].version = latest)
=============================================================================
