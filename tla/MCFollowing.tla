---------------------------- MODULE MCFollowing ----------------------------
(***************************************************************************)
(* How a node follows the schema, one part at a time: the life of its      *)
(* indexes and the reading of the list of indexes.  They meet at a list    *)
(* that Lifecycle takes as given, so an instance runs one of them while    *)
(* the other rests in a state in which it has nothing to do.               *)
(***************************************************************************)
EXTENDS Lifecycle, Discovery

CONSTANTS k1, k2, n1, n2

-----------------------------------------------------------------------------
Meta(k, v, kind, g) ==
    [key |-> k, version |-> v, kind |-> kind, group |-> g, options |-> 0]
\* k1 may be dropped and created again as a full-text index, k2 joins its group.
MCMetas == {Meta(k1, 1, "vs", "a"), Meta(k1, 3, "fts", "a"), Meta(k2, 2, "vs", "a")}
MCSchema == {Meta(k1, 1, "vs", "a")}
MCFlags == {[simulator |-> FALSE, fulltext |-> TRUE]}

-----------------------------------------------------------------------------
Table(key, cdc, dimensions) == [key |-> key, cdc |-> cdc, dimensions |-> dimensions]
VectorIndex(t, v, alternator, d, o) ==
    [table |-> t, version |-> v, kind |-> "vs", alternator |-> alternator,
     dimensions |-> d, options |-> o]

\* An Alternator table and its index come, then the index is dropped and its
\* name given to an index of t3, whose column has no supported type.
OneTable == [t1 |-> Table(1, TRUE, 3), t3 |-> Table(1, TRUE, 0)]
TwoTables(cdc) ==
    [t1 |-> Table(1, TRUE, 3), t3 |-> Table(1, TRUE, 0), t2 |-> Table(1, cdc, 0)]
I1 == VectorIndex("t1", 1, FALSE, 0, "a")
I2 == VectorIndex("t2", 3, TRUE, 2, "b")
MCSchemas ==
  <<[tables |-> OneTable, indexes |-> [i1 |-> I1]],
    [tables |-> TwoTables(FALSE), indexes |-> [i1 |-> I1]],
    [tables |-> TwoTables(TRUE), indexes |-> [i1 |-> I1, i2 |-> I2]],
    [tables |-> TwoTables(TRUE), indexes |-> [i1 |-> I1]],
    [tables |-> TwoTables(TRUE),
     indexes |-> [i1 |-> I1, i2 |-> VectorIndex("t3", 5, FALSE, 0, "c")]]>>

-----------------------------------------------------------------------------
VARIABLE part
followingVars == <<vars, discoveryVars, part>>

LifecycleRests ==
    /\ NodeInit /\ IndexesInit
    /\ schema = {} /\ schemaVersion = 1 /\ session = TRUE
    /\ nodeCh = <<>> /\ engineCh = <<>>
    /\ known = 1 /\ monitor = "idle" /\ found = {} /\ indexes = {} /\ adding = {}
    /\ failures = FALSE /\ awaited = <<>> /\ flags \in InitialFlags
    /\ added = <<>> /\ engine = "idle" /\ current = <<>> /\ asking = {} /\ answer = <<>>
    /\ tasks = <<>> /\ early = {} /\ disturbances = MaxDisturbances
DiscoveryRests ==
    /\ latest = 1 /\ applied = [n \in DbNodes |-> 1] /\ view = 1 /\ connected = TRUE
    /\ lastVersion = 1 /\ round = Idle /\ discoveryFaults = MaxDiscoveryFaults
    /\ discovered = <<[version |-> 1, list |->
          {WithField(Described(Schemas[1], i), "key", 1) : i \in DOMAIN Schemas[1].indexes}]>>

FollowingInit ==
    /\ part \in {"lifecycle", "discovery"}
    /\ IF part = "lifecycle" THEN LifecycleInit ELSE LifecycleRests
    /\ IF part = "discovery" THEN DiscoveryInit ELSE DiscoveryRests

FollowingNext ==
    /\ UNCHANGED part
    /\ \/ part = "lifecycle" /\ LifecycleNext /\ UNCHANGED discoveryVars
       \/ part = "discovery" /\ DiscoveryNext /\ UNCHANGED vars

FollowingSpec ==
    /\ FollowingInit /\ [][FollowingNext]_followingVars
    /\ LifecycleFairness /\ DiscoveryFairness

-----------------------------------------------------------------------------
(* What the node takes from the schema is whole: a list of indexes is that  *)
(* of one version (DiscoveredExact of Discovery), and the groups that       *)
(* requests are routed by list every index once (RoutingConsistent of       *)
(* Indexes).                                                                *)
ListsConsistent == DiscoveredExact /\ RoutingConsistent

(* Once the schema rests, monitor_indexes finds its list (DiscoverySettles  *)
(* of Discovery) and the node serves exactly the indexes of the list        *)
(* (IndexesFollowSchema of Lifecycle).                                      *)
SchemaFollowed == DiscoverySettles /\ IndexesFollowSchema
=============================================================================
