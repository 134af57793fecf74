------------------------------ MODULE Indexes ------------------------------
(***************************************************************************)
(* The indexes a node serves (indexes.rs): an entry for every index and,   *)
(* for vector indexes, the groups of indexes among which a query may be    *)
(* routed.  Only the engine changes them; the HTTP routes read them.       *)
(***************************************************************************)
EXTENDS Naturals, Sequences, FiniteSets

VARIABLES entries,  \* key -> [meta, instance, status]
          routing   \* group -> the keys of its vector indexes, in order of
                    \* insertion
indexesVars == <<entries, routing>>

IndexesInit == entries = << >> /\ routing = << >>

ContainsKey(k) == k \in DOMAIN entries

Without(f, x) == [y \in DOMAIN f \ {x} |-> f[y]]
With(f, x, v) == [y \in DOMAIN f \cup {x} |-> IF y = x THEN v ELSE f[y]]

Insert(e) ==
    LET k == e.meta.key
        g == e.meta.group
    IN  /\ entries' = With(entries, k, e)
        /\ routing' = IF e.meta.kind # "vs" THEN routing
                      ELSE IF g \in DOMAIN routing
                      THEN [routing EXCEPT ![g] = Append(@, k)]
                      ELSE With(routing, g, <<k>>)

\* Vec::retain: the keys other than k, in their order.
Retained(keys, k) ==
    LET kept[n \in 0..Len(keys)] ==
            IF n = 0 THEN <<>>
            ELSE IF keys[n] = k THEN kept[n - 1] ELSE Append(kept[n - 1], keys[n])
    IN  kept[Len(keys)]

RoutingWithout(k) ==
    LET g == entries[k].meta.group
        left == Retained(routing[g], k)
    IN  IF entries[k].meta.kind # "vs" THEN routing
        ELSE IF left = <<>> THEN Without(routing, g)
        ELSE [routing EXCEPT ![g] = left]

RemoveKey(k) ==
    IF ContainsKey(k)
    THEN entries' = Without(entries, k) /\ routing' = RoutingWithout(k)
    ELSE UNCHANGED indexesVars

SetStatus(k, s) ==
    /\ entries' = IF k \in DOMAIN entries
                  THEN [entries EXCEPT ![k].status = s] ELSE entries
    /\ UNCHANGED routing

-----------------------------------------------------------------------------
(* The routing groups list every vector index of their group once and       *)
(* nothing else, and there is no empty group: best_index relies on it       *)
(* ("routing_map must contain group for every index in indexes").           *)
RoutingConsistent ==
    /\ \A k \in DOMAIN entries : entries[k].meta.kind = "vs" =>
          entries[k].meta.group \in DOMAIN routing
    /\ \A g \in DOMAIN routing :
          /\ routing[g] # <<>>
          /\ Cardinality({routing[g][i] : i \in DOMAIN routing[g]}) = Len(routing[g])
          /\ {routing[g][i] : i \in DOMAIN routing[g]} =
             {k \in DOMAIN entries : /\ entries[k].meta.kind = "vs"
                                     /\ entries[k].meta.group = g}
=============================================================================
