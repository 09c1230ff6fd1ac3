------------------------------ MODULE GraphCopies ------------------------------
(***************************************************************************)
(* What is read off a materialized graph and where it is copied to: the    *)
(* audit and rollback of a merge, the fold of merged nodes, the DuckDB     *)
(* copy (GraphStorage) and the Neo4j explorer copy.  Copies are values     *)
(* too; the ledger says of which graphs they are taken.                    *)
(***************************************************************************)
EXTENDS GraphService, FiniteSets

-------------------------------------------------------------------------------
(* Audit.                                                                  *)

MergesOf(g, id) == Picked(g.edges, {x \in ToSet(g.edges) : x.type = "SAME_AS" /\ x.from = id})

(* The unmerge of the first merge with this reference, and no event.       *)
AuditRollback(g, id, ref) ==
    LET merges == MergesOf(g, id)
        found == Picked(merges, {x \in ToSet(merges) : x.ref = ref})
    IN IF HasNode(g, id) /\ found # <<>>
       THEN Unmerge(g, Event(<<"rollback", id>>, "unmerge", id, Head(found).to, ref))
       ELSE g

-------------------------------------------------------------------------------
(* The fold: canonical_id is followed while the node is marked as merged,  *)
(* until an id would repeat.  The guard holds the ids moved to, not the    *)
(* start, so a cycle is walked once round.                                 *)

CanonicalOf(g, id) ==
    LET Stops(cur, seen) ==
            LET node == g.nodes[cur]
            IN ~ node.merged \/ node.canonical \in seen
        walk[n \in 0 .. Cardinality(DOMAIN g.nodes) + 1] ==
            IF n = 0 THEN [at |-> id, seen |-> {}]
            ELSE LET w == walk[n - 1]
                 IN IF ~ HasNode(g, w.at) \/ Stops(w.at, w.seen)
                    THEN w
                    ELSE [at |-> g.nodes[w.at].canonical,
                          seen |-> w.seen \cup {g.nodes[w.at].canonical}]
    IN walk[Cardinality(DOMAIN g.nodes) + 1].at

(* The nodes an investigation sees as one entity; deleted ones drop out.   *)
EquivalenceClass(g, id) ==
    {other \in DOMAIN g.nodes :
        /\ CanonicalOf(g, other) = CanonicalOf(g, id)
        /\ ~ g.nodes[other].deleted}

-------------------------------------------------------------------------------
(* GraphStorage: nodes by id, edges by edge id, quarantined edges by type. *)

NoCopy == [nodes |-> <<>>, edges |-> <<>>, quarantined |-> <<>>]

(* Rows that are there keep the value they have.                           *)
Filed(old, new) ==
    [k \in DOMAIN old \cup DOMAIN new |-> IF k \in DOMAIN old THEN old[k] ELSE new[k]]

(* Nodes are overwritten, an edge id that is on file keeps its edge, and   *)
(* one quarantined edge per type survives: the first, as only its reason   *)
(* is overwritten.                                                         *)
PersistGraph(copy, g) ==
    LET EdgeOf(id) == CHOOSE x \in ToSet(g.edges) : x.id = id
        AnyOf(type) == CHOOSE q \in g.quarantined : q.type = type
    IN [nodes |-> Filed(g.nodes, copy.nodes),
        edges |-> Filed(copy.edges, [id \in {x.id : x \in ToSet(g.edges)} |-> EdgeOf(id)]),
        quarantined |-> Filed(copy.quarantined,
                             [type \in {q.type : q \in g.quarantined} |-> AnyOf(type)])]

(* restore neither sets the edge counter nor the applied keys.             *)
Restored(nodes, edges, quarantined) ==
    [EmptyGraph EXCEPT !.nodes = nodes, !.edges = edges, !.quarantined = quarantined]

LoadStored(copy) ==
    LET ids == InOrder(DOMAIN copy.edges)
    IN Restored(copy.nodes,
                [i \in DOMAIN ids |-> copy.edges[ids[i]]],
                {copy.quarantined[type] : type \in DOMAIN copy.quarantined})

-------------------------------------------------------------------------------
(* Neo4j: a relation is merged by its ends and its type.                   *)

NoExplorer == [nodes |-> <<>>, relations |-> {}]

(* Properties are added to those on file (n += props): canonical_id, which *)
(* an unmerge removes from the node, stays there.                          *)
LoadExplorer(explorer, g) ==
    LET Merged(id) ==
            IF id \in DOMAIN explorer.nodes /\ g.nodes[id].canonical = NoId
            THEN [g.nodes[id] EXCEPT !.canonical = explorer.nodes[id].canonical]
            ELSE g.nodes[id]
        Found(x) == HasNode(g, x.from) /\ HasNode(g, x.to)
    IN [nodes |-> Filed([id \in DOMAIN g.nodes |-> Merged(id)], explorer.nodes),
        relations |-> explorer.relations
            \cup {[type |-> x.type, from |-> x.from, to |-> x.to] :
                      x \in {y \in ToSet(g.edges) : Found(y)}}]

(* Read back, a relation's key names its ends and not its type: the first  *)
(* relation of two nodes in a direction is the only one.                   *)
ReconstructGraph(explorer) ==
    LET relations == SetToSeq(explorer.relations)
        RelationEvent(r) ==
            Event(<<"re", r.from, r.to>>, "create_edge", r.from, r.to, r.type)
    IN Apply([EmptyGraph EXCEPT !.nodes = explorer.nodes],
             [i \in DOMAIN relations |-> RelationEvent(relations[i])])

(* Neighbours in the explorer, whatever joins them.                        *)
QueryNeighbors(g, id) ==
    {x.to : x \in {y \in ToSet(g.edges) : y.from = id}}
        \cup {x.from : x \in {y \in ToSet(g.edges) : y.to = id}}

===============================================================================
