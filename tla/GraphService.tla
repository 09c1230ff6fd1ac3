----------------------------- MODULE GraphService ------------------------------
(***************************************************************************)
(* The materialized knowledge graph: what GraphService.apply makes of the  *)
(* events of graph_mutations, and how graph_incremental rebuilds a graph   *)
(* from an earlier one.  No state here: a graph is a value.                *)
(*                                                                         *)
(* An event is [key, op, subject, object, ref]: subject and object are the *)
(* id, from and to, member and canonical, or new_id and superseded_id of   *)
(* the payload, ref the relation's type or the resolution_ref.  Payload    *)
(* properties are left out: the pipeline writes none.                      *)
(***************************************************************************)
EXTENDS Naturals, SequencesExt, Selections

CONSTANTS
    Ids,        \* of nodes
    NoId        \* no node: a missing canonical_id, an event without object

Ops == {"create_node", "create_edge", "merge_entity", "unmerge", "supersede", "delete"}

Event(key, op, subject, object, ref) ==
    [key |-> key, op |-> op, subject |-> subject, object |-> object, ref |-> ref]

(* merged with canonical_id, tx_to and deleted of a node's properties.     *)
NewNode == [canonical |-> NoId, merged |-> FALSE, closed |-> FALSE, deleted |-> FALSE]

EmptyGraph ==
    [nodes |-> <<>>, edges |-> <<>>, applied |-> {}, edgeSeq |-> 0, quarantined |-> {}]

-------------------------------------------------------------------------------

HasNode(g, id) == id \in DOMAIN g.nodes

SetNode(g, id, node) ==
    [g EXCEPT !.nodes = [i \in DOMAIN @ \cup {id} |-> IF i = id THEN node ELSE @[i]]]

AddEdge(g, type, from, to, ref) ==
    [g EXCEPT !.edgeSeq = @ + 1,
              !.edges = Append(@, [id |-> g.edgeSeq + 1, type |-> type,
                                   from |-> from, to |-> to, ref |-> ref])]

DropEdges(g, dropped) == [g EXCEPT !.edges = Picked(@, ToSet(@) \ dropped)]

Quarantine(g, type, e) ==
    [g EXCEPT !.quarantined = @ \cup {[type |-> type, from |-> e.subject, to |-> e.object]}]

(* An existing node keeps its properties, and its deletion.                *)
CreateNode(g, e) ==
    IF HasNode(g, e.subject) THEN g ELSE SetNode(g, e.subject, NewNode)

CreateEdge(g, e) ==
    IF HasNode(g, e.subject) /\ HasNode(g, e.object)
    THEN AddEdge(g, e.ref, e.subject, e.object, NoId)
    ELSE Quarantine(g, e.ref, e)

Merge(g, e) ==
    IF HasNode(g, e.subject) /\ HasNode(g, e.object)
    THEN AddEdge(SetNode(g, e.subject,
                         [g.nodes[e.subject] EXCEPT !.canonical = e.object, !.merged = TRUE]),
                 "SAME_AS", e.subject, e.object, e.ref)
    ELSE Quarantine(g, "SAME_AS", e)

(* The reference selects among the SAME_AS edges only: an edge of another  *)
(* type from the member to the canonical goes too.                         *)
Undone(g, e) ==
    {x \in ToSet(g.edges) :
        /\ x.from = e.subject
        /\ x.to = e.object
        /\ x.type = "SAME_AS" => x.ref = e.ref}

(* A mutant: the canonical stays on the member.                            *)
MutantUnmerge(g, e) == DropEdges(g, Undone(g, e))

Unmerge(g, e) ==
    LET left == DropEdges(g, Undone(g, e))
        node == [g.nodes[e.subject] EXCEPT !.canonical = NoId, !.merged = FALSE]
    IN IF ~ HasNode(g, e.subject)
       THEN g
       ELSE IF \E x \in ToSet(left.edges) : x.from = e.subject /\ x.type = "SAME_AS"
            THEN left
            ELSE SetNode(left, e.subject, node)

Supersede(g, e) ==
    IF HasNode(g, e.subject) /\ HasNode(g, e.object)
    THEN SetNode(AddEdge(g, "SUPERSEDES", e.subject, e.object, NoId),
                 e.object, [g.nodes[e.object] EXCEPT !.closed = TRUE])
    ELSE g

Delete(g, e) ==
    IF HasNode(g, e.subject)
    THEN DropEdges(SetNode(g, e.subject, [g.nodes[e.subject] EXCEPT !.deleted = TRUE]),
                   {x \in ToSet(g.edges) : e.subject \in {x.from, x.to}})
    ELSE g

Effect(g, e) ==
    CASE e.op = "create_node"  -> CreateNode(g, e)
      [] e.op = "create_edge"  -> CreateEdge(g, e)
      [] e.op = "merge_entity" -> Merge(g, e)
      [] e.op = "unmerge"      -> Unmerge(g, e)
      [] e.op = "supersede"    -> Supersede(g, e)
      [] e.op = "delete"       -> Delete(g, e)

(* A mutant: the keys are not looked up.                                   *)
MutantApplyEvent(g, e) == [Effect(g, e) EXCEPT !.applied = @ \cup {e.key}]

ApplyEvent(g, e) ==
    IF e.key \in g.applied
    THEN g
    ELSE [Effect(g, e) EXCEPT !.applied = @ \cup {e.key}]

Apply(g, events) ==
    LET after[n \in 0 .. Len(events)] ==
            IF n = 0 THEN g ELSE ApplyEvent(after[n - 1], events[n])
    IN after[Len(events)]

Replay(events) == Apply(EmptyGraph, events)

-------------------------------------------------------------------------------
(* Incremental rebuild.  A graph is turned back into events: deleted nodes *)
(* are not listed, and what merges and corrections left on a node is       *)
(* dropped.  The order of the nodes does not matter.                       *)

ExtractEvents(g) ==
    LET live == {id \in DOMAIN g.nodes : ~ g.nodes[id].deleted}
        NodeEvent(id) == Event(<<"extract", id>>, "create_node", id, NoId, NoId)
        EdgeEvent(x) == Event(<<"extract", x.id>>, "create_edge", x.from, x.to, x.type)
        ids == SetToSeq(live)
    IN [i \in DOMAIN ids |-> NodeEvent(ids[i])]
         \o [i \in DOMAIN g.edges |-> EdgeEvent(g.edges[i])]

ApplyIncremental(base, delta) == Apply(Apply(EmptyGraph, ExtractEvents(base)), delta)

===============================================================================
