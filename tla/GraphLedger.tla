------------------------------ MODULE GraphLedger ------------------------------
(***************************************************************************)
(* graph_mutations and the graphs replayed from it.                        *)
(*                                                                         *)
(* Pipeline runs log the node and the relation of every promoted claim,    *)
(* one autocommitted INSERT per event; an editor logs merges, unmerges,    *)
(* corrections and deletions.  A row's tx_time is the start of its         *)
(* statement, and the log is read in that order, so a row may appear       *)
(* before rows that were already visible.  A GraphService that is kept     *)
(* applies the whole log again.                                            *)
(***************************************************************************)
EXTENDS GraphCopies

CONSTANTS
    Runs,           \* of the pipeline, each a writer of the log
    Editor,         \* the writer of the other mutations
    Gone,           \* the writer of statements whose run has died
    Entities,
    Claims,
    Triples,        \* what a run can resolve a claim to: claim, subject, object (or NoId)
    Edits,          \* mutations of this instance: merge_entity, unmerge, supersede, delete
    Pairs,          \* members and canonicals (new and old versions) of the editor
    MaxClaims,      \* bound: claims taken by runs
    MaxEdits,       \* bound: statements of the editor
    MaxRefreshes,   \* bound: applications of the log to the kept graph
    MaxFaults       \* bound: faults in a behaviour

VARIABLES
    log,            \* rows of graph_mutations and INSERTs under way, by tx_time
    program,        \* each run's events still to log
    finished,       \* last events of the claims that runs have logged to the end
    live,           \* a GraphService that is kept
    taken, edited, refreshed, faults

counters == <<taken, edited, refreshed, faults>>
vars == <<log, program, finished, live, counters>>

-------------------------------------------------------------------------------

ASSUME LedgerAssumption ==
    /\ Entities \cup Claims = Ids
    /\ NoId \notin Ids
    /\ Ids \cap Nat = {}   \* no node is named like an edge
    /\ Triples \subseteq Claims \X Entities \X (Entities \cup {NoId})
    /\ Pairs \subseteq Entities \X Entities
    /\ Edits \subseteq Ops
    /\ {Editor, Gone} \cap Runs = {}
    /\ Editor # Gone
    /\ {"SAME_AS", "SUPERSEDES"} \cap Claims = {}
    /\ {MaxClaims, MaxEdits, MaxRefreshes, MaxFaults} \subseteq Nat

Writers == Runs \cup {Editor, Gone}

(* The events of one promoted claim, in the order the pipeline logs them.  *)
(* A claim is its own relation's type; a claim without object is a node.   *)
Node(key, id) == Event(<<key, id>>, "create_node", id, NoId, NoId)

(* Variants named Mutant... are plausible slips in the code they stand     *)
(* next to; no specification uses them.                                    *)
MutantMutations(claim, subject, object) ==
    IF object = NoId
    THEN <<Node("create_node", claim)>>
    ELSE <<Node("create_node", claim),
           Event(<<"create_edge", claim>>, "create_edge", subject, object, claim),
           Node("create_entity", subject),
           Node("create_entity", object)>>

Mutations(claim, subject, object) ==
    IF object = NoId
    THEN <<Node("create_node", claim)>>
    ELSE <<Node("create_node", claim),
           Node("create_entity", subject),
           Node("create_entity", object),
           Event(<<"create_edge", claim>>, "create_edge", subject, object, claim)>>

(* Rows other sessions see, in the order of all_mutations.                 *)
VisibleOf(rows) ==
    LET upTo[n \in 0 .. Len(rows)] ==
            IF n = 0 THEN <<>>
            ELSE IF rows[n].done THEN Append(upTo[n - 1], rows[n]) ELSE upTo[n - 1]
    IN  upTo[Len(rows)]
Visible == VisibleOf(log)
EventsOf(rows) == [i \in DOMAIN rows |-> rows[i].event]

AllMutations == EventsOf(Visible)
EventsWith(op) == {e \in ToSet(AllMutations) : e.op = op}

(* Events replay_graph_at_tx applies for the tx_time of the i-th row.      *)
EventsAtTx(i) == EventsOf(VisibleOf(SubSeq(log, 1, i)))

Open(w) == \E row \in ToSet(log) : row.writer = w /\ ~ row.done
Keys(rows) == {row.event.key : row \in ToSet(rows)}

-------------------------------------------------------------------------------

Init ==
    /\ log = <<>>
    /\ program = [w \in Runs |-> <<>>]
    /\ finished = {}
    /\ live = EmptyGraph
    /\ taken = 0 /\ edited = 0 /\ refreshed = 0 /\ faults = 0

Start(w, event) == log' = Append(log, [writer |-> w, event |-> event, done |-> FALSE])

(* A run promotes a claim, resolved as this run resolves it, and logs its  *)
(* first event.                                                            *)
Promote(w) ==
    /\ program[w] = <<>>
    /\ taken < MaxClaims
    /\ taken' = taken + 1
    /\ \E triple \in Triples :
          LET events == Mutations(triple[1], triple[2], triple[3])
          IN /\ program' = [program EXCEPT ![w] = events]
             /\ Start(w, Head(events))
    /\ UNCHANGED <<finished, live, edited, refreshed, faults>>

LogNext(w) ==
    /\ program[w] # <<>>
    /\ ~ Open(w)
    /\ Start(w, Head(program[w]))
    /\ UNCHANGED <<program, finished, live, counters>>

(* A mutant: a conflict gives the old row a new tx_time.                   *)
MutantEndedLater(i) ==
    LET Other(row) == row.event.key # log[i].event.key
    IN log' = Append(SelectSeq(log, Other), [log[i] EXCEPT !.done = TRUE])

(* An INSERT ends: ON CONFLICT drops it when the key is on the log.  The   *)
(* statement that waits for another with its key ends second.              *)
Ended(i) ==
    IF log[i].event.key \in Keys(Visible)
    THEN log' = RemoveAt(log, i)
    ELSE log' = [log EXCEPT ![i].done = TRUE]

(* Its run logs the next event of its claim, or is done with it.           *)
Insert(w) ==
    \E i \in DOMAIN log :
        /\ log[i].writer = w /\ ~ log[i].done
        /\ Ended(i)
        /\ IF w \in Runs
           THEN /\ program' = [program EXCEPT ![w] = Tail(@)]
                /\ finished' = IF Len(program[w]) = 1
                               THEN finished \cup {Head(program[w])}
                               ELSE finished
           ELSE UNCHANGED <<program, finished>>
        /\ UNCHANGED <<live, counters>>

(* A run dies.  The server still ends the statement it had received, or    *)
(* has not seen it.                                                        *)
Die(w) ==
    /\ faults < MaxFaults
    /\ program[w] # <<>>
    /\ faults' = faults + 1
    /\ program' = [program EXCEPT ![w] = <<>>]
    /\ IF Open(w)
       THEN \E i \in DOMAIN log :
               /\ log[i].writer = w /\ ~ log[i].done
               /\ \/ log' = RemoveAt(log, i)
                  \/ log' = [log EXCEPT ![i].writer = Gone]
       ELSE UNCHANGED log
    /\ UNCHANGED <<finished, live, taken, edited, refreshed>>

-------------------------------------------------------------------------------
(* The editor decides on what the log shows, one statement at a time.      *)

Idle == edited < MaxEdits /\ ~ Open(Editor)

Edit(op, subject, object, ref) ==
    /\ op \in Edits
    /\ Start(Editor, Event(<<op, edited + 1>>, op, subject, object, ref))
    /\ edited' = edited + 1
    /\ UNCHANGED <<program, finished, live, taken, refreshed, faults>>

Current == Replay(AllMutations)
Listed == LET now == Current IN {id \in DOMAIN now.nodes : ~ now.nodes[id].deleted}

EditMerge ==
    /\ Idle
    /\ \E pair \in Pairs :
          /\ {pair[1], pair[2]} \subseteq Listed
          /\ Edit("merge_entity", pair[1], pair[2], edited + 1)

EditUnmerge ==
    /\ Idle
    /\ \E x \in ToSet(Current.edges) :
          /\ x.type = "SAME_AS"
          /\ Edit("unmerge", x.from, x.to, x.ref)

EditSupersede ==
    /\ Idle
    /\ \E pair \in Pairs :
          /\ {pair[1], pair[2]} \subseteq Listed
          /\ Edit("supersede", pair[1], pair[2], NoId)

EditDelete == Idle /\ \E id \in Listed : Edit("delete", id, NoId, NoId)

(* The kept graph applies the log again.                                   *)
Refresh ==
    /\ refreshed < MaxRefreshes
    /\ refreshed' = refreshed + 1
    /\ live' = Apply(live, AllMutations)
    /\ UNCHANGED <<log, program, finished, taken, edited, faults>>

(* An exception on the way leaves the events before it applied.            *)
RefreshFails ==
    /\ faults < MaxFaults
    /\ faults' = faults + 1
    /\ \E n \in 1 .. Len(Visible) - 1 : live' = Apply(live, SubSeq(AllMutations, 1, n))
    /\ UNCHANGED <<log, program, finished, taken, edited, refreshed>>

Next ==
    \/ \E w \in Runs : Promote(w) \/ LogNext(w) \/ Die(w)
    \/ \E w \in Writers : Insert(w)
    \/ EditMerge \/ EditUnmerge \/ EditSupersede \/ EditDelete
    \/ Refresh \/ RefreshFails

Spec == Init /\ [][Next]_vars

-------------------------------------------------------------------------------

PairOf(e) == <<e.subject, e.object>>
Ends(x) == <<x.from, x.to>>
Unmerged == {PairOf(e) : e \in EventsWith("unmerge")}

TypeOK ==
    /\ \A row \in ToSet(log) :
          /\ row.writer \in Writers
          /\ row.event.op \in Ops
          /\ row.event.subject \in Ids /\ row.event.object \in Ids \cup {NoId}
    /\ \A w \in Runs : Len(program[w]) <= 4
    /\ DOMAIN live.nodes \subseteq Ids
    /\ live.applied \subseteq Keys(Visible)
    /\ taken <= MaxClaims /\ edited <= MaxEdits
    /\ refreshed <= MaxRefreshes /\ faults <= MaxFaults

(* However runs overlap, die and start over, every relation on the log     *)
(* comes after its two entities, for a replay and for the kept graph: no   *)
(* relation is quarantined (the order of the calls in _run_chain).         *)
NoneQuarantined(now) == live.quarantined = {} /\ now.quarantined = {}

(* A claim logged to the end by any run is a node, and its relation is in  *)
(* the graph exactly once, although another run may have resolved the same *)
(* claim otherwise or died half-way; a deletion may take it out, and so    *)
(* may the unmerge of two nodes it relates in that direction.              *)
FinishedIsWired(now) ==
    LET Wired(e) ==
            LET relations == {x \in ToSet(now.edges) : x.type = e.ref}
            IN IF relations = {}
               THEN \/ \E id \in {e.subject, e.object} : now.nodes[id].deleted
                    \/ PairOf(e) \in Unmerged
               ELSE Cardinality(relations) = 1
    IN \A last \in finished :
          IF last.op = "create_node"
          THEN HasNode(now, last.subject)
          ELSE /\ HasNode(now, last.ref)
               /\ \E e \in ToSet(AllMutations) :
                     e.op = "create_edge" /\ e.ref = last.ref /\ Wired(e)

(* Types, and: relations find their entities, and what a run has logged to *)
(* the end is in the graph, once (the two above).                          *)
ReferencesHold ==
    /\ TypeOK
    /\ LET now == Current IN NoneQuarantined(now) /\ FinishedIsWired(now)

(* The events replay_graph_at_tx applies for a past tx_time never change   *)
(* once no statement of that time is under way, whatever becomes of the    *)
(* rows up to it: the log is append-only.                                  *)
AsOfIsStable ==
    [][\A i \in DOMAIN log :
          (\A j \in 1 .. i : log[j].done) /\ SubSeq(log', 1, i) # SubSeq(log, 1, i)
             => EventsAtTx(i)' = EventsAtTx(i)]_vars

(* Two graphs show the same nodes and relations; edge ids may differ.      *)
Relations(edges) ==
    {[type |-> x.type, from |-> x.from, to |-> x.to, ref |-> x.ref] : x \in ToSet(edges)}
Same(g, h) ==
    /\ g.nodes = h.nodes
    /\ Len(g.edges) = Len(h.edges)
    /\ Relations(g.edges) = Relations(h.edges)

(* Without the relations of claims that an event of the editor takes out   *)
(* or not, depending on when it is applied.                                *)
Settled(g) ==
    LET Lost(x) == \/ g.nodes[x.from].deleted \/ g.nodes[x.to].deleted
                   \/ Ends(x) \in Unmerged
    IN DropEdges(g, {x \in ToSet(g.edges) : x.type \in Claims /\ Lost(x)})

(* Once it has applied every row, the kept graph is the graph of a replay, *)
(* in whatever order rows became visible and wherever an application broke *)
(* off (the applier is idempotent and resumes, 06-graph-service 7.1).      *)
(* A claim's relation between nodes that are deleted or unmerged is not    *)
(* compared: the edit may start before the relation and end after it, and  *)
(* then meets it in the kept graph only.                                   *)
KeptIsReplayed(now) ==
    live.applied = now.applied => Same(Settled(live), Settled(now))

(* A log of pipeline events can be cut anywhere: the graph of its first    *)
(* part, turned into events, plus the rest is the graph of the whole log,  *)
(* edge ids included (apply_incremental).                                  *)
IncrementalIsReplay(now) ==
    LET rows == AllMutations
        Incremental(n) == ApplyIncremental(Replay(SubSeq(rows, 1, n)), SubSeq(rows, n + 1, Len(rows)))
    IN (\A e \in ToSet(rows) : e.op \in {"create_node", "create_edge"}) =>
         \A n \in 0 .. Len(rows) :
            /\ Incremental(n).nodes = now.nodes
            /\ Incremental(n).edges = now.edges

(* The DuckDB copy of a graph, loaded, is that graph.  Taken before an     *)
(* edit and again now, it has the graph's nodes and all its edges, and     *)
(* keeps besides only what an unmerge or a deletion has taken out since    *)
(* (persist_graph, load_graph).                                            *)
StoredIsCurrent(now) ==
    LET rows == AllMutations
        first == PersistGraph(NoCopy, now)
        Again(n) == LoadStored(PersistGraph(PersistGraph(NoCopy, Replay(SubSeq(rows, 1, n))), now))
    IN /\ Same(LoadStored(first), now)
       /\ \A n \in {i \in 0 .. Len(rows) - 1 : rows[i + 1].op \in Edits} :
             LET again == Again(n)
             IN /\ again.nodes = now.nodes
                /\ ToSet(now.edges) \subseteq ToSet(again.edges)
                /\ Len(again.edges) # Len(now.edges) =>
                      \E e \in ToSet(SubSeq(rows, n + 1, Len(rows))) : e.op \in {"unmerge", "delete"}

(* The graph read back from the explorer joins the same nodes, although a  *)
(* relation of another type between two nodes does not survive             *)
(* (load_graph, reconstruct_graph).                                        *)
ExplorerJoinsTheSame(now) ==
    LET back == ReconstructGraph(LoadExplorer(NoExplorer, now))
    IN /\ back.nodes = now.nodes
       /\ \A id \in DOMAIN now.nodes : QueryNeighbors(back, id) = QueryNeighbors(now, id)

(* The kept, the incrementally rebuilt and the copied graph are the        *)
(* replayed one (the four above): how a graph was come by does not show.   *)
GraphsAgree ==
    LET now == Current
    IN /\ KeptIsReplayed(now) /\ IncrementalIsReplay(now)
       /\ StoredIsCurrent(now) /\ ExplorerJoinsTheSame(now)

(* The graph of the log without some of its events.                        *)
Without(events) == Replay(Picked(AllMutations, ToSet(AllMutations) \ events))

(* Into whom the log has merged a node, whether or not the merge stands.   *)
MergedInto(id) == {e.object : e \in {f \in EventsWith("merge_entity") : f.subject = id}}

(* A graph in which merges of some pairs were undone, and the graph of the *)
(* log without these merges: relations of another type that join such a    *)
(* pair in that direction may have gone too, and what marks a node that    *)
(* was merged into several is not compared.                                *)
NoTraceOf(pairs, g, without) ==
    LET Others(h) ==
            DropEdges(h, {x \in ToSet(h.edges) : x.type # "SAME_AS" /\ Ends(x) \in pairs})
        Unmarked(node) == [node EXCEPT !.canonical = NoId, !.merged = FALSE]
        Compared(h) ==
            [h EXCEPT !.nodes = [id \in DOMAIN @ |->
                IF Cardinality(MergedInto(id)) <= 1 THEN @[id] ELSE Unmarked(@[id])]]
    IN /\ Same(Compared(Others(g)), Compared(Others(without)))
       /\ Relations(g.edges) \subseteq Relations(without.edges)

(* A merge and its unmerge leave no trace: the graph is that of the log    *)
(* without the two ("every merge_entity is reversible by its unmerge",     *)
(* 06-graph-service 5.3), as far as NoTraceOf goes.                        *)
UnmergeRestores(now) ==
    LET undone == {e.ref : e \in EventsWith("unmerge")}
        merges == {e \in EventsWith("merge_entity") : e.ref \in undone}
    IN undone # {} => NoTraceOf(Unmerged, now, Without(merges \cup EventsWith("unmerge")))

(* A merge that the audit lists can be rolled back on the graph, with no   *)
(* event: what is left is the graph of the log without that merge          *)
(* (merge_audit, audit_rollback), as far as NoTraceOf goes.                *)
AuditRestores(now) ==
    \A id \in DOMAIN now.nodes : \A x \in ToSet(MergesOf(now, id)) :
       LET merges == {e \in EventsWith("merge_entity") : e.ref = x.ref}
       IN NoTraceOf({Ends(x)}, AuditRollback(now, id, x.ref), Without(merges))

(* While a merge stands, its two nodes are seen as one entity, unless      *)
(* merges go round in a circle; and a node is marked as merged only while  *)
(* a merge of it stands or a deletion has taken it out.  Of a node that    *)
(* was merged into several, the last merge alone is seen.                  *)
MergesAreSeen(now) ==
    LET Settles(id) == ~ now.nodes[CanonicalOf(now, id)].merged
        Deleted(id) == now.nodes[id].deleted
    IN \A id \in DOMAIN now.nodes :
          /\ \A x \in ToSet(MergesOf(now, id)) :
                Settles(x.to) /\ MergedInto(id) = {x.to} =>
                   EquivalenceClass(now, id) = EquivalenceClass(now, x.to)
          /\ now.nodes[id].merged /\ MergesOf(now, id) = <<>> =>
                \E other \in {id} \cup MergedInto(id) : Deleted(other)

(* Merges can be taken back and show while they stand (the three above).   *)
RollbackRestores ==
    LET now == Current
    IN UnmergeRestores(now) /\ AuditRestores(now) /\ MergesAreSeen(now)

===============================================================================
