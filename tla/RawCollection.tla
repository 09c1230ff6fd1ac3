----------------------------- MODULE RawCollection -----------------------------
(***************************************************************************)
(* Collection of one source into the raw zone: the collectors, the raw     *)
(* stores they buffer into (local Parquet shards, or MinIO objects) and    *)
(* the SQLite outbox that publishes the S1 and S2 events of each raw row.  *)
(*                                                                         *)
(* A collector process runs: list the stored URLs, reconcile the outbox    *)
(* with the raw zone and drain it, visit the feed, flush, reconcile and    *)
(* drain again.  Several processes share the raw directory and the outbox  *)
(* (the resident scheduler, an operator's collection run, a bulk run) and  *)
(* nothing locks either.  A document is one URL with its content, so its   *)
(* URL and its content hash identify it alike.                             *)
(***************************************************************************)
EXTENDS FiniteSets, Naturals

CONSTANTS
    Docs,           \* documents the source's feed may list
    Procs,          \* processes that collect the source
    Deployments,    \* ways collection is set up (see Deployment below)
    ShardSize,      \* rows buffered before a shard is written
    None,
    FaultKinds      \* the faults of this instance: write, publish, escape, crash

VARIABLES
    deployment,     \* the one of this behaviour; never changes
    shards,         \* committed shard rows of each document
    \* raw_events table of the outbox
    recorded, s1_acked, s2_acked, delivered,
    \* primary topics of the event stream
    s1_published, s2_published,
    capped,         \* the result cap event, on the S1 topic too
    \* store object of each process: rows not yet written, the doc_id index
    buffer, indexed, known,
    \* the run in progress: where it stands, the URLs it skips, what it saved
    pc, phase, known_urls, saved,
    \* the drain in progress: rows selected, their flags then, the row at hand
    batch, s1_due, s2_due, row,
    faults

raw_events == <<recorded, s1_acked, s2_acked, delivered>>
topics == <<s1_published, s2_published, capped>>
store == <<buffer, indexed, known>>
run == <<pc, phase, known_urls, saved>>
drain == <<batch, s1_due, s2_due, row>>
vars == <<deployment, shards, raw_events, topics, store, run, drain, faults>>

-------------------------------------------------------------------------------

(* What the feed lists, the processes that run and those of them whose     *)
(* store object outlives a run, whether MinIO holds the raw zone, what     *)
(* kind of collector the source has (a "feed" collector does not catch a   *)
(* write that fails, a "list" collector does, and so does a "paged" one,   *)
(* which may meet a result cap), the rows one drain selects, and a bound   *)
(* on the faults of a behaviour.                                           *)
Deployment ==
    [docs : SUBSET Docs, procs : SUBSET Procs, resident : SUBSET Procs,
     minio : BOOLEAN, kind : {"feed", "list", "paged"},
     batch : Nat \ {0}, faults : Nat]

ASSUME CollectionAssumption ==
    /\ Deployments \subseteq Deployment
    /\ ShardSize \in Nat \ {0}
    /\ None \notin Docs

Pcs == {"idle", "reconcile", "select", "next_row", "s1", "s1_ack", "s2",
        "s2_ack", "deliver", "collect", "flush"}

TypeOK ==
    /\ deployment \in Deployment
    /\ capped \in BOOLEAN
    /\ shards \in [Docs -> Nat]
    /\ recorded \subseteq Docs
    /\ s1_acked \subseteq Docs
    /\ s2_acked \subseteq Docs
    /\ delivered \subseteq Docs
    /\ s1_published \subseteq Docs
    /\ s2_published \subseteq Docs
    /\ buffer \in [Procs -> SUBSET Docs]
    /\ indexed \in [Procs -> BOOLEAN]
    /\ known \in [Procs -> SUBSET Docs]
    /\ pc \in [Procs -> Pcs]
    /\ phase \in [Procs -> {"opening", "closing"}]
    /\ known_urls \in [Procs -> SUBSET Docs]
    /\ saved \in [Procs -> SUBSET Docs]
    /\ batch \in [Procs -> SUBSET Docs]
    /\ s1_due \in [Procs -> SUBSET Docs]
    /\ s2_due \in [Procs -> SUBSET Docs]
    /\ row \in [Procs -> Docs \cup {None}]
    /\ faults \in Nat

(* An empty raw zone, outbox and topics, or shards collected before the    *)
(* event outbox existed, which the first reconcile picks up.               *)
Init ==
    /\ deployment \in Deployments
    /\ shards \in [Docs -> {0, 1}]
    /\ \A d \in Docs \ deployment.docs : shards[d] = 0
    /\ capped = FALSE
    /\ recorded = {}
    /\ s1_acked = {}
    /\ s2_acked = {}
    /\ delivered = {}
    /\ s1_published = {}
    /\ s2_published = {}
    /\ buffer = [p \in Procs |-> {}]
    /\ indexed = [p \in Procs |-> FALSE]
    /\ known = [p \in Procs |-> {}]
    /\ pc = [p \in Procs |-> "idle"]
    /\ phase = [p \in Procs |-> "opening"]
    /\ known_urls = [p \in Procs |-> {}]
    /\ saved = [p \in Procs |-> {}]
    /\ batch = [p \in Procs |-> {}]
    /\ s1_due = [p \in Procs |-> {}]
    /\ s2_due = [p \in Procs |-> {}]
    /\ row = [p \in Procs |-> None]
    /\ faults = 0

-------------------------------------------------------------------------------
(* Reading and writing the raw zone.  Variants named Mutant... are         *)
(* plausible slips in the code they stand next to; no specification uses   *)
(* them.                                                                   *)

Durable == {d \in Docs : shards[d] > 0}

(* iter_records: committed rows, then the rows of this store's buffer.     *)
Records(p) == Durable \cup buffer[p]

(* Rows of one new shard; a shard is never rewritten.                      *)
WithShard(written) ==
    [d \in Docs |-> IF d \in written THEN shards[d] + 1 ELSE shards[d]]

MutantBufferAfterFailedWrite(rows) == {}

(* The local store pops the buffer before it writes, the MinIO store drops *)
(* it once the object is put.                                              *)
BufferAfterFailedWrite(rows) == IF deployment.minio THEN rows ELSE {}

(* doc_ids held when the index is first needed, cached from then on.       *)
IndexOnce(p) == IF indexed[p] THEN known[p] ELSE Durable

Fault(kind) ==
    /\ kind \in FaultKinds
    /\ faults < deployment.faults
    /\ faults' = faults + 1

(* The collector returns or raises, and its local variables are gone.  So  *)
(* is the store object of a one-shot process; a resident process keeps it, *)
(* here with the given buffer and index.                                   *)
RunEnds(p, rows, ids, index) ==
    /\ pc' = [pc EXCEPT ![p] = "idle"]
    /\ phase' = [phase EXCEPT ![p] = "opening"]
    /\ batch' = [batch EXCEPT ![p] = {}]
    /\ row' = [row EXCEPT ![p] = None]
    /\ buffer' = [buffer EXCEPT ![p] = IF p \in deployment.resident THEN rows ELSE {}]
    /\ known' = [known EXCEPT ![p] = IF p \in deployment.resident THEN ids ELSE {}]
    /\ indexed' = [indexed EXCEPT ![p] = p \in deployment.resident /\ index]
    /\ known_urls' = [known_urls EXCEPT ![p] = {}]
    /\ saved' = [saved EXCEPT ![p] = {}]
    /\ s1_due' = [s1_due EXCEPT ![p] = {}]
    /\ s2_due' = [s2_due EXCEPT ![p] = {}]

RunStops(p) == RunEnds(p, buffer[p], known[p], indexed[p])

-------------------------------------------------------------------------------
(* The collector.                                                          *)

(* _stored_urls, then the collector is called.  A run on MinIO is given no *)
(* URLs to skip.                                                           *)
Begin(p) ==
    /\ pc[p] = "idle"
    /\ pc' = [pc EXCEPT ![p] = "reconcile"]
    /\ known_urls' = [known_urls EXCEPT ![p] = IF deployment.minio THEN {} ELSE Records(p)]
    /\ UNCHANGED <<shards, raw_events, topics, store, phase, saved, drain, faults>>

(* A document the run neither skips nor fails to fetch is handed to        *)
(* append.  One whose id is indexed is left alone (created=False).         *)
AppendKnown(p, d) ==
    /\ pc[p] = "collect"
    /\ d \notin known_urls[p]
    /\ d \in IndexOnce(p)
    /\ known' = [known EXCEPT ![p] = IndexOnce(p)]
    /\ indexed' = [indexed EXCEPT ![p] = TRUE]
    /\ UNCHANGED <<shards, raw_events, topics, buffer, run, drain, faults>>

(* A new one is buffered and indexed, and a full buffer becomes a shard.   *)
AppendNew(p, d) ==
    LET rows == buffer[p] \cup {d}
        full == Cardinality(rows) >= ShardSize
    IN  /\ pc[p] = "collect"
        /\ d \notin known_urls[p]
        /\ d \notin IndexOnce(p)
        /\ known' = [known EXCEPT ![p] = IndexOnce(p) \cup {d}]
        /\ indexed' = [indexed EXCEPT ![p] = TRUE]
        /\ buffer' = [buffer EXCEPT ![p] = IF full THEN {} ELSE rows]
        /\ shards' = IF full THEN WithShard(rows) ELSE shards
        /\ saved' = [saved EXCEPT ![p] = saved[p] \cup {d}]
        /\ UNCHANGED <<raw_events, topics, pc, phase, known_urls, drain, faults>>

(* The row of a full buffer that cannot be written as a shard.             *)
WriteFails(p, d) ==
    /\ pc[p] = "collect"
    /\ d \notin known_urls[p]
    /\ d \notin IndexOnce(p)
    /\ Cardinality(buffer[p] \cup {d}) >= ShardSize
    /\ Fault("write")
    /\ UNCHANGED <<shards, raw_events, topics>>

(* The URL list, index stream, archive and paged collectors count an error *)
(* and go on.                                                              *)
AppendFails(p, d) ==
    /\ deployment.kind # "feed"
    /\ WriteFails(p, d)
    /\ known' = [known EXCEPT ![p] = IndexOnce(p) \cup {d}]
    /\ indexed' = [indexed EXCEPT ![p] = TRUE]
    /\ buffer' = [buffer EXCEPT ![p] = BufferAfterFailedWrite(buffer[p] \cup {d})]
    /\ UNCHANGED <<run, drain>>

(* The RSS, sitemap, arXiv and SEC collectors do not catch it.             *)
AppendRaises(p, d) ==
    /\ deployment.kind = "feed"
    /\ WriteFails(p, d)
    /\ RunEnds(p, BufferAfterFailedWrite(buffer[p] \cup {d}),
               IndexOnce(p) \cup {d}, TRUE)

MutantFeedEnds(p) ==
    /\ pc[p] = "collect"
    /\ pc' = [pc EXCEPT ![p] = "reconcile"]
    /\ phase' = [phase EXCEPT ![p] = "closing"]
    /\ UNCHANGED <<shards, raw_events, topics, store, known_urls, saved, drain,
                   faults>>

(* Nothing is left to visit: the rest was skipped or could not be fetched. *)
FeedEnds(p) ==
    /\ pc[p] = "collect"
    /\ pc' = [pc EXCEPT ![p] = "flush"]
    /\ phase' = [phase EXCEPT ![p] = "closing"]
    /\ UNCHANGED <<shards, raw_events, topics, store, known_urls, saved, drain,
                   faults>>

(* Discovery, parsing or bookkeeping raises in the middle of a feed.       *)
FeedRaises(p) ==
    /\ pc[p] = "collect"
    /\ Fault("escape")
    /\ RunStops(p)
    /\ UNCHANGED <<shards, raw_events, topics>>

Flush(p) ==
    /\ pc[p] = "flush"
    /\ shards' = WithShard(buffer[p])
    /\ buffer' = [buffer EXCEPT ![p] = {}]
    /\ pc' = [pc EXCEPT ![p] = "reconcile"]
    /\ UNCHANGED <<raw_events, topics, indexed, known, phase, known_urls, saved,
                   drain, faults>>

FlushFails(p) ==
    /\ pc[p] = "flush"
    /\ buffer[p] # {}
    /\ Fault("write")
    /\ RunEnds(p, BufferAfterFailedWrite(buffer[p]), known[p], indexed[p])
    /\ UNCHANGED <<shards, raw_events, topics>>

-------------------------------------------------------------------------------
(* The outbox.                                                             *)

(* Insert the rows the outbox does not know (INSERT OR IGNORE).            *)
Reconcile(p) ==
    /\ pc[p] = "reconcile"
    /\ recorded' = recorded \cup Records(p)
    /\ pc' = [pc EXCEPT ![p] = "select"]
    /\ UNCHANGED <<shards, s1_acked, s2_acked, delivered, topics, store, phase,
                   known_urls, saved, drain, faults>>

MutantPending == recorded \ s1_acked

Pending == recorded \ delivered

Selections ==
    {rows \in SUBSET Pending :
        \/ Cardinality(rows) = deployment.batch
        \/ rows = Pending /\ Cardinality(rows) < deployment.batch}

(* drain selects undelivered rows with the flags they have now.            *)
Select(p) ==
    /\ pc[p] = "select"
    /\ Pending # {}
    /\ \E rows \in Selections :
        /\ batch' = [batch EXCEPT ![p] = rows]
        /\ s1_due' = [s1_due EXCEPT ![p] = rows \ s1_acked]
        /\ s2_due' = [s2_due EXCEPT ![p] = rows \ s2_acked]
    /\ pc' = [pc EXCEPT ![p] = "next_row"]
    /\ UNCHANGED <<shards, raw_events, topics, store, phase, known_urls, saved,
                   row, faults>>

(* A drain that delivers nothing ends the loop: the feed is visited next.  *)
OpeningDone(p) ==
    /\ pc[p] = "select"
    /\ Pending = {}
    /\ phase[p] = "opening"
    /\ pc' = [pc EXCEPT ![p] = "collect"]
    /\ UNCHANGED <<shards, raw_events, topics, store, phase, known_urls, saved,
                   drain, faults>>

MutantFinish(p) ==
    /\ pc[p] = "select"
    /\ phase[p] = "closing"
    /\ RunStops(p)
    /\ UNCHANGED <<shards, raw_events, topics, faults>>

(* The run is over and its counts are returned.                            *)
Finish(p) ==
    /\ pc[p] = "select"
    /\ Pending = {}
    /\ phase[p] = "closing"
    /\ RunStops(p)
    /\ UNCHANGED <<shards, raw_events, topics, faults>>

(* A paged source that met its result cap has flushed and drained as well: *)
(* it publishes the cap, or fails to, and raises instead of returning.     *)
CapReached(p) ==
    /\ deployment.kind = "paged"
    /\ pc[p] = "select"
    /\ Pending = {}
    /\ phase[p] = "closing"
    /\ capped' \in {TRUE, capped}
    /\ RunStops(p)
    /\ UNCHANGED <<shards, raw_events, s1_published, s2_published, faults>>

NextRow(p) ==
    /\ pc[p] = "next_row"
    /\ \E d \in batch[p] :
        /\ row' = [row EXCEPT ![p] = d]
        /\ batch' = [batch EXCEPT ![p] = batch[p] \ {d}]
        /\ pc' = [pc EXCEPT ![p] = IF d \in s1_due[p] THEN "s1"
                                   ELSE IF d \in s2_due[p] THEN "s2"
                                   ELSE "deliver"]
    /\ UNCHANGED <<shards, raw_events, topics, store, phase, known_urls, saved,
                   s1_due, s2_due, faults>>

BatchDone(p) ==
    /\ pc[p] = "next_row"
    /\ batch[p] = {}
    /\ pc' = [pc EXCEPT ![p] = "select"]
    /\ s1_due' = [s1_due EXCEPT ![p] = {}]
    /\ s2_due' = [s2_due EXCEPT ![p] = {}]
    /\ UNCHANGED <<shards, raw_events, topics, store, phase, known_urls, saved,
                   batch, row, faults>>

(* publish returns once every in-sync replica has acknowledged.            *)
PublishS1(p) ==
    /\ pc[p] = "s1"
    /\ s1_published' = s1_published \cup {row[p]}
    /\ pc' = [pc EXCEPT ![p] = "s1_ack"]
    /\ UNCHANGED <<shards, raw_events, s2_published, capped, store, phase,
                   known_urls, saved, drain, faults>>

AckS1(p) ==
    /\ pc[p] = "s1_ack"
    /\ s1_acked' = s1_acked \cup {row[p]}
    /\ pc' = [pc EXCEPT ![p] = IF row[p] \in s2_due[p] THEN "s2" ELSE "deliver"]
    /\ UNCHANGED <<shards, recorded, s2_acked, delivered, topics, store, phase,
                   known_urls, saved, drain, faults>>

PublishS2(p) ==
    /\ pc[p] = "s2"
    /\ s2_published' = s2_published \cup {row[p]}
    /\ pc' = [pc EXCEPT ![p] = "s2_ack"]
    /\ UNCHANGED <<shards, raw_events, s1_published, capped, store, phase,
                   known_urls, saved, drain, faults>>

AckS2(p) ==
    /\ pc[p] = "s2_ack"
    /\ s2_acked' = s2_acked \cup {row[p]}
    /\ pc' = [pc EXCEPT ![p] = "deliver"]
    /\ UNCHANGED <<shards, recorded, s1_acked, delivered, topics, store, phase,
                   known_urls, saved, drain, faults>>

(* delivered_at is set on a row whose two flags are set.                   *)
Deliver(p) ==
    /\ pc[p] = "deliver"
    /\ delivered' = delivered \cup ({row[p]} \cap s1_acked \cap s2_acked)
    /\ pc' = [pc EXCEPT ![p] = "next_row"]
    /\ row' = [row EXCEPT ![p] = None]
    /\ UNCHANGED <<shards, recorded, s1_acked, s2_acked, topics, store, phase,
                   known_urls, saved, batch, s1_due, s2_due, faults>>

MutantPublishFails(p) ==
    /\ pc[p] \in {"s1", "s2"}
    /\ Fault("publish")
    /\ pc' = [pc EXCEPT ![p] = IF pc[p] = "s1" THEN "s1_ack" ELSE "s2_ack"]
    /\ UNCHANGED <<shards, raw_events, topics, store, phase, known_urls, saved,
                   drain>>

(* publish raises.  The broker may hold the event all the same (a late     *)
(* acknowledgement); the flag stays unset and the exception leaves the     *)
(* collector.                                                              *)
PublishFails(p) ==
    /\ pc[p] \in {"s1", "s2"}
    /\ Fault("publish")
    /\ \/ UNCHANGED topics
       \/ /\ pc[p] = "s1"
          /\ s1_published' = s1_published \cup {row[p]}
          /\ UNCHANGED <<s2_published, capped>>
       \/ /\ pc[p] = "s2"
          /\ s2_published' = s2_published \cup {row[p]}
          /\ UNCHANGED <<s1_published, capped>>
    /\ RunStops(p)
    /\ UNCHANGED <<shards, raw_events>>

(* The process dies: its memory is lost, and a reconcile it was in the     *)
(* middle of has committed some of its batches.                            *)
Crash(p) ==
    /\ Fault("crash")
    /\ \/ /\ pc[p] = "reconcile"
          /\ \E part \in SUBSET Records(p) : recorded' = recorded \cup part
       \/ UNCHANGED recorded
    /\ pc' = [pc EXCEPT ![p] = "idle"]
    /\ phase' = [phase EXCEPT ![p] = "opening"]
    /\ buffer' = [buffer EXCEPT ![p] = {}]
    /\ known' = [known EXCEPT ![p] = {}]
    /\ indexed' = [indexed EXCEPT ![p] = FALSE]
    /\ known_urls' = [known_urls EXCEPT ![p] = {}]
    /\ saved' = [saved EXCEPT ![p] = {}]
    /\ batch' = [batch EXCEPT ![p] = {}]
    /\ s1_due' = [s1_due EXCEPT ![p] = {}]
    /\ s2_due' = [s2_due EXCEPT ![p] = {}]
    /\ row' = [row EXCEPT ![p] = None]
    /\ UNCHANGED <<shards, s1_acked, s2_acked, delivered, topics>>

-------------------------------------------------------------------------------

Collect(p) ==
    \/ FeedEnds(p) \/ Flush(p)
    \/ \E d \in deployment.docs : AppendKnown(p, d) \/ AppendNew(p, d)

Publish(p) ==
    \/ Reconcile(p) \/ Select(p) \/ OpeningDone(p) \/ Finish(p) \/ CapReached(p)
    \/ NextRow(p) \/ BatchDone(p)
    \/ PublishS1(p) \/ AckS1(p) \/ PublishS2(p) \/ AckS2(p) \/ Deliver(p)

Faulty(p) ==
    \/ FeedRaises(p) \/ FlushFails(p) \/ PublishFails(p) \/ Crash(p)
    \/ \E d \in deployment.docs : AppendFails(p, d) \/ AppendRaises(p, d)

Step(p, action) == p \in deployment.procs /\ action /\ UNCHANGED deployment

Next == \E p \in Procs :
    Step(p, Begin(p) \/ Collect(p) \/ Publish(p) \/ Faulty(p))

Spec == Init /\ [][Next]_vars

(* The scheduler starts a run every night and a run that is not interrupted *)
(* proceeds to its end.                                                    *)
Fairness ==
    \A p \in Procs :
        /\ WF_vars(Step(p, Begin(p) \/ Publish(p)))
        /\ WF_vars(Step(p, FeedEnds(p) \/ Flush(p)))

LiveSpec == Spec /\ Fairness

-------------------------------------------------------------------------------
(* Properties.                                                             *)

(* Types, and: the outbox claims no more than the broker acknowledged, and *)
(* the events of a row are published in order, S2 only once S1 is on       *)
(* record.                                                                 *)
FlagsAreHonest ==
    /\ TypeOK
    /\ s1_acked \subseteq s1_published
    /\ s2_acked \subseteq s2_published
    /\ s2_published \subseteq s1_acked
    /\ delivered \subseteq s1_acked \cap s2_acked

(* append answers "already collected" only for a document that a shard or  *)
(* this store's own buffer holds; otherwise the document is never stored   *)
(* for as long as the process lives.  The MinIO store keeps to this; the   *)
(* local one does not when a shard cannot be written.                      *)
KnownIsStored ==
    deployment.minio => \A p \in Procs : known[p] \subseteq Records(p)

(* A MinIO run that ends, normally or at its result cap, has made every    *)
(* document it counted as saved durable and has published both events.     *)
FinishedRunIsPublished ==
    [][\A p \in Procs : deployment.minio /\ (Finish(p) \/ CapReached(p))
         => saved[p] \subseteq Durable \cap s2_published]_vars

(* Every durable row is published in the end, by this run or by one that   *)
(* comes after it, whatever interrupted the first.                         *)
DurableIsDelivered == \A d \in Docs : (shards[d] > 0) ~> (d \in delivered)

(* Collection implements the feed the consumers rely on: an S1 or S2 event *)
(* names a row that can be read back, published after the row became       *)
(* durable, whatever failed or crashed since.  A store object that         *)
(* outlives a failed run may still buffer the row: only the order is       *)
(* promised then.                                                          *)
Feed == INSTANCE RawFeed WITH
    stored <- IF deployment.resident = {} THEN Durable ELSE Docs,
    fetched <- s1_published,
    announced <- s2_published

ImplementsFeed == Feed!FeedSpec
===============================================================================
