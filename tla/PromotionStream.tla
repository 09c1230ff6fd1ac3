---------------------------- MODULE PromotionStream ----------------------------
(***************************************************************************)
(* Promotion of raw documents: the S2 topics, the consumer group that      *)
(* reads them in batches with manual offsets, and what promoting a batch   *)
(* commits to the normalized and curated zones.                            *)
(*                                                                         *)
(* Messages are references (source_id, doc_id), here one model value.      *)
(* Each topic has one partition: the group's two topics already let two    *)
(* consumers hold two references to one document.  A consumer's batch runs *)
(* through the phases of run_once; a failing publish ends the process, so  *)
(* it is a crash.                                                          *)
(***************************************************************************)
EXTENDS FiniteSets, Naturals, Sequences

CONSTANTS
    Docs,           \* referenced raw documents
    Invalid,        \* those whose envelope breaks the contract
    Defective,      \* those whose raw row is missing, altered or unparsable
    Consumers,      \* processes of the promotion group
    None,
    PollBatchSize,  \* messages of one batch
    MaxRetries,     \* attempts before the dead letter queue
    FaultKinds,     \* of this instance: duplicate, raise, commit, evict, crash
    MaxFaults       \* bound: faults in a behaviour

VARIABLES
    \* broker: messages of the two topics, committed offsets, group membership,
    \* and, as history, whether a member was ever evicted
    log, committed, position, owner, evicted,
    \* events published on the S3 topic and on the S2 side topics
    completed, quarantined, dlq,
    \* zones: normalized.documents, rows per document of normalized.segments,
    \* and, in the curated tables, claims and the rest
    documents, segments, claims, curated,
    \* each consumer's run_once: phase, batch, references to promote, events
    \* left to publish, tables another process committed since it loaded them
    pc, batch, pending, todo, stale,
    faults

broker == <<log, committed, position, owner, evicted>>
events == <<completed, quarantined, dlq>>
zones == <<documents, segments, claims, curated>>
consumers == <<pc, batch, pending, todo, stale>>
vars == <<broker, events, zones, consumers, faults>>

-------------------------------------------------------------------------------

ASSUME PromotionAssumption ==
    /\ Invalid \subseteq Docs
    /\ Defective \subseteq Docs
    /\ None \notin Consumers
    /\ PollBatchSize \in Nat \ {0}
    /\ MaxRetries \in Nat \ {0}
    /\ MaxFaults \in Nat

Topics == {"primary", "retry"}
Message == [doc : Docs, attempt : Nat]
Offset == Topics \X Nat
Tables == {"documents", "segments"}
Writing == {"documents", "delete", "append", "claims", "curate"}
Pcs == {"poll", "validate", "promote", "complete", "fail", "commit"} \cup Writing

TypeOK ==
    /\ log \in [Topics -> Seq(Message)]
    /\ committed \in [Topics -> Nat]
    /\ position \in [Topics -> Nat]
    /\ owner \in [Topics -> Consumers \cup {None}]
    /\ evicted \in BOOLEAN
    /\ completed \subseteq Docs
    /\ quarantined \subseteq Docs
    /\ dlq \subseteq Docs
    /\ documents \subseteq Docs
    /\ segments \in [Docs -> Nat]
    /\ claims \subseteq Docs
    /\ curated \subseteq Docs
    /\ pc \in [Consumers -> Pcs]
    /\ batch \in [Consumers -> SUBSET Offset]
    /\ pending \in [Consumers -> SUBSET Offset]
    /\ todo \in [Consumers -> SUBSET Offset]
    /\ stale \in [Consumers -> SUBSET Tables]
    /\ faults \in Nat

Init ==
    /\ log = [t \in Topics |-> <<>>]
    /\ committed = [t \in Topics |-> 0]
    /\ position = [t \in Topics |-> 0]
    /\ owner = [t \in Topics |-> None]
    /\ evicted = FALSE
    /\ completed = {}
    /\ quarantined = {}
    /\ dlq = {}
    /\ documents = {}
    /\ segments = [d \in Docs |-> 0]
    /\ claims = {}
    /\ curated = {}
    /\ pc = [c \in Consumers |-> "poll"]
    /\ batch = [c \in Consumers |-> {}]
    /\ pending = [c \in Consumers |-> {}]
    /\ todo = [c \in Consumers |-> {}]
    /\ stale = [c \in Consumers |-> {}]
    /\ faults = 0

-------------------------------------------------------------------------------
(* Messages and batches.  Variants named Mutant... are plausible slips in  *)
(* the code they stand next to; no specification uses them.                *)

MessageAt(item) == log[item[1]][item[2]]
DocAt(item) == MessageAt(item).doc
DocsOf(items) == {DocAt(item) : item \in items}

(* A doc_id whose reference fails the S2 contract.                         *)
IsInvalid(item) == DocAt(item) \in Invalid

Fault(kind) ==
    /\ kind \in FaultKinds
    /\ faults < MaxFaults
    /\ faults' = faults + 1

Released(c) == [t \in Topics |-> IF owner[t] = c THEN None ELSE owner[t]]

(* A commit to a table makes every other loaded copy of it stale.          *)
Committing(table, c) ==
    stale' = [o \in Consumers |->
                IF o = c THEN stale[o] ELSE stale[o] \cup {table}]

-------------------------------------------------------------------------------
(* The broker.                                                             *)

(* The collection outbox publishes a raw_stored event, and may repeat it.  *)
Announce(d) ==
    /\ IF \E i \in DOMAIN log["primary"] : log["primary"][i].doc = d
       THEN Fault("duplicate")
       ELSE UNCHANGED faults
    /\ log' = [log EXCEPT !["primary"] = Append(log["primary"],
                                                [doc |-> d, attempt |-> 0])]
    /\ UNCHANGED <<committed, position, owner, evicted, events, zones, consumers>>

(* A partition goes to a member that polls, from the committed offset on.  *)
Assign(t, c) ==
    /\ owner[t] = None
    /\ pc[c] = "poll"
    /\ owner' = [owner EXCEPT ![t] = c]
    /\ position' = [position EXCEPT ![t] = committed[t]]
    /\ UNCHANGED <<log, committed, evicted, events, zones, consumers, faults>>

(* A member that has not polled for the maximum interval loses its         *)
(* partitions; it does not know until it commits.                          *)
Evict(c) ==
    /\ pc[c] # "poll"
    /\ \E t \in Topics : owner[t] = c
    /\ Fault("evict")
    /\ owner' = Released(c)
    /\ evicted' = TRUE
    /\ UNCHANGED <<log, committed, position, events, zones, consumers>>

-------------------------------------------------------------------------------
(* run_once.                                                               *)

(* _fill_batch: up to PollBatchSize messages of the assigned partitions.   *)
Poll(c) ==
    /\ pc[c] = "poll"
    /\ \E upto \in [Topics -> 0 .. Len(log["primary"]) + Len(log["retry"])] :
        LET items == {item \in Topics \X (1 .. Len(log["primary"]) + Len(log["retry"])) :
                        position[item[1]] < item[2] /\ item[2] <= upto[item[1]]}
        IN  /\ \A t \in Topics :
                IF owner[t] = c THEN upto[t] \in position[t] .. Len(log[t])
                                ELSE upto[t] = position[t]
            /\ items # {}
            /\ Cardinality(items) <= PollBatchSize
            /\ position' = upto
            /\ batch' = [batch EXCEPT ![c] = items]
            /\ todo' = [todo EXCEPT ![c] = {item \in items : IsInvalid(item)}]
            /\ pending' = [pending EXCEPT ![c] =
                             {item \in items : ~IsInvalid(item)}]
    /\ pc' = [pc EXCEPT ![c] = "validate"]
    /\ UNCHANGED <<log, committed, owner, evicted, events, zones, stale, faults>>

QuarantineInvalid(c) ==
    /\ pc[c] = "validate"
    /\ \E item \in todo[c] :
        /\ quarantined' = quarantined \cup {DocAt(item)}
        /\ todo' = [todo EXCEPT ![c] = todo[c] \ {item}]
    /\ UNCHANGED <<broker, completed, dlq, zones, pc, batch, pending, stale, faults>>

Validated(c) ==
    /\ pc[c] = "validate"
    /\ todo[c] = {}
    /\ pc' = [pc EXCEPT ![c] = IF pending[c] = {} THEN "commit" ELSE "promote"]
    /\ UNCHANGED <<broker, events, zones, batch, pending, todo, stale, faults>>

(* PromotionInputError, raised before anything is written: the references  *)
(* to that document are quarantined and the rest is promoted again.        *)
QuarantineDefect(c) ==
    /\ pc[c] = "promote"
    /\ \E d \in DocsOf(pending[c]) \cap Defective :
        LET rest == {item \in pending[c] : DocAt(item) # d} IN
        /\ quarantined' = quarantined \cup {d}
        /\ pending' = [pending EXCEPT ![c] = rest]
        /\ pc' = [pc EXCEPT ![c] = IF rest = {} THEN "commit" ELSE "promote"]
    /\ UNCHANGED <<broker, completed, dlq, zones, batch, todo, stale, faults>>

MutantStartPromotion(c) ==
    /\ pc[c] = "promote"
    /\ pc' = [pc EXCEPT ![c] = "documents"]
    /\ stale' = [stale EXCEPT ![c] = {}]
    /\ UNCHANGED <<broker, events, zones, batch, pending, todo, faults>>

(* Every reference reads and parses: the normalized tables are loaded.     *)
StartPromotion(c) ==
    /\ pc[c] = "promote"
    /\ DocsOf(pending[c]) \cap Defective = {}
    /\ pc' = [pc EXCEPT ![c] = "documents"]
    /\ stale' = [stale EXCEPT ![c] = {}]
    /\ UNCHANGED <<broker, events, zones, batch, pending, todo, faults>>

MutantUpsertDocuments(c) ==
    /\ pc[c] = "documents"
    /\ "documents" \notin stale[c]
    /\ documents' = documents \cup DocsOf(pending[c])
    /\ Committing("documents", c)
    /\ pc' = [pc EXCEPT ![c] = IF DocsOf(pending[c]) \subseteq documents
                              THEN "claims" ELSE "delete"]
    /\ UNCHANGED <<broker, events, segments, claims, curated, batch, pending, todo, faults>>

UpsertDocuments(c) ==
    /\ pc[c] = "documents"
    /\ "documents" \notin stale[c]
    /\ documents' = documents \cup DocsOf(pending[c])
    /\ Committing("documents", c)
    /\ pc' = [pc EXCEPT ![c] = "delete"]
    /\ UNCHANGED <<broker, events, segments, claims, curated, batch, pending, todo, faults>>

MutantDeleteSegments(c) ==
    /\ pc[c] = "delete"
    /\ "segments" \notin stale[c]
    /\ pc' = [pc EXCEPT ![c] = "append"]
    /\ UNCHANGED <<broker, events, zones, stale, batch, pending, todo, faults>>

(* Replace the segments of the batch: one commit deletes those an earlier  *)
(* delivery left, the next appends.                                        *)
DeleteSegments(c) ==
    LET present == {d \in DocsOf(pending[c]) : segments[d] > 0} IN
    /\ pc[c] = "delete"
    /\ "segments" \notin stale[c]
    /\ segments' = [d \in Docs |-> IF d \in present THEN 0 ELSE segments[d]]
    /\ IF present = {} THEN UNCHANGED stale ELSE Committing("segments", c)
    /\ pc' = [pc EXCEPT ![c] = "append"]
    /\ UNCHANGED <<broker, events, documents, claims, curated, batch, pending, todo, faults>>

AppendSegments(c) ==
    /\ pc[c] = "append"
    /\ "segments" \notin stale[c]
    /\ segments' = [d \in Docs |-> IF d \in DocsOf(pending[c])
                                   THEN segments[d] + 1 ELSE segments[d]]
    /\ Committing("segments", c)
    /\ pc' = [pc EXCEPT ![c] = "claims"]
    /\ UNCHANGED <<broker, events, documents, claims, curated, batch, pending, todo, faults>>

(* batched_writes buffers the curated rows, but a table is committed early  *)
(* when the batch reads it, as the reconciliation of claims does.           *)
FlushClaims(c) ==
    /\ pc[c] = "claims"
    /\ claims' = claims \cup DocsOf(pending[c])
    /\ pc' = [pc EXCEPT ![c] = "curate"]
    /\ UNCHANGED <<broker, events, documents, segments, curated, batch, pending,
                   todo, stale, faults>>

CommitCurated(c) ==
    /\ pc[c] = "curate"
    /\ curated' = curated \cup DocsOf(pending[c])
    /\ pc' = [pc EXCEPT ![c] = "complete"]
    /\ todo' = [todo EXCEPT ![c] = pending[c]]
    /\ UNCHANGED <<broker, events, documents, segments, claims, batch, pending,
                   stale, faults>>

PromotionFails(c) ==
    /\ pc' = [pc EXCEPT ![c] = "fail"]
    /\ todo' = [todo EXCEPT ![c] = pending[c]]
    /\ UNCHANGED <<broker, events, zones, batch, pending, stale>>

MutantConflict(c) ==
    /\ \/ pc[c] = "documents" /\ "documents" \in stale[c]
       \/ pc[c] \in {"delete", "append"} /\ "segments" \in stale[c]
    /\ pc' = [pc EXCEPT ![c] = "poll"]
    /\ batch' = [batch EXCEPT ![c] = {}]
    /\ pending' = [pending EXCEPT ![c] = {}]
    /\ todo' = [todo EXCEPT ![c] = {}]
    /\ stale' = [stale EXCEPT ![c] = {}]
    /\ UNCHANGED <<broker, events, zones, faults>>

(* The catalog refuses a commit to a table that changed since it was       *)
(* loaded.                                                                 *)
Conflict(c) ==
    /\ \/ pc[c] = "documents" /\ "documents" \in stale[c]
       \/ pc[c] \in {"delete", "append"} /\ "segments" \in stale[c]
    /\ PromotionFails(c)
    /\ UNCHANGED faults

(* Any other exception inside promote_raw_refs.                            *)
PromotionRaises(c) ==
    /\ pc[c] \in {"promote"} \cup Writing
    /\ Fault("raise")
    /\ PromotionFails(c)

PublishCompletion(c) ==
    /\ pc[c] = "complete"
    /\ \E item \in todo[c] :
        /\ completed' = completed \cup {DocAt(item)}
        /\ todo' = [todo EXCEPT ![c] = todo[c] \ {item}]
    /\ UNCHANGED <<broker, quarantined, dlq, zones, pc, batch, pending, stale, faults>>

(* The attempt is counted before the route is chosen.                      *)
RoutedToRetry(message) == message.attempt + 1 < MaxRetries

(* Every pending reference, whichever one raised, goes to the retry topic  *)
(* or, its attempts used up, to the dead letter queue.                     *)
PublishFailure(c) ==
    /\ pc[c] = "fail"
    /\ \E item \in todo[c] :
        LET m == MessageAt(item) IN
        /\ IF RoutedToRetry(m)
           THEN /\ log' = [log EXCEPT !["retry"] = Append(log["retry"],
                             [doc |-> m.doc, attempt |-> m.attempt + 1])]
                /\ UNCHANGED dlq
           ELSE /\ dlq' = dlq \cup {m.doc}
                /\ UNCHANGED log
        /\ todo' = [todo EXCEPT ![c] = todo[c] \ {item}]
    /\ UNCHANGED <<committed, position, owner, evicted, completed, quarantined, zones,
                   pc, batch, pending, stale, faults>>

MutantPublished(c) ==
    /\ pc[c] \in {"complete", "fail"}
    /\ pc' = [pc EXCEPT ![c] = "commit"]
    /\ todo' = [todo EXCEPT ![c] = {}]
    /\ UNCHANGED <<broker, events, zones, batch, pending, stale, faults>>

Published(c) ==
    /\ pc[c] \in {"complete", "fail"}
    /\ todo[c] = {}
    /\ pc' = [pc EXCEPT ![c] = "commit"]
    /\ UNCHANGED <<broker, events, zones, batch, pending, todo, stale, faults>>

BatchOver(c) ==
    /\ pc' = [pc EXCEPT ![c] = "poll"]
    /\ batch' = [batch EXCEPT ![c] = {}]
    /\ pending' = [pending EXCEPT ![c] = {}]
    /\ todo' = [todo EXCEPT ![c] = {}]
    /\ stale' = [stale EXCEPT ![c] = {}]

NextToCommit(c) ==
    {item \in batch[c] : \A other \in batch[c] :
        other[1] = item[1] => item[2] <= other[2]}

(* Offsets are committed message by message.                               *)
CommitOffset(c) ==
    /\ pc[c] = "commit"
    /\ \E item \in NextToCommit(c) :
        /\ owner[item[1]] = c
        /\ committed' = [committed EXCEPT ![item[1]] = item[2]]
        /\ IF batch[c] = {item}
           THEN BatchOver(c)
           ELSE /\ batch' = [batch EXCEPT ![c] = batch[c] \ {item}]
                /\ UNCHANGED <<pc, pending, todo, stale>>
    /\ UNCHANGED <<log, position, owner, evicted, events, zones, faults>>

(* The commit of an evicted member is refused, or the broker cannot be     *)
(* reached: the rest of the batch is left uncommitted.                     *)
CommitFails(c) ==
    /\ pc[c] = "commit"
    /\ \/ /\ \E item \in NextToCommit(c) : owner[item[1]] # c
          /\ UNCHANGED faults
       \/ Fault("commit")
    /\ BatchOver(c)
    /\ UNCHANGED <<broker, events, zones>>

(* The process ends, by an exception that leaves run_once or otherwise.    *)
Crash(c) ==
    /\ Fault("crash")
    /\ BatchOver(c)
    /\ owner' = Released(c)
    /\ UNCHANGED <<log, committed, position, evicted, events, zones>>

-------------------------------------------------------------------------------

RunOnce(c) ==
    \/ Poll(c) \/ QuarantineInvalid(c) \/ Validated(c) \/ QuarantineDefect(c)
    \/ StartPromotion(c) \/ UpsertDocuments(c) \/ DeleteSegments(c)
    \/ AppendSegments(c) \/ FlushClaims(c) \/ CommitCurated(c) \/ Conflict(c)
    \/ PublishCompletion(c) \/ PublishFailure(c) \/ Published(c)
    \/ CommitOffset(c) \/ CommitFails(c)

Next ==
    \/ \E d \in Docs : Announce(d)
    \/ \E c \in Consumers :
        \/ RunOnce(c) \/ PromotionRaises(c) \/ Evict(c) \/ Crash(c)
        \/ \E t \in Topics : Assign(t, c)

Spec == Init /\ [][Next]_vars

(* Consumers are restarted and poll for ever, a batch under way proceeds,  *)
(* and the group coordinator gives every partition a member.               *)
Fairness ==
    /\ \A c \in Consumers : WF_vars(RunOnce(c))
    /\ \A t \in Topics : WF_vars(\E c \in Consumers : Assign(t, c))

LiveSpec == Spec /\ Fairness

-------------------------------------------------------------------------------
(* Properties.                                                             *)

Settled(m) ==
    \/ m.doc \in completed \cup quarantined \cup dlq
    \/ \E i \in DOMAIN log["retry"] :
        log["retry"][i] = [doc |-> m.doc, attempt |-> m.attempt + 1]

(* Types, and: an offset is committed only once its reference is promoted  *)
(* and announced, or handed to the retry, dead letter or quarantine topic: *)
(* no crash or eviction loses a reference.                                 *)
CommittedIsSettled ==
    /\ TypeOK
    /\ \A t \in Topics : \A i \in 1 .. committed[t] : Settled(log[t][i])

(* What is quarantined is bad input, and bad input never enters a zone.    *)
QuarantineStaysOut ==
    /\ quarantined \subseteq Invalid \cup Defective
    /\ \A d \in Invalid \cup Defective :
        d \notin documents \cup claims \cup completed /\ segments[d] = 0

(* Redelivery, and two consumers at work on one document, never write a    *)
(* document's segments twice.                                              *)
NoDuplicateSegments == \A d \in Docs : segments[d] <= 1

Uncommitted(d) ==
    \E t \in Topics : \E i \in DOMAIN log[t] : i > committed[t] /\ log[t][i].doc = d

BeingReplaced(d) == \E c \in Consumers : pc[c] = "append" /\ d \in DocsOf(pending[c])

IsWhole(d) ==
    /\ d \in documents \cap claims \cap curated
    /\ segments[d] = 1 \/ BeingReplaced(d) \/ Uncommitted(d) \/ d \in dlq

(* As long as no member is evicted, a document announced as promoted is    *)
(* whole in both zones.  A redelivery (persist_many) takes its segments    *)
(* away for a moment; they stay away only while the reference is still to  *)
(* be processed again, or given up.                                        *)
CompletedIsWhole == ~evicted => \A d \in completed : IsWhole(d)

(* What the architecture document says of redelivery: that it repairs      *)
(* partial commits, whoever made them.  An evicted member makes one after  *)
(* the last redelivery.                                                    *)
RedeliveryRepairs == \A d \in completed : IsWhole(d)

(* Every announced reference ends promoted, quarantined or in the dead     *)
(* letter queue: from some time on (documents, repeats and retries are     *)
(* finitely many) each message in the two topics has.                      *)
ReferencesAreSettled ==
    <>[](\A t \in Topics : \A i \in DOMAIN log[t] :
            log[t][i].doc \in completed \cup quarantined \cup dlq)
===============================================================================
