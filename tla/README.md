# OrcCitadel in TLA+

TLA+ specifications of the OrcCitadel backend (`src/prototype/orc_citadel`,
`src/prototype/scripts`), TLC runs that model-check them on small instances, and TLAPS
proofs of most of their safety properties, and of two refinements, for every instance.

Every definition follows the Python source; where a document says something else, the
specification keeps to the code and the disagreement is listed [below](#where-code-and-documents-disagree).
`PROJECT.json` ties every definition to the source lines it stands for.

    tlasany InvestigationQueue.tla                                     # parse
    tlc -workers 2 -config raw_collection.cfg MCRawCollection.tla      # one run
    tlapm InvestigationQueueProofs.tla                                 # proofs

Contents: [the system](#the-system) · [modules](#modules) · [runs](#runs) ·
[proofs](#proofs) · [disagreements](#where-code-and-documents-disagree) ·
[limits](#what-is-not-covered) · [plan](#plan)

---

## The system

OrcCitadel collects documents, promotes them through three zones into a knowledge graph,
and answers research questions over that graph.

    feeds --> collectors --> raw zone --> outbox --S1,S2--> promotion group --> normalized
                 ^            (shards)    (SQLite)           (Kafka)            and curated
                 |                                                              (Iceberg)
    viewer --> collection control                               reviewers ------>  |  |
      |                                    golden pairs, promotion of versions <---+  |
      +--> investigation queue --> worker --> report, HTML artifact  <---- reads -----+
      |    (PostgreSQL)            (LLM)                                              |
      +--- reads: jobs, reports, listings         graph_mutations log  <--------------+
                                                  --> GraphService replay --> copies

### Components

Status: **M** modelled, **P** partly, **–** not modelled. The components and all their
source files are in `PROJECT.json`.

| | Component | State it keeps | Operations | What is hard | What makes it correct |
|---|---|---|---|---|---|
| M | **Investigation queue** – `investigation_store.py`, `investigation_job.py`, `report_regeneration.py`, `scripts/investigation_worker.py` | PostgreSQL tables `investigations`, `jobs`, `steps`, `report_artifacts`; a worker's stage | `create`, `cancel`, `claim_next`, `renew_lease`, `record_step`, `complete_with_report_artifact`, `fail`, `mark_cancelled`, `attach_report_artifact` | several workers, leases that expire under a live worker, crashes, cancels that race results, releases with different default profiles | one outcome per job, decided by the claim holder; a cancel in time always wins; report, step, artifact and profile appear together; every job ends |
| M | **Raw collection** – `collect_large.py`, `raw_shard.py`, `minio_raw_store.py`, `collection_outbox.py` | shards or objects, in-memory buffer and doc_id index, SQLite `raw_events` | nine collectors over one frame; `append`, `flush`, `iter_records`; `reconcile`, `drain` | processes share directory and outbox without a lock; failing writes, late acknowledgements, crashes between two flags | events only name durable rows, in stage order; nothing durable stays unannounced; nothing indexed is lost |
| M | **Promotion consumer group** – `promotion_consumer.py`, `incremental_promote.py`, `iceberg_zone.py`, `curated_zone.py`, `event_stream.py` | offsets, zone tables | `run_once`: poll, validate, promote, announce, commit; retries, dead letter queue, quarantine | redelivery, eviction of a slow member, optimistic commits, partial promotion | no reference is lost; what is announced is whole; nothing is stored twice |
| M | **Collection control** – `collection_control.py`, `scripts/collection_runner.py` | state file, shared temporary file, runner processes | `trigger`, `_write_status`, `main` of the runner | threads and processes write one file; restart, kill, failing spawn | one runner at a time; the file tells the truth |
| P | **Investigation API** – handlers of `viewer.py`, listings of `investigation_store.py`, `report_regeneration.py` | the requests clients have open, with a cursor or a rendered page between two statements | create, cancel, regenerate, job, investigation, status, report, artifact, the paged list | a handler reads job, row and artifact in statements of their own; pages are read while rows are created and end; a regeneration renders between two statements | no answer takes back an earlier one; none reports damage that is a race; a list read to its end is complete |
| P | **Curation** – `extract.py`, `resolve.py`, `extract_claims.py`, `gate.py`, `canonicalize.py`, `contradiction.py`, `dedup.py`, `pipeline_runner.py`, `incremental_promote.py`, `curated_zone.py`, `rebuild_zones.py` | the tables of the curated zone and the rows buffered for them | promote a batch, reconcile its blocks, commit table by table; rebuild | batches of any partition, delivered twice, broken off between two commits or at a flush forced by a read | what is confirmed is whole; batches reconcile as the corpus would at once; copies share a cluster |
| P | **Investigation content** – `planner.py`, `investigation.py`, `conclusion.py`, `assertion_evidence.py`, `synthesis.py`, `llm_investigation.py`, `investigation_report.py`, `api_facade.py` | what one investigation has read and concluded | plan, run, synthesize, conclude, ask the model, check, audit, report; list evidence | every table is read at a time of its own while documents are promoted; models answer anything | a later stage keeps what an earlier one announced; what is asserted is traced; the page has what passed the audit |
| M | **Model promotion** – `review.py`, `eval_harness.py`, `metrics_report.py`, `eval_suite.py`, `regression.py`, `versioning.py`, `pipeline_gate.py`, `promotion_pipeline.py` | review queue, golden pairs, baselines | enqueue, assign, decide, derive, persist; measure, judge, promote | decisions repeated or contradicted; a zone that changes while it is measured; two commits per promotion; a reset that takes labels and baselines along | one baseline in force; a version promoted over it is no worse than what was measured for it; report and harness agree |
| P | **Graph ledger** – `postgres_mutation_log.py`, `graph_replay.py`, `graph_service.py`, `graph_incremental.py`, `graph_storage.py`, `neo4j_graph_store.py` | `graph_mutations`; an in-memory graph; its copies | log an event; `apply`, replay, `replay_graph_at_tx`, incremental rebuild; merge, unmerge, supersede, delete; audit and rollback; persist, restore, load, read back | rows that become visible out of `tx_time` order; duplicate keys; a run that dies half way; copies that insert and never delete | one graph, however it is built or read back; a stable past; merges that can be undone |
| P | **Zone maintenance** – `compaction.py`, `snapshot_retention.py`, `parquet_snapshot.py`, `zone_bootstrap.py` | Iceberg snapshots, Parquet directories, the watcher's token | rewrite with verification and rollback, expiry, watch, export, swap | commits of others at every step of a rewrite, an expiry or an export; a crash inside the swap | a rewrite changes no logical row, expiry keeps the head and what a rollback needs, the copy catches up |
| – | **Alternative resolution and ontology versions** – `edges.py`, `multilingual_er.py`, `ontology_migration.py`, `impact_graph.py` | none | pure functions over given records | called by no stage of the modelled pipeline | migrations are monotone |
| – | **Signals and schedulers** – `signal_*.py`, `scheduler.py`, `scripts/scheduler_runner.py` | job schedule | misfire, grace, nightly runs | time | no night is lost silently |
| – | **Observation logs, SLO and metrics** – `slo_*.py`, `watchtower_slo_alert.py`, `run_metrics.py` | append-only observations | accumulate, alert | episodes, entry and exit order | one alert per episode |
| – | **Extraction and LLM judges**, **dashboard views**, **connectors**, **evaluation harnesses**, **frontend and deployment** | none that is shared | text processing, model calls, projections, I/O | – | their outcomes enter the modelled parts as nondeterministic choices |

### How they interact

* Collectors and promotion share the S2 topic: `RawFeed` states what collection promises
  there. `PromotionStream.Announce` is weaker than that promise (it may announce any
  document, at any time and repeatedly), so it covers every feed.
* Promotion is modelled twice. `PromotionStream` has the consumers, offsets and commits of
  the group and takes what a document says as data; `CuratedCorpus` has one promoter and
  what it computes and writes. A batch of `CuratedCorpus` may be any set of documents, again
  and again, and may break off at any commit: what the group does to one promoter.
* The curated zone has three kinds of users, and `CuratedReading` composes them over one
  set of tables: promotion and rebuild write it (`CuratedCorpus`), investigations read it
  (`InvestigationReader`), and the promotion of versions reads it and keeps labels and
  baselines in it (`ModelPromotion`).
* Promotion and the graph share `curated`: a promoted claim is logged as
  a node, its entities and a relation (`GraphLedger.Mutations`).
* The viewer starts collection runners (`CollectionControl`) and submits, cancels and
  regenerates investigations. `InvestigationQueue` has these as transactions beside
  the workers; `InvestigationApi` has what a client is answered, over the steps of
  `InvestigationLifecycle`, which `InvestigationQueue` is shown to implement. What a started
  runner does is `RawCollection`.
* A worker of `InvestigationQueue` runs what `InvestigationReader` models between two of its
  stages; its result is one of `Results` there.
* Promotion writes the tables that maintenance rewrites and the watcher copies. The writers
  of `ZoneMaintenance` upsert any row at any time, which covers promotion and the replay.

---

## Modules

| Component | Specification | Abstract specification | Instances | Proofs |
|---|---|---|---|---|
| Investigation queue | `InvestigationQueue` | `InvestigationLifecycle` | `MCInvestigationQueue` | `InvestigationQueueProofs` |
| Investigation API | `InvestigationApi` over `InvestigationLifecycle` | | `MCInvestigationApi` | `InvestigationApiProofs` |
| Raw collection | `RawCollection` | `RawFeed` | `MCRawCollection` | `CollectionProofs` |
| Promotion | `PromotionStream` | | `MCPromotionStream` | `PromotionStreamProofs` |
| Collection control | `CollectionControl` | | `MCCollectionControl` | `CollectionProofs` |
| Zone maintenance | `ZoneMaintenance` | | `MCZoneMaintenance` | `ZoneMaintenanceProofs` |
| Graph | `GraphLedger` over `GraphCopies` over `GraphService` | replay itself | `MCGraphLedger` | `GraphLedgerProofs`, `GraphRollbackProofs` |
| Curation | `CuratedCorpus` over `CurationRules` | the rules applied to the corpus at once | in `CuratedReading` | |
| Investigation content | `InvestigationReader` over `EvidenceFacade` over `InvestigationContent` | | in `CuratedReading` | |
| Model promotion | `ModelPromotion` over `EvaluationRules` | | in `CuratedReading` | |
| The three above together | `CuratedReading` | | `MCCuratedReading` | `CuratedReadingProofs` |

`CurationRules`, `InvestigationContent`, `EvidenceFacade`, `EvaluationRules`, `GraphService` and
`GraphCopies` have no variables: they are the pure functions of the code. `Selections` has the
list comprehension with a condition (`[x for x in s if ...]`) of `CurationRules` and `GraphService`, as a
recursive function whose definition a proof can unfold, and the list of a set of numbers; the library's
`SelectSeq` and `SortSeq` are opaque to the provers.

Conventions: an action is one step another process can see (a statement or transaction, a
commit, a publish, a file operation); a fault is an action of its own with its own bound;
names are the source's. Definitions named `Mutant...` are plausible slips of the code they
stand next to. No specification uses them: they show that a property can tell the code
from the slip.

### InvestigationQueue

One row per idempotency key in each of the four tables, a program counter per worker that
follows `InvestigationWorker.run_once`, and one record per regeneration in progress.

| Actions | Code |
|---|---|
| `Create`, `Cancel` | `InvestigationStore.create` (with the backfill of profiles at start-up), `.cancel` |
| `ClaimNext` | `claim_next`: queued jobs and jobs with an expired lease, oldest first, a fresh token |
| `CancelAtBoundary`, `MarkCancelled` | `_cancel_at_boundary` before every stage |
| `RecordStep` | `record_step` for PLAN, RUN, SYNTHESIZE and AUDIT; it writes unless the step is there |
| `RenewLease` | the heartbeat beside the two long stages |
| `ExecuteReturns`, `ReportReturns`, `StageRaises` | the execution and the report generator |
| `Complete`, `CompletionRejected`, `Fail` | `complete_with_report_artifact` (artifact, REPORT step, report and status in one transaction) and `fail` |
| `GetRegenerationSource`, `AttachReportArtifact`, `RegenerationAborts` | `report_regeneration.py`: read, render unlocked, attach under the row lock |
| `Crash`, `OrphanExpires`, `StalledExpires` | a worker dies; a lease runs out under a dead or a slow worker |

Time is abstract: a lease is live until it is expired. Claim tokens are numbers from a
growing clock, because the code's tokens are fresh UUIDs. `Legacy` rows were written
before profiles and artifacts existed, and are still queued or already completed. `Quiescent` is the idle poll loop, so
the runs check deadlock: whenever no action is possible, nobody is at work and nothing is
left to claim.

`InvestigationLifecycle` is what a client sees: a request moves once through queued and
running to one outcome, an accepted cancel beats a result, and the report appears with its
artifact. The mapping keeps status, cancel flag, report and the artifact's source.

### InvestigationApi

One request per client, the page or the artifact it holds between two statements, and the
facts it has been told of each investigation: statuses, a cancel that was accepted, report,
artifact and ETag. The rows change by `Work`, which is the `Next` of `InvestigationLifecycle`,
and by the statements of the handlers themselves; the store's connection is in autocommit, so
every statement is a step. `told` is what `NeverTakenBack` is about.

| Actions | Code |
|---|---|
| `PostInvestigation`, `PostCancel` | `create` and `cancel` with what they answer; a repeated create answers with the row on file |
| `GetRegenerationSource`, `AttachReportArtifact`, `ReadBackArtifact` | `report_regeneration.py`: the source, the attachment under the row lock, the read of what was stored |
| `GetJob`, `GetInvestigation`, `GetLatestStep` | the job; the investigation with its latest step read by a second statement |
| `GetReport`, `GetReportArtifact` | report and artifact, each with its row read first: 404, 409 and 500 answers |
| `ListFirst`, `ListNext`, `ListFails` | a listing by `created_at` and id, with a filter and a cursor |
| `Unavailable` | a 503 in place of an answer: what was committed before it stands |
| `Backfilled` | the profile pinned on legacy rows at start-up |

### RawCollection

`shards[d]` counts the stored rows of a document; the four sets `recorded`, `s1_acked`,
`s2_acked`, `delivered` are the columns of `raw_events`; each process has a buffer, a
cached index of doc_ids and the position of its run. A `Deployment` says which processes
collect what: the `resident` ones keep the store object from run to run (the nightly
scheduler), the others are one-shot; `minio` selects the store, and with it what a failed
write leaves of the buffer; `kind` says whether the source's collector catches a failed write
and whether it may meet a result cap. A behaviour has one deployment, chosen at the start.

| Actions | Code |
|---|---|
| `Begin` | `_stored_urls` and the start of a collector |
| `AppendKnown`, `AppendNew`, `AppendFails`, `AppendRaises` | `append` with its index, buffer and shard write; a write that fails ends a "feed" collector and is caught by the others |
| `CapReached` | the result cap event of a paged harvest |
| `FeedEnds`, `FeedRaises`, `Flush`, `FlushFails` | the end of a feed, an exception that leaves it, `flush` |
| `Reconcile`, `Select`, `NextRow`, `BatchDone`, `OpeningDone`, `Finish` | `reconcile` and the loop over `drain`, before the feed and after it |
| `PublishS1`, `AckS1`, `PublishS2`, `AckS2`, `Deliver`, `PublishFails` | the two events of a row and their flags |
| `Crash` | death of a process, in the middle of a reconcile's batches too |

A document is one URL with its content. What a feed lists, how pages or archives are
walked and how a fetch is retried is data: a run may visit any documents in any order, and
rows of a batch are published in any order. `RawFeed` promises that the
raw zone only grows and that S1 and S2 follow storage in that order; `stored` is mapped to
the durable documents and the two event sets to the topics.

### PromotionStream

The broker is external: two topics with one partition each (primary and retry), committed
offsets, assignment. One partition each is enough for two members to hold two references to
one document, which is what makes promotion hard. `pc` walks a member through `run_once`;
`stale` is the set of tables another process committed to since this one loaded them, which
is how Iceberg refuses a commit. `evicted` is history: whether the coordinator ever took a partition from a member.

| Actions | Code |
|---|---|
| `Poll`, `QuarantineInvalid`, `Validated` | `_fill_batch` and the contract check |
| `QuarantineDefect` | `PromotionInputError` before anything is written; the rest is retried at once |
| `StartPromotion`, `UpsertDocuments`, `DeleteSegments`, `AppendSegments` | `promote_raw_refs` up to `persist_many`, one action per Iceberg commit |
| `FlushClaims`, `CommitCurated` | the buffered curated tables: claims are flushed early, when reconciliation reads them; the others follow |
| `Conflict`, `PromotionRaises` | a refused commit; any other exception |
| `PublishCompletion`, `PublishFailure`, `Published`, `CommitOffset`, `CommitFails` | events first, then offsets, message by message |
| `Announce`, `Assign`, `Evict`, `Crash` | producer, group coordinator, a slow member, a process that ends |

### CollectionControl

The state file and the temporary file whose name every writer shares, each with what it
holds: a state, nothing, no bytes, or bytes of two writers. A writer's open handle follows
the file through a rename, so a late write can land in the published file. Actions are
`Open`, `Write`, `Replace`, `ReplaceFails` (`_write_status`), `Accept`, `Spawn`,
`SpawnFails` (`trigger`), `ReadState`, `ReadFails`, `Collected` (the runner), and `Kill`
and `Restart`. `overlapped` is history: whether a request was ever accepted while another was under way.

### GraphService and GraphLedger

`GraphService` has no state: a graph is a value, `Apply` and `Replay` are recursive
functions over event sequences, with one operator per event kind of `GraphService.apply`.
`ExtractEvents` and `ApplyIncremental` are `graph_incremental.py`.

`GraphCopies` is what is read off a graph: `MergesOf` and `AuditRollback`
(`audit_merges`, `audit_rollback`), `CanonicalOf` and `EquivalenceClass` (the fold of merged
nodes), `PersistGraph` and `LoadStored` (`GraphStorage`: rows inserted unless they are there,
edges by id), `LoadExplorer` and `ReconstructGraph` (Neo4j: nodes merged by id, relations by their
two ends and type), `QueryNeighbors` (the one hop of `investigation_subgraph`).

`GraphLedger` keeps the rows of `graph_mutations` in the order of `tx_time`. Because
`tx_time` is the start of an INSERT, a row takes its place when its statement starts and is
read once it is done, possibly after later rows. Pipeline runs log the events of a claim
(`Promote`, `LogNext`, `Insert`), with `ON CONFLICT DO NOTHING` on the key, and may die in
between (`Die`). An editor logs `EditMerge`, `EditUnmerge`, `EditSupersede` and
`EditDelete`. `Refresh` applies the log again to a graph that is kept, and `RefreshFails`
breaks off on the way.

### ZoneMaintenance

One Iceberg table: the snapshots ever committed, those still on file, and the head. A row
carries the number of the snapshot that last wrote it, so that a row set back is seen as
well as a row lost. Two snapshots are all an overwrite leaves (its deletion and its rows),
and both count when the newest are kept.

| Actions | Code |
|---|---|
| `LoadTable`, `Insert`, `Replace`, `WritesNothing` | `_commit_rows` and `_put`: the upsert of a row against the table as it was loaded |
| `StartRewrite`, `Overwrite`, `Verify`, `VerifyDiffers`, `Rollback` | `rewrite_table`; `OverwriteRefused` and `RollbackRefused` when the head has moved |
| `StartExpiry`, `ExpireTable` | `expire_zone_snapshots` and `plan_expiry`, for any retention window |
| `Look`, `Export`, `RemoveBackup`, `RetireLive`, `PublishNew`, `ExportFails` | `watch_zones`, `snapshot_zones` and the three directory operations of `_swap` |
| `ToolCrashes`, `WatcherCrashes` | a process ends; the watcher starts again without a token |

The content digest of `rewrite_table` is equality of rows. Whether the rows are scattered over
files is a flag: a writer's row gets a file of its own, a rewrite puts all in one. The
operator runs one tool at a time.

### CurationRules and CuratedCorpus

`CurationRules` turns a document into mentions, entities and claims and decides what claims and
documents belong together, one operator per rule of the code without a language model. Words
are numbers in their order; a hash is the value it is the hash of, so that two rows collide
exactly when the code's identifiers do. `MinimalClosed` is the union-find both
`CanonicalizeClaims` and `CascadeCluster` run. `ClaimsEquivalent` is what the linear path of
`canonicalize_claims` unites (one text, or overlapping neighbours in the order of spans),
`SameClaim` the pairwise rule of `_claims_equivalent`, and `Connected` its chains.

`CuratedCorpus` keeps the tables of the zone, the buffer of `batched_writes`, and the promoter's
position. `owed` are the documents of batches that were begun and not confirmed.

| Actions | Code |
|---|---|
| `Deliver`, `Normalize` | a batch and its `normalized` rows |
| `RunChain` | extraction, resolution, claims and gate per document, buffered |
| `Reconcile` | `_dedup_new`, `_canonicalize_blocks` and `_contradict_blocks`: what is read again from the zone (with the claims flushed before they are read) and what the batch adds |
| `CommitTable`, `Confirm` | the tables of the buffer, in the order of the code, and the end of the batch |
| `BreakOff` | an exception or death between any two of these |
| `RebuildNormalized`, `ResetCurated`, `RebuildDocument`, `RebuildReconcile` | `rebuild_zones.py`: the zone is emptied and derived from what is stored |

### InvestigationContent, EvidenceFacade and InvestigationReader

`InvestigationContent` has the projections: the planner's `Decompose` and `MatchEntities`, the
independence, support and contradiction of assertions, `Conclusion`, `Coverage`, the
statements and their audit (`Trace`, `Blocked`), and the report from a model's draft or the
deterministic one (`Generate`, `FallbackReason`, `FallbackDraft`, `Page`). `EvidenceFacade` has the evidence
listing with its cursor and the trail from a piece of evidence to its record.

`InvestigationReader` runs one investigation: `Open`, then the stages `Plan`, `Run`, `Synthesize`,
`State`, `AskModel`, `CheckOutput`, `AuditResult` and `Report`, and between them one `Read` per table in
the order the objects of a stage load them. `held` is what the object at work has read so
far, `result` what is kept: plan, coverage, conclusion, statements, trace, report, and the
assertions and claims the facade was built with. `Outputs` and `Answers` are what the two
models may return: statements with and without a claim the audit accepts, drafts that
leave one out, repeat one, put too many into the summary, or are no draft at all.

### EvaluationRules, ModelPromotion and CuratedReading

`EvaluationRules` measures tables against golden pairs (`eval_harness.py` and, with gates of its
own, `metrics_report.py`) and compares two sets of numbers (`Regressions`, `OntologyMajorBump`).

| Actions | Code |
|---|---|
| `Enqueue`, `Assign`, `Decide` | `ReviewQueue`: a decision is accepted from any status |
| `DeriveGolden` | the golden pairs of a decided record, inserted by key |
| `StartRun`, `ReadConflicts`, `Measure` | the tables a promotion reads, one after another, and the suite |
| `Judge` | `PromotionGate.evaluate` against the active baseline, or a dry run |
| `Supersede`, `Persist`, `RunBreaksOff` | the two commits that put a version in force, and an end between them |
| `Forget` | the reset of a rebuild, which drops golden pairs and baselines with the zone |

`CuratedReading` is the composition: its `Next` interleaves the promoter, a rebuild (while no
investigation runs), one investigation at a time and the evaluation.

---

## Runs

Each bound is a constant of its configuration. All runs finish within minutes.

| Run | Instance | Properties | What it shows |
|---|---|---|---|
| `investigation_workers` | 2 workers, 1 job that is a legacy row or a new one, 2 regenerations, 2 results, 2 profiles, 1 crash, 2 lost leases | `TypeOK`, `CancelBeatsResult`, `ClaimsAreExclusive`, `TrailIsComplete`, `PublishedTogether`, `OutcomeIsFinal`, `OnlyOwnerEnds`, `ProfileIsPinned`, `ImplementsLifecycle`, `EveryJobEnds` | workers that contend for a job cannot end it twice, overtake a cancel, or leave a hole in the trail; report and artifact appear at once; every job ends |
| `raw_collection` | three deployments: 2 one-shot processes on local shards, 2 documents, 1 fault; a one-shot feed collector, 2 documents, 2 faults; a resident process on MinIO with a paged source, 3 documents, 3 faults | `FlagsAreHonest`, `KnownIsStored`, `ImplementsFeed`, `FinishedRunIsPublished`, `DurableIsDelivered` | events never run ahead of storage, flags never ahead of events; the MinIO index is honest; everything durable is announced in the end |
| `promotion_group` | 2 members, up to 3 of 4 documents of which 1 invalid and 1 defective, batches of 2, up to 2 faults of any kind | `CommittedIsSettled`, `NoDuplicateSegments`, `QuarantineStaysOut`, `CompletedIsWhole`, `ReferencesAreSettled` | no reference is lost and every one is settled; segments are never doubled; bad input stays out; what is announced is whole until a member is evicted |
| `control_requests` | 2 threads, 4 runs, 3 faults; 2 runs once requests overlapped | `SingleRun`, `ReportIsHonest`, `NewestRunOnFile` | until requests overlap one runner collects at a time and the file is right, although writers share a temporary file |
| `graph_ledger` | 2 runs reading 1 claim in 2 ways, 2 edits, 1 refresh, 1 fault | `ReferencesHold`, `GraphsAgree`, `RollbackRestores`, `AsOfIsStable` | references hold in every order and a claim is wired once; the past is stable; kept, incremental, stored and explored graphs are the replayed one; merges show while they stand and are undone by the unmerge and the audit |
| `zone_maintenance` | 2 rows, 1 writer, 1 operator, the watcher, 1 fault of any kind, at most 5 snapshots before the last commit | `ReportIsHonest`, `OneFaultKeepsACopy`, `NothingElseIsLost`, `CopyCatchesUp` | what the operator is told holds beside a writer, rows are lost in a rollback only and the current snapshot stays on file, the Parquet copy survives one fault and catches up |
| `investigation_api` | 2 clients with 2 answers each, 2 investigations with equal or different creation times, pages of 1 | `ArtifactIsNeverMissing`, `ListingIsFaithful`, `NeverTakenBack` | answers put together from several statements agree with each other and with the answers before them |
| `curated_reading` | 3 documents of which 2 are copies, batches of up to 2, 4 deliveries, 1 rebuild, 1 fault, 1 investigation, 3 review steps, 2 promotions of 3 versions | `ConfirmedIsWhole`, `BatchesReconcileAsOne`, `ConclusionIsFounded`, `ReportIsTraceable`, `ShownInFull`, `BaselineIsCompared` | batches, redelivery and broken batches leave the corpus as if judged at once; an investigation beside them neither loses what it announced nor asserts what it cannot trace; promoted versions are compared |
| `investigation_cancel_race`, `promotion_eviction`, `promotion_gate_missed`, `control_overlap` | small | `CancelEndsTheJob`, `RedeliveryRepairs`, `PromotedPassedTheGates`, `OneAtATime` | the [disagreements](#where-code-and-documents-disagree), with a counterexample |

Where the table names no type invariant, the types are the first conjunct of another
property (`FlagsAreHonest`, `CommittedIsSettled`, `SingleRun`, `ReferencesHold`, `ReportIsHonest`,
`ListingIsFaithful`, `ConfirmedIsWhole`).

### Why these bounds

* *Two actors.* The races met in this code are between two: an owner and its successor,
  two drains of one outbox, an evicted member and its heir, two requests to the viewer, a client
  and a worker.
* *One job or claim, two or three documents.* Jobs share nothing but the clock and the
  worker's attention. Two documents fill a batch and a shard; the third of the MinIO
  deployment and of `promotion_group` leaves a remainder and lets good and bad input meet.
  `investigation_api` has two investigations because a listing needs two pages.
* *One to three faults.* The interesting sequences are a fault, the recovery, and a
  fault in the recovery. Faults, and only faults, edits, refreshes, claims, deliveries, answers and
  runs are bounded; ordinary steps are not.
* *Documents against faults of `promotion_group`* (`ThreeDocumentsOrFaults`): one announced document meets
  two faults, two meet one, three none. Announcements and faults are under no fairness, so the bound cuts
  off no step the liveness property relies on.
* *Overlapping requests of `control_requests`* (`OverlapOfTwoRuns`): once a request was accepted while another
  was under way, there are two runs. That two runners then collect is the subject of `control_overlap`.
* *`MaxRetries = 2`* passes through the first attempt, the retry and the dead letter queue.
* *Pairs of `graph_ledger`.* The editor's pair is the one the claim relates in that direction, so
  that its unmerge also takes the claim's relation (disagreement 5). Larger instances of the graph
  properties were checked while they were written: three entities, two pairs that share a member, follow each
  other or go round in a circle, up to four edits. They are too slow to be runs.
* *Two rows, five snapshots of `zone_maintenance`.* Two rows make a table worth rewriting. Five
  snapshots leave room for the two inserts, the two of a rewrite, and a commit of the writer
  between any two of its steps, or an expiry after a rollback. One fault: of two in a row
  the swap may lose every copy, see below.
* *The corpus of `curated_reading`.* Documents 1 and 3 are near copies that call one entity by
  two names, and 3 adds a sentence of its own with a phrase that 2 uses too; 2 was published
  before 1 and 3 after it, so any of them may arrive first. A claim of 3 sorts between two claims
  of 1 and 2 that overlap, so that a later batch may split a canonical claim (disagreement 12). Four deliveries are each
  document alone and one again.
* *`Followed` and `Apart` of `curated_reading`.* All deliveries, rebuilds and faults are explored
  without readers. An investigation is followed to its end while it meets documents 1 and 3, in at
  most two deliveries, rebuilds and faults together. Reviews and promotions of versions are
  followed while the zone holds documents 1 and 2, delivered at once or the second last, with its
  tables being written or at rest. `Apart = TRUE` keeps an investigation and a review or promotion
  out of the same behaviour, since neither writes what the other reads. `Followed` is a bound like
  the constants, but on combinations.
* *All but one of `graph_ledger`.* A behaviour has at most five of its two claims, two edits,
  refresh and fault (`BoundedSpec`).

`CHECK_DEADLOCK FALSE` stands where the system may stop: `control_requests`, `control_overlap`, `promotion_eviction`, `graph_ledger`, `zone_maintenance`, `investigation_api`,
`curated_reading` and `promotion_gate_missed` end when all requests, faults, edits,
snapshots, answers or deliveries of their bounds are spent and nobody is left to act; the members of
`promotion_group` may have settled everything and wait for the next message. The
investigation queue and raw collection check deadlock; for the queue, `Quiescent` says when the
poll loop may idle.

Symmetry is used in `control_requests`, `graph_ledger` and `investigation_api`, over values no
definition distinguishes, and these runs have no liveness property.

### Fairness

* `InvestigationQueue.FairSpec`: a worker that can claim does (`main` of `scripts/investigation_worker.py` polls for ever),
  a claimed job proceeds (each call is bounded by client timeouts), the lease of a dead
  worker runs out. Clients, crashes and stalls get no fairness. There is none between the
  return of an execution and its exception: either ends the stage.
* `RawCollection.LiveSpec`: a run that is not interrupted proceeds and its feed ends; a new
  run is started (the nightly schedule). Documents need not be found.
* `PromotionStream.LiveSpec`: members poll for ever, the coordinator gives each free
  partition to a polling member, a batch under way proceeds.

* `ZoneMaintenance.LiveSpec`: the watcher is resident and its export ends. Writers and the
  operator need do nothing.

Faults are bounded in every behaviour. The liveness properties therefore say that the
system recovers once faults stop, not that it wins against endless faults.

---

## Proofs

Each `...Proofs` module is checked by TLAPS to the last step. Its theorems hold for any values of
the constants: any number of workers, documents, members, rows, clients, runs or claims, and
any bound on faults. Every safety invariant and action property of the passing runs is a theorem,
except `ShownInFull` [below](#what-stays-with-tlc). Of each component one theorem or a few
state the inductive invariants, and the others follow from them. `CollectionProofs` is about two components,
whose modules therefore share no name (`ControlInit`, `ControlNext`, `ControlSpec`).

| Module | Theorems | Property of a run |
|---|---|---|
| `InvestigationQueueProofs` | `Invariance`, `StatusAgreement` | |
| | `TypeCorrect`, `CancelPrecedence`, `ClaimExclusion` | `TypeOK`, `CancelBeatsResult`, `ClaimsAreExclusive` |
| | `PublicationAtomicity`, `TrailCompleteness` | `PublishedTogether`, `TrailIsComplete` |
| | `OutcomeFinality`, `OwnerEnds`, `ProfilePinning` | `OutcomeIsFinal`, `OnlyOwnerEnds`, `ProfileIsPinned` |
| | `Refinement` | `ImplementsLifecycle` |
| `InvestigationApiProofs` | `ApiInvariance` | |
| | `NoArtifactIsMissing`, `ListingsAreFaithful`, `AnswersAreKept` | `ArtifactIsNeverMissing`, `ListingIsFaithful`, `NeverTakenBack` |
| `CollectionProofs`, of `RawCollection` | `CollectionInvariance` | |
| | `FlagHonesty`, `KnownDocumentsAreStored`, `FinishedRuns` | `FlagsAreHonest`, `KnownIsStored`, `FinishedRunIsPublished` |
| | `FeedRefinement` | `ImplementsFeed` |
| `CollectionProofs`, of `CollectionControl` | `ControlInvariance` | |
| | `OneRunnerCollects`, `ReportsAreHonest`, `NewestRunStays` | `SingleRun`, `ReportIsHonest`, `NewestRunOnFile` |
| `PromotionStreamProofs` | `PromotionInvariance` | |
| | `CommitsFollowEvents`, `SegmentsAreWrittenOnce` | `CommittedIsSettled`, `NoDuplicateSegments` |
| | `BadInputStaysOut`, `CompletedStaysWhole` | `QuarantineStaysOut`, `CompletedIsWhole` |
| `ZoneMaintenanceProofs` | `MaintenanceInvariance` | |
| | `ReportHonesty`, `OneFaultLeavesACopy`, `LossesAreNamed` | `ReportIsHonest`, `OneFaultKeepsACopy`, `NothingElseIsLost` |
| `GraphLedgerProofs` | `LedgerInvariance`, `NoRelationIsQuarantined` | |
| | `ReferencesAreHeld`, `AsOfStays` | `ReferencesHold`, `AsOfIsStable` |
| | `CutsAgree` | `IncrementalIsReplay`, of `GraphsAgree` |
| | `KeptInvariance` | |
| | `GraphsAreAlike` | `GraphsAgree` |
| `GraphRollbackProofs` | `ChosenInvariance` | |
| | `RollbackHolds` | `RollbackRestores` |
| `CuratedReadingProofs` | `CorpusInvariance`, `ReaderInvariance`, `PromotionsInvariance` | |
| | `ConfirmedDocumentsAreWhole` | `ConfirmedIsWhole` |
| | `ConclusionsAreFounded`, `ReportsAreTraceable` | `ConclusionIsFounded`, `ReportIsTraceable` |
| | `JudgementInvariance` | |
| | `BatchesAreAsOne` | `BatchesReconcileAsOne` |
| | `BaselinesAreCompared` | `BaselineIsCompared` |

### Assumptions and hypotheses

The assumptions on constants are named and stand in the module that declares the constants; TLC
evaluates each in a run. They say what the constants are (`QueueAssumption`, `ApiAssumption`,
`CollectionAssumption`, the two `PromotionAssumption`s, `ControlAssumption`,
`MaintenanceAssumption`, `CorpusAssumption`, `RulesAssumption`, `ContentAssumption`,
`ReaderAssumption`, `LedgerAssumption`): which are finite or numbers, that a null value is no other
value, that a relation type of the graph itself (`SAME_AS`, `SUPERSEDES`) is not the predicate of a claim, that
no node is named like an edge (by a number). Of `Near` it is assumed that it is symmetric, between long
documents, and the same for two documents with one text: a MinHash signature is computed from
the shingles of the text alone.

Some theorems have a hypothesis besides, and each is needed:

* `OneFaultLeavesACopy` is stated of every behaviour as `faults <= 1 => ...`: the second fault
  in one `_swap` may lose every copy.
* The theorems about the corpus and the investigation: `ClaimsAreExtracted`, that the numbered
  claims are claims of the documents. `Claim` is sorted with the library's `SortSeq`, about
  which the provers know nothing; the hypothesis says no more than that sorting keeps the elements.

Two components have properties that hold until something happens, which a history variable of the module
remembers: `CompletedIsWhole` until a member is evicted (`evicted`; afterwards `RedeliveryRepairs` fails,
disagreement 2), and `SingleRun`, `ReportIsHonest` and `NewestRunOnFile` until a request is accepted while another
is under way (`overlapped`; afterwards `OneAtATime` fails, disagreement 4). The theorems are about all behaviours,
with any number of members and threads.

### The inductive invariants

None of the properties is inductive. What is added, and what for:

**Queue.** `ClaimsAreExclusive` needs to know that a claim's token was never held before
(`TokensAreFresh`, `TokensAreUnique`); `TrailIsComplete`, that a worker past a recording stage
finds its row (`TrailFollowsPc`); `PublishedTogether`, that a worker that completes carries a
result (`WorkersOK`), and that a row that does not exist has no profile (`AbsentIsBlank`). The
refinement has one step per action (`NextRefines`), from what the actions do to an outcome and to
an artifact (`OutcomeActions`, `PublishActions`).

**API.** An answer is made of several statements. `RowsAreWhole` and `PinnedIsWhole` say which rows
have an artifact, `ToldIsTrue` that every fact a client was told is still true of its row, and
`RequestIsCurrent` that what a request under way has read contradicts none of them and that
it can still be answered. `ListingsInOrder` says of a listing between two pages that nothing shown lies behind the
cursor and that what was there at its start was shown or does.

**Raw collection.** `FlagsAreHonest` needs what a publishing process knows of the row it holds
(`RowAtHand`) and that a batch is of recorded rows (`BatchIsRecorded`); these need that a
recorded row is durable (`RecordedIsDurable`), that a one-shot process past its feed has
an empty buffer (`BufferIsOfTheRun`), and that what a run counts as saved was appended
(`SavedIsKept`). `FeedRefinement` maps a shard write to the abstract storage and each
publish to the abstract event; the other actions stutter.

**Promotion.** A commit of offsets is right because of what is known of a batch in every phase:
`BatchesSettle` (each message of a batch was settled or is still open in it), `PositionsSettle` (an
owner's partition is settled up to its position, but for its batch), `CommitsAreSettled`. Segments are
written once because a member that is about to append has deleted what was there or is
`stale` (`AppendsFindNone`). `BadInputIsDropped` and `WrittenSoFar` follow the
phases. Until a member is evicted a batch belongs to its partition's owner and is uncommitted (`BatchIsOwned`,
`BatchIsPending`, `CommitsTrail`), so that a document without segments is in a batch that
will append them, or comes again (`MissingSegmentsReturn`).

**Control.** Contents of both files are of a run and never another end than it had (`Honest`), and are what
the writer at work put there (`HaveStates`, `OpenWhileWriting`, `HeldFiles`); runs are on file
in their order (`RunsInOrder`); a thread and the runners take turns
(`ThreadInTurn`, `RunnerInTurn`, `AcceptingAlone`, `CollectingAlone`, `ReportingAlone`). As long as requests do not
overlap, at most one thread is at work: the invariant (`ControlIInv(t)`) is stated for a thread next to which the others are
idle (`Alone`), some thread is in that position in every state (`AnyThread`), and a
request that is accepted next to another leaves the part of the state space it is about (`OverlapStays`).

**Maintenance.** `RowsAreNumbered` (a row has the number of a snapshot that exists),
`ReportsComeLast` (a tool at work has reported nothing yet), `PlanIsSparing` (the
plan of an expiry keeps the head and the newest snapshots, though others were committed since),
`SwapKeepsACopy` (which directory has the copy at each step of `_swap`).

**Graph.** `KeysAreUnique` is `ON CONFLICT DO NOTHING`. No relation is quarantined because whoever
starts to log one has seen its nodes done (`NodesComeFirst`), and that holds because a run's program logs
them first (`ProgramsPrepare`, `OpenIsNext`). `GraphFits` says of *any* graph that has
applied some set of events what its nodes, relations and deletions are; one lemma per event kind
shows that applying an event keeps it, so that it holds of the replayed graph and of the kept one, and
`ReferencesHold` is read off it. The folds (`Replay`, `Picked`) are recursive functions. The
library's induction theorems cannot be used, so a fact about a fold is proved by
the least length at which it fails: `LeastNatural` shows from the finiteness theorems that a set of
naturals has a least element. `CutsAgree` says that `apply_incremental` from any cut of the log is the
replay of the whole, as long as the log holds events of pipelines only: what `ExtractEvents`
takes out of a graph rebuilds its nodes, relations and claims whatever order the
extracted events have, and the two folds then take the same steps.

That the editor's kept graph, the replay of all events and a graph read back from its copies are alike
(`GraphsAreAlike`) needs `KeptInv`: edits are numbered and one is made at a time (`EditorRows`), and
there is a graph that has every node from the start and on which the edits alone were applied
(`Up`, one event at a time by `Follows`) whose edited part is that of the kept graph and of the replay
(`Paired`). The events of pipelines leave that part alone, so two graphs that applied the same rows agree
in it, whatever was applied between. Numbers of edges rise (`Rising`), and whatever is in a graph has come
of an event (`Rooted`), so that marks and edges of both can be compared; a copy files nodes by number and an
explorer edges by their ends, and no two differ in less than that.

That merges can be taken back (`RollbackHolds`) needs `ChosenInv`: what the editor saw when a statement
started (the two nodes of a merge alive, the merge of an unmerge in place) still holds in the replay of the
rows before it, whatever the runs have logged since. So the log is a list that is `Told`: each row
meets its nodes and what it should (`MutationsAreTold`). Two replays are then followed side by side, one of the
whole list and one without the merges that are undone and their unmerges (`Mirrors`, one lemma
for an omitted row and one for a kept row, `OmittedMirrors`, `KeptMirrors`): they have the same relations
but for those between an undone pair, and the same marks on every node, but for a merge that is still to be undone
(`Pending`). A rollback of an audited merge is the replay of one more row, its unmerge
(`RollbackIsEvent`), so that the same two lemmas serve. A merge is seen because the walk from the merged node to its
canonical is the walk from the other node, one step late (`SeenAsOne`), and that one stands still at the last step,
since it would have seen more nodes than there are (`WalkEnds`).

**Corpus.** A confirmed document is whole because each phase of the promoter keeps track of what it still
owes: `BatchStands` and `StreamStands` say which rows of a batch, and of a document of a rebuild, are on file
or in the buffer at each phase, `BatchIsOwed`, `RebuildOwesAll` and `StreamIsRebuilt` which
documents are not confirmed, `ClaimsAreRead` and `AssertionsStand` that claims and
assertions lead back to rows, `NormalizedFirst` that a curated document is in the normalized zone.

That batches reconcile as one corpus needs another invariant. `ClosedAreJudged` says that in a block with no
claim of an owed document, every promoted claim on file names its class, and the conflicts
are those of the block; `BatchIsJudged`, that after the reconciliation of a batch the buffer
has this for the blocks of the batch. The step rests on lemmas about the rules: the
classes of a block and its conflict pairs depend on the claims of that block only, so that a batch
which reads its blocks again in full finds what the whole corpus would give, whatever it was read with and in
what order. `MembersStand` and `ConflictsStand` keep track of the rows of earlier groupings (a
minimal closed set is connected by the pairwise rule), `SignaturesAreOfDocs` and `BatchShares`
of which copies a batch can see.

**Investigation.** Tables only grow while an investigation runs (`ZoneStays`), and what it has read is a part
of them (`HeldIsOnFile`, in the order of the reads, `HeldInOrder`). From there each stage is followed to the
next: `PlanIsBacked`, `PlanIsCovered`, `SeedHasEvidence`, `PredicatesAreAsserted`, `StatementsAreSound`,
`OutputIsSound`, `TraceStands`, `ReportStands`. The proof uses `CorpusInv`.

**Promotion of versions.** `OneInForce` and `VerdictHolds` need what a run knows between its two commits
(`RunKnows`), and that metrics are numbers (`BaselinesAreTyped`), of finitely many labels (`GoldenIsFinite`).

### What stays with TLC

* Liveness: `EveryJobEnds`, `DurableIsDelivered`, `ReferencesAreSettled`, `CopyCatchesUp`. They rest on
  fairness and `ENABLED`, which are beyond the proof system.
* `ShownInFull`: the page is a permutation of the statements, through `SetToSortSeq` and `FoldLeft`
  of the community modules, which are recursive or opaque to the provers.

---

## Where code and documents disagree

Each of the first four is a run that TLC ends with a counterexample.

1. **A cancel can leave a job running for ever** (`investigation_cancel_race`). The execution
   raises, the boundary sees no cancel, the cancel arrives, `fail` requires
   `cancel_requested = false` and matches no row. `claim_next` never selects a
   job with a cancel request, so nobody ends it. The docstring of `cancel`
   (`investigation_store.py:733`) says the worker ends it at a stage boundary. A worker that
   dies after the request leaves the same state.
2. **An evicted member can strip a finished document of its segments** (`promotion_eviction`).
   `persist_many` deletes and appends in two commits. The evicted member deletes what its
   successor wrote and ends before it appends, after the successor announced and committed.
   `docs/design/01-architecture.md:128` promises that redelivery repairs partial commits;
   here no delivery is left.
3. **A version is promoted past the golden gates** (`promotion_gate_missed`). `run_eval_suite`
   finds the precision below its gate, `PromotionGate.evaluate` is handed the numbers and
   compares them with the baseline's only. When the baseline is as bad, the version is
   promoted.
4. **Two overlapping requests start two runners** (`control_overlap`). The viewer serves each request in a
   thread of its own, and `trigger` reads the state, compares and writes without a lock, so that two
   requests may both find the collection idle. Its answer to a second request is "already running; try again
   after it completes" (`collection_control.py:47`), and `tests/test_collection_control.py:38` expects it.

Met while modelling, without a run of their own. Collection and promotion:

5. *An unmerge removes more than the merge, or less*. `_matches` compares the
   resolution reference on `SAME_AS` edges only and lets any other edge from member to
   canonical match, so relations of claims and corrections go too. And `_apply_unmerge`
   (`graph_service.py:115`) clears the member's marks only when no merge of it is left: the unmerge of the
   later of two merges leaves `canonical_id` at the canonical that was taken back, while the earlier merge
   stands. `docs/design/06-graph-service.md:196` calls every merge reversible by its unmerge, and
   the docstring of `audit_rollback`, which does the same, promises to take back the wrong merge only.
   `UnmergeRestores` and `AuditRestores` hold for the rest (`NoTraceOf`).
6. *The collection state file can stay busy for ever*: after a restart of the viewer, a
   killed runner, an exception of `Popen`, or when the trigger's late "running"
   overwrites the end of a fast runner. Every later request is refused.
7. *A failed local shard write loses documents and remembers them as stored*: the local store
   pops its buffer before it writes, and the ids stay in the index, so that a resident process
   answers "already collected" (`raw_shard.py:55`), and a one-shot one counts them as saved.
   The MinIO store keeps its buffer: `KnownIsStored` and `FinishedRunIsPublished` are about it.
8. *Two processes store a document twice*: the index of one does not see the other's shards.
   Consumers key on doc_id.
9. *A store object that outlives a failed run can announce buffered rows*: `iter_records`
   includes the buffer, which the next `reconcile` records and publishes before any flush.
   This is why `ImplementsFeed` maps `stored` to the durable rows only where no process is resident.
10. *The order of commits leaves half a batch*: the docstring of `batched_writes` sees no reason
    to leave a half commit behind, but claims are flushed as soon as reconciliation reads them,
    and a batch that ends there leaves claims without assertions. A redelivery repairs it
    (`ConfirmedIsWhole`), readers see it until then.
11. *Rows of an earlier grouping stay*: canonical claims, memberships and clusters that a later
    batch has regrouped are never removed, and a conflict is stored in both orientations. What
    they say follows from the rules (see 12), but whoever counts or
    joins them by row meets both groupings.
12. *Adjacent is not enough*: the comment of the linear path (`canonicalize.py:149`, and "인접 중첩만 union
    (transitive 는 union-find 가 흡수)" at line 158) takes the union of overlapping neighbours in the order of spans for the
    pairwise rule, but two overlapping claims with a third between them that ends before the second starts are not
    united. Segments are numbers within a document and a block has claims of many, so a later
    document can split a canonical claim, and rows of `member_of` join what the newest grouping does not.
    The last part but one of `BatchesReconcileAsOne` says what is left: no row joins claims that no
    chain of the pairwise rule connects.

Graph and maintenance:

13. *The incremental rebuild forgets editor events*: `apply_incremental(base, delta)` equals
    `replay(base + delta)` (`06-graph-service.md:242`) for pipeline events, as
    `IncrementalIsReplay` says, and not when `base` holds a merge, correction or deletion.
14. *A kept graph can differ from a replay on relations of deleted nodes*, when a deletion
    starts before a relation and ends after it. `KeptIsReplayed` leaves those out.
15. *Copies only grow*: a copy keeps the edges an unmerge or a deletion has taken out
    (`StoredIsCurrent` says that it keeps nothing else), the Neo4j copy one relation of those that join two
    nodes, and a stale `canonical_id` after an unmerge. A graph restored from a copy counts its edges
    from the start again, so that edges it adds share the ids of others, and copying it again
    drops them.
16. *A rewrite can drop what others commit*: a commit between the overwrite and the refresh
    makes the digests differ, and the rollback to the starting snapshot drops it, while the
    exception says that the data is preserved (`compaction.py:69`). `NothingElseIsLost` shows
    that this is the only way.
17. *A failed export is not tried again*: `watch_zones` announces a retry in the next period
    (`parquet_snapshot.py:138`, and `test_watch_survives_an_export_failure`), but its export is
    `safe_snapshot`, which does not raise, so the token counts as exported until the zone moves
    again. `CopyCatchesUp` leaves that case out.
18. *A second crash in a row can leave no Parquet copy*: `_swap` removes the backup first, also
    when the live directory is missing since an earlier crash.
19. *A rollback can bring back a token whose export read newer rows*: the copy then shows rows
    the table no longer has, until the next commit.

Investigations:

20. *The boundary after AUDIT reads only the cancel flag*: a worker that lost its claim still
    spends a report call, whose result is then refused
    (`src/specs/investigation-html-reports/specs.md:40` asks for an ownership check).
21. *An independent source can count twice*: a derived document is counted as its own root and
    as an addition, although the comment of `assertion_evidence.py` and
    `docs/design/11-observability-and-governance.md:66` call the two disjoint. `FiguresAddUp`, a part of
    `ShownInFull`, allows for twice the documents.
22. *The trail of a supporting document shows another one's span*: for a document other than the
    claim's own, `get_evidence_provenance` pairs the claim's extraction record with that document.
    `PagesLeadBack`, a part of `ShownInFull`, says that the record is the claim's.
23. *A cursor behind the last piece of evidence starts again at the first.* No page hands one out.
24. *A sentence can cite a claim of another predicate*: `_statements` takes the i-th predicate
    and the i-th claim. Both are the subject's, which is what `ReportIsTraceable` says.
25. *An empty `subject_id` always falls back*: the audit rejects every statement of a request
    that carries `""`.

Model promotion:

26. *A break between the two commits leaves no baseline in force*, and so does promoting a version that is older than
    the one in force: the next promotion is taken as the first and compared with nothing.
    `BaselineIsCompared` says "at most one".
27. *Report and harness have different gates*: with pairs labelled unrelated and none labelled as contradicting, the report says "not measured" and the harness
    refuses. The reverse, a failed gate in the report that the harness lets through, does not happen.
28. *All splits are measured*, although `docs/design/10-evaluation-and-testing.md:148` reserves the test split.
29. *A decision is accepted from any status*, and the labels derived from an earlier one stay: two
    decisions leave golden pairs that contradict each other.

---

## What is not covered

* **Queue and API**: payload validation, query strings and bodies (400, 413), the integrity check of
  stored bytes.
* **Raw collection**: discovery, fetching, the arXiv windows, a local shard file that is written in part. **Control**: validation of source ids.
* **Promotion group**: more than one partition per topic; polls between the messages of one batch (`Poll` fills it in
  one step, after which nothing has happened yet); upserts that find nothing to write and so commit nothing; what a document says (in `CuratedCorpus`);
  the order of the single curated tables (likewise).
* **Curation**: a crash between the inserts and the replacements of one table (`CommitTable` is one commit); the paths with an LLM judge, the edge rule of the gate, multilingual
  resolution; a rebuild with `--limit`, `--source` or a skip flag, and an investigation beside a
  rebuild. Two promoters on one corpus are in `PromotionStream` only. A document's trust is one number: the
  incremental path reads it from the source id, the rebuild from the raw row, and no property depends on which.
* **Investigation content**: retrieval, counter-evidence and ranking (shown in the result, read by no later
  stage), the subgraph (always empty: the pipeline writes none of the relations it follows), the limits on sizes and
  the layout of the page.
* **Model promotion**: one promotion at a time, one `gold_version`, and of the five axes of a
  version the ontology major only, which is the one that blocks.
* **Graph**: `as_of`, properties of payloads, the sharing of payload dictionaries between two replays of
  one list, the in-memory log of the first prototype. `StoredIsCurrent` takes its first copy before
  an edit, not at every moment.
* **Maintenance**: several tables in one batch or export, tools that overlap, the bootstrap.
* **Not modelled**: schedulers and logs (next in the plan); alternative resolution rules and ontology
  migration (pure, sequential, called by none of the modelled stages); extraction models and LLM judges,
  connectors (I/O and text: their results are nondeterministic choices); dashboard views (read-only);
  evaluation harnesses and one-off scripts, frontend, deployment.

---

## Plan

Order: what loses or corrupts data first. Items 1 to 10 are done.

1. `InvestigationQueue`, `InvestigationLifecycle`, their runs and `InvestigationQueueProofs`.
2. `RawCollection`, `RawFeed`.
3. `PromotionStream`.
4. `CollectionControl`.
5. `GraphService`, `GraphLedger`, and `GraphCopies` over them.
6. `ZoneMaintenance`.
7. `CurationRules` and `CuratedCorpus`.
8. `InvestigationContent`, `EvidenceFacade`, `InvestigationReader`, and `InvestigationApi`.
9. `EvaluationRules`, `ModelPromotion`, and `CuratedReading` over 7 to 9.
10. **Proofs** of every component: done but for what [stays with TLC](#what-stays-with-tlc). Next, `FiguresAddUp`.
11. **Schedulers and logs**: misfire and grace of `scheduler_runner.py`, windows of the arXiv
    harvest, the episodes of `watchtower_slo_alert.py`.
12. **Ontology migration and alternative resolution**, as functions against reference definitions.
