---------------------------- MODULE CollectionProofs ----------------------------
(***************************************************************************)
(* Proofs about the collection: RawCollection (what a run does), for any   *)
(* documents, processes, deployments, shard size and faults, and           *)
(* CollectionControl (how the viewer orders runs), for any number of       *)
(* threads, runs and faults.                                               *)
(*                                                                         *)
(* The inductive invariant of RawCollection, IInv, adds to the checked     *)
(* invariants what makes them inductive: what a drain knows of the rows it *)
(* holds, that the outbox records only what can be read back, and where    *)
(* the rows of a run's documents are while the run goes on.                *)
(*                                                                         *)
(* In CollectionControl, as long as requests do not overlap, one thread at *)
(* most is past its check, and the others are idle.  (Two that overlap     *)
(* start two runners: trigger checks and writes without a lock.)  Runners  *)
(* still overlap with that thread and with runners of earlier runs that    *)
(* linger in their last write, so the inductive invariant says who may     *)
(* hold which file open, and for which run, at every step of the two.      *)
(***************************************************************************)
EXTENDS RawCollection, CollectionControl, FiniteSetTheorems, TLAPS

-------------------------------------------------------------------------------
(* RawCollection.                                                          *)

(* A selected row is on record, and one selected as acknowledged on S1 is. *)
BatchIsRecorded ==
    \A p \in Procs :
        /\ batch[p] \subseteq recorded
        /\ batch[p] \ s1_due[p] \subseteq s1_acked

(* The row at hand is on record, and the step taken for it follows the     *)
(* steps before it.                                                        *)
RowAtHand ==
    \A p \in Procs :
        /\ pc[p] \in {"s1", "s1_ack", "s2", "s2_ack", "deliver"} => row[p] \in recorded
        /\ pc[p] = "s1_ack" => row[p] \in s1_published
        /\ pc[p] = "s2" => row[p] \in s1_acked
        /\ pc[p] = "s2_ack" => row[p] \in s2_published

(* A store object that does not outlive its run buffers nothing between    *)
(* the visit of the feed and the next.                                     *)
BufferIsOfTheRun ==
    \A p \in Procs \ deployment.resident :
        pc[p] \notin {"collect", "flush"} => buffer[p] = {}

RecordedIsDurable == deployment.resident = {} => recorded \subseteq Durable

(* What a run over MinIO counts as saved is buffered or durable, durable   *)
(* behind its flush, and on record behind its last reconcile.              *)
SavedIsKept ==
    \A p \in Procs :
        /\ pc[p] = "collect" => phase[p] = "opening"
        /\ deployment.minio =>
             /\ saved[p] \subseteq Records(p)
             /\ phase[p] = "closing" /\ pc[p] # "flush" => saved[p] \subseteq Durable
             /\ phase[p] = "closing" /\ pc[p] \notin {"flush", "reconcile"}
                  => saved[p] \subseteq recorded

IInv ==
    /\ FlagsAreHonest
    /\ BatchIsRecorded
    /\ RowAtHand
    /\ KnownIsStored
    /\ BufferIsOfTheRun
    /\ RecordedIsDurable
    /\ SavedIsKept
-------------------------------------------------------------------------------
(* Everything a process holds, with its type.                              *)
ProcessTypeOK ==
    /\ buffer \in [Procs -> SUBSET Docs]
    /\ indexed \in [Procs -> BOOLEAN]
    /\ known \in [Procs -> SUBSET Docs]
    /\ pc \in [Procs -> Pcs]
    /\ phase \in [Procs -> {"opening", "closing"}]
    /\ known_urls \in [Procs -> SUBSET Docs]
    /\ saved \in [Procs -> SUBSET Docs]
    /\ batch \in [Procs -> SUBSET Docs]
    /\ s1_due \in [Procs -> SUBSET Docs]
    /\ s2_due \in [Procs -> SUBSET Docs]
    /\ row \in [Procs -> Docs \cup {None}]

(* Types, split into what belongs to one process and what all share.       *)
LEMMA TypeHasParts ==
    TypeOK <=> /\ ProcessTypeOK
               /\ deployment \in Deployment
               /\ capped \in BOOLEAN
               /\ shards \in [Docs -> Nat]
               /\ recorded \subseteq Docs
               /\ s1_acked \subseteq Docs
               /\ s2_acked \subseteq Docs
               /\ delivered \subseteq Docs
               /\ s1_published \subseteq Docs
               /\ s2_published \subseteq Docs
               /\ faults \in Nat
  BY DEF TypeOK, ProcessTypeOK

(* A shard adds to what is durable the rows written, and nothing is lost.  *)
LEMMA ShardIsDurable ==
    ASSUME shards \in [Docs -> Nat], NEW rows \in SUBSET Docs, shards' = WithShard(rows)
    PROVE  shards' \in [Docs -> Nat] /\ Durable' = Durable \cup rows
  BY DEF WithShard, Durable

(* What a step of another process leaves as it is.                         *)
SameIn(q) ==
    /\ pc'[q] = pc[q] /\ phase'[q] = phase[q] /\ saved'[q] = saved[q]
    /\ batch'[q] = batch[q] /\ s1_due'[q] = s1_due[q] /\ row'[q] = row[q]
    /\ buffer'[q] = buffer[q] /\ known'[q] = known[q]

(* What a run that ends leaves in its process, and in the others.          *)
Left(p, rows, ids) ==
    /\ pc'[p] = "idle" /\ phase'[p] = "opening"
    /\ saved'[p] = {} /\ batch'[p] = {}
    /\ p \in deployment.resident => buffer'[p] = rows /\ known'[p] = ids
    /\ p \notin deployment.resident => buffer'[p] = {} /\ known'[p] = {}
    /\ \A q \in Procs \ {p} : SameIn(q)

(* The end of a run resets its own process; a resident collector keeps     *)
(* rows and ids, and the other processes keep all they have.               *)
LEMMA RunEndsLeaves ==
    ASSUME ProcessTypeOK, NEW p \in Procs, NEW rows \in SUBSET Docs,
           NEW ids \in SUBSET Docs, NEW index \in BOOLEAN, RunEnds(p, rows, ids, index)
    PROVE  ProcessTypeOK' /\ Left(p, rows, ids)
  BY DEF RunEnds, ProcessTypeOK, Pcs, Left, SameIn

-------------------------------------------------------------------------------
(* What is read from the raw zone or the index is a set of documents.      *)
LEMMA ReadsAreDocs ==
    ASSUME TypeOK, NEW p \in Procs
    PROVE  /\ Durable \subseteq Docs /\ Records(p) \subseteq Docs
           /\ IndexOnce(p) \subseteq Docs
           /\ \A rows \in SUBSET Docs : BufferAfterFailedWrite(rows) \subseteq Docs
  BY DEF TypeOK, Durable, Records, IndexOnce, BufferAfterFailedWrite

(* The steps that end a run, and what they end it with.                    *)
Ending(p) ==
    \/ FeedRaises(p) \/ FlushFails(p) \/ Finish(p) \/ CapReached(p) \/ PublishFails(p)
    \/ \E d \in deployment.docs : AppendRaises(p, d)

(* Over MinIO it ends with what it had, or with the row that failed too.   *)
EndsWith(p, rows, ids) ==
    deployment.minio =>
        \/ rows = buffer[p] /\ ids = known[p]
        \/ \E d \in Docs : rows = buffer[p] \cup {d} /\ ids = IndexOnce(p) \cup {d}

(* Both ways a run can end, by its return and by an exception.             *)
LEMMA EndingLeaves ==
    ASSUME TypeOK, NEW p \in Procs, Ending(p)
    PROVE  /\ ProcessTypeOK'
           /\ \E rows, ids \in SUBSET Docs : Left(p, rows, ids) /\ EndsWith(p, rows, ids)
<1> DEFINE Ends == \E rows, ids \in SUBSET Docs, index \in BOOLEAN :
                      RunEnds(p, rows, ids, index) /\ EndsWith(p, rows, ids)
<1>1. /\ buffer[p] \in SUBSET Docs /\ known[p] \in SUBSET Docs /\ indexed[p] \in BOOLEAN
      /\ deployment.docs \in SUBSET Docs
  BY DEF TypeOK, Deployment
<1>2. ASSUME FeedRaises(p) \/ Finish(p) \/ CapReached(p) \/ PublishFails(p) PROVE Ends
  <2>1. EndsWith(p, buffer[p], known[p])
    BY DEF EndsWith
  <2> QED
    BY <1>1, <1>2, <2>1 DEF FeedRaises, Finish, CapReached, PublishFails, RunStops
<1>3. ASSUME FlushFails(p) PROVE Ends
  <2> DEFINE left == BufferAfterFailedWrite(buffer[p])
  <2>1. left \in SUBSET Docs
    BY <1>1, ReadsAreDocs
  <2>2. EndsWith(p, left, known[p])
    BY DEF BufferAfterFailedWrite, EndsWith
  <2>3. RunEnds(p, left, known[p], indexed[p])
    BY <1>3 DEF FlushFails
  <2> HIDE DEF left
  <2> QED
    BY <1>1, <2>1, <2>2, <2>3
<1>4. ASSUME NEW d \in deployment.docs, AppendRaises(p, d)
      PROVE  Ends
  <2> DEFINE left == BufferAfterFailedWrite(buffer[p] \cup {d})
             ids == IndexOnce(p) \cup {d}
  <2>1. left \in SUBSET Docs /\ ids \in SUBSET Docs /\ TRUE \in BOOLEAN
    BY <1>1, ReadsAreDocs
  <2>2. RunEnds(p, left, ids, TRUE)
    BY <1>4 DEF AppendRaises
  <2>3. EndsWith(p, left, ids)
    BY <1>1 DEF BufferAfterFailedWrite, EndsWith
  <2> HIDE DEF left, ids
  <2> QED
    BY <2>1, <2>2, <2>3
<1> HIDE DEF Ends
<1>5. Ends
  BY <1>2, <1>3, <1>4 DEF Ending
<1> PICK rows \in SUBSET Docs, ids \in SUBSET Docs, index \in BOOLEAN :
            RunEnds(p, rows, ids, index) /\ EndsWith(p, rows, ids)
  BY <1>5 DEF Ends
<1>6. ProcessTypeOK
  BY TypeHasParts
<1> QED
  BY <1>6, RunEndsLeaves

(* No action writes a value of the wrong kind.                             *)
LEMMA NextTypeOK ==
    ASSUME TypeOK, RowAtHand, NEW p \in Procs, UNCHANGED deployment,
           Begin(p) \/ Collect(p) \/ Publish(p) \/ Faulty(p)
    PROVE  TypeOK'
<1> USE DEF raw_events, topics, store, run, drain
<1>0. /\ Durable \subseteq Docs /\ Records(p) \subseteq Docs /\ IndexOnce(p) \subseteq Docs
      /\ \A rows \in SUBSET Docs : BufferAfterFailedWrite(rows) \subseteq Docs
      /\ deployment.docs \subseteq Docs
  BY ReadsAreDocs DEF TypeOK, Deployment
<1>1. CASE Begin(p)
  BY <1>0, <1>1 DEF Begin, TypeOK, Pcs
<1>2. ASSUME NEW d \in deployment.docs, AppendKnown(p, d) PROVE TypeOK'
  BY <1>0, <1>2 DEF AppendKnown, TypeOK
<1>3. ASSUME NEW d \in deployment.docs, AppendNew(p, d) PROVE TypeOK'
  <2> DEFINE rows == buffer[p] \cup {d}
  <2>1. rows \in SUBSET Docs
    BY <1>0 DEF TypeOK
  <2>2. WithShard(rows) \in [Docs -> Nat]
    BY DEF WithShard, TypeOK
  <2>3. shards' \in [Docs -> Nat]
    BY <1>3, <2>2 DEF AppendNew, TypeOK
  <2>4. buffer' \in [Procs -> SUBSET Docs]
    BY <1>3, <2>1 DEF AppendNew, TypeOK
  <2>5. /\ known' \in [Procs -> SUBSET Docs] /\ indexed' \in [Procs -> BOOLEAN]
        /\ saved' \in [Procs -> SUBSET Docs]
    BY <1>0, <1>3 DEF AppendNew, TypeOK
  <2>6. UNCHANGED <<raw_events, topics, pc, phase, known_urls, drain, faults>>
    BY <1>3 DEF AppendNew
  <2> HIDE DEF rows
  <2> QED
    BY <2>3, <2>4, <2>5, <2>6 DEF TypeOK
<1>4. ASSUME NEW d \in deployment.docs, AppendFails(p, d) PROVE TypeOK'
  <2>1. BufferAfterFailedWrite(buffer[p] \cup {d}) \in SUBSET Docs
    BY <1>0 DEF TypeOK
  <2> QED
    BY <1>0, <1>4, <2>1 DEF AppendFails, WriteFails, Fault, TypeOK, Deployment
<1>5. CASE FeedEnds(p)
  BY <1>5 DEF FeedEnds, TypeOK, Pcs
<1>6. CASE Flush(p)
  <2>1. WithShard(buffer[p]) \in [Docs -> Nat]
    BY DEF WithShard, TypeOK
  <2> QED
    BY <1>6, <2>1 DEF Flush, TypeOK, Pcs
<1>7. CASE Reconcile(p)
  BY <1>0, <1>7 DEF Reconcile, TypeOK, Pcs
<1>8. CASE Select(p)
  BY <1>8 DEF Select, Selections, Pending, TypeOK, Pcs
<1>9. CASE OpeningDone(p) \/ BatchDone(p)
  BY <1>9 DEF OpeningDone, BatchDone, TypeOK, Pcs
<1>10. CASE NextRow(p)
  <2> PICK d \in batch[p] : NextRow(p)!2!(d)
    BY <1>10 DEF NextRow
  <2>1. d \in Docs
    BY DEF TypeOK
  <2> QED
    BY <1>10, <2>1 DEF NextRow, TypeOK, Pcs
<1>11. CASE PublishS1(p) \/ AckS1(p) \/ PublishS2(p) \/ AckS2(p)
  <2>1. row[p] \in Docs
    BY <1>11 DEF PublishS1, AckS1, PublishS2, AckS2, RowAtHand, TypeOK
  <2> QED
    BY <1>11, <2>1 DEF PublishS1, AckS1, PublishS2, AckS2, TypeOK, Pcs
<1>12. CASE Deliver(p)
  BY <1>12 DEF Deliver, TypeOK, Pcs
<1>13. CASE Ending(p)
  <2>1. ProcessTypeOK'
    BY <1>13, EndingLeaves
  <2>2. pc[p] \in {"s1", "s2"} => row[p] \in Docs
    BY DEF RowAtHand, TypeOK
  <2>3. faults' = faults \/ faults' = faults + 1
    BY <1>13 DEF Ending, FeedRaises, FlushFails, Finish, CapReached, PublishFails,
       AppendRaises, WriteFails, Fault
  <2>4. /\ UNCHANGED <<shards, recorded, s1_acked, s2_acked, delivered>>
        /\ capped' \in {TRUE, capped}
        /\ \/ s1_published' = s1_published
           \/ pc[p] = "s1" /\ s1_published' = s1_published \cup {row[p]}
        /\ \/ s2_published' = s2_published
           \/ pc[p] = "s2" /\ s2_published' = s2_published \cup {row[p]}
    BY <1>13 DEF Ending, FeedRaises, FlushFails, Finish, CapReached, PublishFails,
       AppendRaises, WriteFails
  <2>5. deployment' \in Deployment /\ capped' \in BOOLEAN
    BY <2>4 DEF TypeOK
  <2>6. s1_published' \subseteq Docs /\ s2_published' \subseteq Docs
    BY <2>2, <2>4 DEF TypeOK
  <2>7. faults' \in Nat
    BY <2>3 DEF TypeOK
  <2> QED
    BY <2>1, <2>4, <2>5, <2>6, <2>7 DEF TypeOK, ProcessTypeOK
<1>14. CASE Crash(p)
  BY <1>0, <1>14 DEF Crash, Fault, TypeOK, Pcs, Deployment
<1> QED
  BY <1>1, <1>2, <1>3, <1>4, <1>5, <1>6, <1>7, <1>8, <1>9, <1>10, <1>11, <1>12, <1>13,
     <1>14 DEF Collect, Publish, Faulty, Ending
-------------------------------------------------------------------------------
(* Shards, the outbox and the topics only grow.                            *)
Grows ==
    /\ Durable \subseteq Durable'
    /\ recorded \subseteq recorded'
    /\ s1_acked \subseteq s1_acked'
    /\ s2_acked \subseteq s2_acked'
    /\ delivered \subseteq delivered'
    /\ s1_published \subseteq s1_published'
    /\ s2_published \subseteq s2_published'

(* The step of one process.                                                *)
StepOf(p) ==
    /\ UNCHANGED deployment
    /\ Begin(p) \/ Collect(p) \/ Publish(p) \/ Faulty(p)

(* A step of one process only adds to what is shared and leaves the        *)
(* others' state alone: collectors and drains meet on the stores only.     *)
LEMMA StepOfOne ==
    ASSUME TypeOK, NEW p \in Procs, StepOf(p)
    PROVE  Grows /\ \A q \in Procs \ {p} : SameIn(q)
<1> USE DEF raw_events, topics, store, run, drain
<1>1. Grows
  <2>1. shards' = shards => Durable' = Durable
    BY DEF Durable
  <2>2. \A rows \in SUBSET Docs : shards' = WithShard(rows) => Durable \subseteq Durable'
    BY ShardIsDurable DEF TypeOK
  <2>3. buffer[p] \in SUBSET Docs /\ deployment.docs \in SUBSET Docs
    BY DEF TypeOK, Deployment
  <2>4. CASE Begin(p)
    BY <2>1, <2>4 DEF Begin, Grows
  <2>5. ASSUME NEW d \in deployment.docs, AppendKnown(p, d) PROVE Grows
    BY <2>1, <2>5 DEF AppendKnown, Grows
  <2>6. ASSUME NEW d \in deployment.docs, AppendNew(p, d) PROVE Grows
    <3>1. shards' = shards \/ shards' = WithShard(buffer[p] \cup {d})
      BY <2>6 DEF AppendNew
    <3>2. buffer[p] \cup {d} \in SUBSET Docs
      BY <2>3
    <3>3. Durable \subseteq Durable'
      BY <2>1, <2>2, <3>1, <3>2
    <3> QED
      BY <2>6, <3>3 DEF AppendNew, Grows
  <2>7. ASSUME NEW d \in deployment.docs, AppendFails(p, d) PROVE Grows
    BY <2>1, <2>7 DEF AppendFails, WriteFails, Grows
  <2>8. CASE FeedEnds(p)
    BY <2>1, <2>8 DEF FeedEnds, Grows
  <2>9. CASE Flush(p)
    <3>1. Durable \subseteq Durable'
      BY <2>2, <2>3, <2>9 DEF Flush
    <3> QED
      BY <2>9, <3>1 DEF Flush, Grows
  <2>10. CASE Reconcile(p) \/ Select(p) \/ OpeningDone(p) \/ NextRow(p) \/ BatchDone(p)
    BY <2>1, <2>10 DEF Reconcile, Select, OpeningDone, NextRow, BatchDone, Grows
  <2>11. CASE PublishS1(p) \/ AckS1(p) \/ PublishS2(p) \/ AckS2(p) \/ Deliver(p)
    BY <2>1, <2>11 DEF PublishS1, AckS1, PublishS2, AckS2, Deliver, Grows
  <2>12. CASE Ending(p)
    BY <2>1, <2>12 DEF Ending, FeedRaises, FlushFails, Finish, CapReached, PublishFails,
       AppendRaises, WriteFails, Grows
  <2>13. CASE Crash(p)
    BY <2>1, <2>13 DEF Crash, Grows
  <2> QED
    BY <2>4, <2>5, <2>6, <2>7, <2>8, <2>9, <2>10, <2>11, <2>12, <2>13
       DEF StepOf, Collect, Publish, Faulty, Ending
<1>2. ASSUME NEW q \in Procs \ {p} PROVE SameIn(q)
  <2> USE DEF SameIn, TypeOK
  <2>1. CASE Begin(p)
    BY <2>1 DEF Begin
  <2>2. ASSUME NEW d \in deployment.docs, AppendKnown(p, d) PROVE SameIn(q)
    BY <2>2 DEF AppendKnown
  <2>3. ASSUME NEW d \in deployment.docs, AppendNew(p, d) PROVE SameIn(q)
    BY <2>3 DEF AppendNew
  <2>4. ASSUME NEW d \in deployment.docs, AppendFails(p, d) PROVE SameIn(q)
    BY <2>4 DEF AppendFails, WriteFails
  <2>5. CASE FeedEnds(p) \/ Flush(p)
    BY <2>5 DEF FeedEnds, Flush
  <2>6. CASE Reconcile(p) \/ Select(p) \/ OpeningDone(p)
    BY <2>6 DEF Reconcile, Select, OpeningDone
  <2>7. CASE NextRow(p) \/ BatchDone(p)
    BY <2>7 DEF NextRow, BatchDone
  <2>8. CASE PublishS1(p) \/ AckS1(p) \/ PublishS2(p) \/ AckS2(p) \/ Deliver(p)
    BY <2>8 DEF PublishS1, AckS1, PublishS2, AckS2, Deliver
  <2>9. CASE Ending(p)
    <3> HIDE DEF TypeOK, SameIn
    <3> QED
      BY <2>9, EndingLeaves DEF Left
  <2>10. CASE Crash(p)
    BY <2>10 DEF Crash
  <2> QED
    BY <2>1, <2>2, <2>3, <2>4, <2>5, <2>6, <2>7, <2>8, <2>9, <2>10
       DEF StepOf, Collect, Publish, Faulty, Ending
<1> QED
  BY <1>1, <1>2
-------------------------------------------------------------------------------
(* What a drain relies on, of one process.                                 *)
DrainOf(q) ==
    /\ batch[q] \subseteq recorded
    /\ batch[q] \ s1_due[q] \subseteq s1_acked
    /\ pc[q] \in {"s1", "s1_ack", "s2", "s2_ack", "deliver"} => row[q] \in recorded
    /\ pc[q] = "s1_ack" => row[q] \in s1_published
    /\ pc[q] = "s2" => row[q] \in s1_acked
    /\ pc[q] = "s2_ack" => row[q] \in s2_published

(* The clauses about drains, process by process.                           *)
LEMMA DrainOfEach == BatchIsRecorded /\ RowAtHand <=> \A q \in Procs : DrainOf(q)
  BY DEF BatchIsRecorded, RowAtHand, DrainOf

(* Each step of a drain finds the flags its row had, or more of them.      *)
LEMMA NextDrain ==
    ASSUME IInv, NEW p \in Procs, StepOf(p)
    PROVE  DrainOf(p)'
<1> USE DEF raw_events, topics, store, run, drain
<1>1. TypeOK /\ DrainOf(p)
  BY DrainOfEach DEF IInv, FlagsAreHonest
<1>2. CASE Begin(p)
  BY <1>1, <1>2 DEF Begin, DrainOf, TypeOK
<1>3. ASSUME NEW d \in deployment.docs, AppendKnown(p, d) \/ AppendNew(p, d) PROVE DrainOf(p)'
  BY <1>1, <1>3 DEF AppendKnown, AppendNew, DrainOf
<1>4. ASSUME NEW d \in deployment.docs, AppendFails(p, d) PROVE DrainOf(p)'
  BY <1>1, <1>4 DEF AppendFails, WriteFails, DrainOf
<1>5. CASE FeedEnds(p) \/ Flush(p) \/ OpeningDone(p)
  BY <1>1, <1>5 DEF FeedEnds, Flush, OpeningDone, DrainOf, TypeOK
<1>6. CASE Reconcile(p)
  BY <1>1, <1>6 DEF Reconcile, DrainOf, TypeOK
<1>7. CASE Select(p)
  BY <1>1, <1>7 DEF Select, Selections, Pending, DrainOf, TypeOK
<1>8. CASE NextRow(p)
  BY <1>1, <1>8 DEF NextRow, DrainOf, TypeOK
<1>9. CASE BatchDone(p)
  BY <1>1, <1>9 DEF BatchDone, DrainOf, TypeOK
<1>10. CASE PublishS1(p) \/ AckS1(p)
  BY <1>1, <1>10 DEF PublishS1, AckS1, DrainOf, TypeOK
<1>11. CASE PublishS2(p) \/ AckS2(p)
  BY <1>1, <1>11 DEF PublishS2, AckS2, DrainOf, TypeOK
<1>12. CASE Deliver(p)
  BY <1>1, <1>12 DEF Deliver, DrainOf, TypeOK
<1>13. CASE Ending(p)
  <2>1. batch'[p] = {} /\ pc'[p] = "idle"
    BY <1>1, <1>13, EndingLeaves DEF Left
  <2> QED
    BY <2>1 DEF DrainOf
<1>14. CASE Crash(p)
  BY <1>1, <1>14 DEF Crash, DrainOf, TypeOK
<1> QED
  BY <1>2, <1>3, <1>4, <1>5, <1>6, <1>7, <1>8, <1>9, <1>10, <1>11, <1>12, <1>13, <1>14
     DEF StepOf, Collect, Publish, Faulty, Ending

(* A flag is set only behind what it says.                                 *)
FlagsOrdered ==
    /\ s1_acked \subseteq s1_published
    /\ s2_acked \subseteq s2_published
    /\ s2_published \subseteq s1_acked
    /\ delivered \subseteq s1_acked \cap s2_acked

(* Each step keeps that order.                                             *)
LEMMA NextFlags ==
    ASSUME IInv, NEW p \in Procs, StepOf(p)
    PROVE  FlagsOrdered'
<1> USE DEF raw_events, topics, store, run, drain
<1>1. TypeOK /\ FlagsOrdered /\ DrainOf(p)
  BY DrainOfEach DEF IInv, FlagsAreHonest, FlagsOrdered
<1>2. ASSUME UNCHANGED <<s1_acked, s2_acked, delivered, s1_published, s2_published>>
      PROVE  FlagsOrdered'
  BY <1>1, <1>2 DEF FlagsOrdered
<1>3. CASE PublishS1(p) \/ AckS1(p)
  BY <1>1, <1>3 DEF PublishS1, AckS1, FlagsOrdered, DrainOf
<1>4. CASE PublishS2(p) \/ AckS2(p)
  BY <1>1, <1>4 DEF PublishS2, AckS2, FlagsOrdered, DrainOf
<1>5. CASE Deliver(p)
  BY <1>1, <1>5 DEF Deliver, FlagsOrdered
<1>6. CASE PublishFails(p)
  BY <1>1, <1>6 DEF PublishFails, FlagsOrdered, DrainOf
<1> QED
  BY <1>2, <1>3, <1>4, <1>5, <1>6 DEF StepOf, Begin, Collect, FeedEnds, Flush, AppendKnown,
     AppendNew, Publish, Reconcile, Select, OpeningDone, Finish, CapReached, NextRow,
     BatchDone, Faulty, FeedRaises, FlushFails, Crash, AppendFails, AppendRaises, WriteFails
-------------------------------------------------------------------------------
(* Where the rows of a process are.                                        *)
StoreOf(q) ==
    /\ deployment.minio => known[q] \subseteq Records(q)
    /\ q \notin deployment.resident /\ pc[q] \notin {"collect", "flush"} => buffer[q] = {}
    /\ pc[q] = "collect" => phase[q] = "opening"
    /\ deployment.minio =>
         /\ saved[q] \subseteq Records(q)
         /\ phase[q] = "closing" /\ pc[q] # "flush" => saved[q] \subseteq Durable
         /\ phase[q] = "closing" /\ pc[q] \notin {"flush", "reconcile"}
              => saved[q] \subseteq recorded

(* The clauses about stores, process by process.                           *)
LEMMA StoreOfEach ==
    KnownIsStored /\ BufferIsOfTheRun /\ SavedIsKept <=> \A q \in Procs : StoreOf(q)
  BY DEF KnownIsStored, BufferIsOfTheRun, SavedIsKept, StoreOf

(* Rows leave a buffer for a shard, or with the store object.              *)
LEMMA NextStore ==
    ASSUME IInv, NEW p \in Procs, StepOf(p)
    PROVE  StoreOf(p)'
<1> USE DEF raw_events, topics, store, run, drain
<1>1. /\ TypeOK /\ StoreOf(p) /\ Grows
      /\ deployment' = deployment
      /\ IndexOnce(p) \subseteq IF indexed[p] THEN known[p] ELSE Durable
  BY StoreOfEach, StepOfOne DEF IInv, FlagsAreHonest, IndexOnce, StepOf
<1>2. deployment.minio => IndexOnce(p) \subseteq Records(p)
  BY <1>1 DEF StoreOf, Records
<1>3. shards' = shards => Durable' = Durable
  BY DEF Durable
<1>4. \A rows \in SUBSET Docs : shards' = WithShard(rows) => Durable' = Durable \cup rows
  BY <1>1, ShardIsDurable DEF TypeOK
<1>5. buffer[p] \in SUBSET Docs /\ deployment.docs \in SUBSET Docs
  BY <1>1 DEF TypeOK, Deployment
<1>6. ASSUME UNCHANGED <<shards, store, saved>>, phase'[p] = phase[p],
             pc[p] # "collect" \/ phase'[p] = "opening",
             pc'[p] = "collect" => phase'[p] = "opening",
             pc[p] \notin {"collect", "flush"},
             pc'[p] \notin {"flush", "reconcile"},
             pc[p] = "reconcile" => saved[p] \cap Durable \subseteq recorded'
      PROVE  StoreOf(p)'
  BY <1>1, <1>3, <1>6 DEF StoreOf, Records, Grows
<1>7. CASE Begin(p)
  BY <1>1, <1>3, <1>7 DEF Begin, StoreOf, Records, TypeOK
<1>8. ASSUME NEW d \in deployment.docs, AppendKnown(p, d) PROVE StoreOf(p)'
  BY <1>1, <1>2, <1>3, <1>8 DEF AppendKnown, StoreOf, Records, TypeOK
<1>9. ASSUME NEW d \in deployment.docs, AppendNew(p, d) PROVE StoreOf(p)'
  <2>1. buffer[p] \cup {d} \in SUBSET Docs
    BY <1>5
  <2>2. Records(p)' = Records(p) \cup {d}
    <3>1. CASE Cardinality(buffer[p] \cup {d}) >= ShardSize
      BY <1>1, <1>4, <1>9, <2>1, <3>1 DEF AppendNew, Records, TypeOK
    <3>2. CASE ~(Cardinality(buffer[p] \cup {d}) >= ShardSize)
      BY <1>1, <1>3, <1>9, <3>2 DEF AppendNew, Records, TypeOK
    <3> QED
      BY <3>1, <3>2
  <2>3. /\ known'[p] = IndexOnce(p) \cup {d}
        /\ saved'[p] = saved[p] \cup {d}
        /\ pc[p] = "collect" /\ pc'[p] = "collect" /\ phase'[p] = phase[p]
    BY <1>1, <1>9 DEF AppendNew, TypeOK
  <2> QED
    BY <1>1, <1>2, <2>2, <2>3 DEF StoreOf
<1>10. ASSUME NEW d \in deployment.docs, AppendFails(p, d) PROVE StoreOf(p)'
  BY <1>1, <1>2, <1>3, <1>10 DEF AppendFails, WriteFails, BufferAfterFailedWrite, StoreOf,
     Records, TypeOK
<1>11. CASE FeedEnds(p)
  BY <1>1, <1>3, <1>11 DEF FeedEnds, StoreOf, Records, TypeOK
<1>12. CASE Flush(p)
  <2>1. Durable' = Durable \cup buffer[p]
    BY <1>4, <1>5, <1>12 DEF Flush
  <2>2. /\ buffer'[p] = {} /\ known'[p] = known[p] /\ saved'[p] = saved[p]
        /\ pc'[p] = "reconcile"
    BY <1>1, <1>12 DEF Flush, TypeOK
  <2> QED
    BY <1>1, <2>1, <2>2 DEF StoreOf, Records
<1>13. CASE Reconcile(p)
  <2>1. /\ UNCHANGED <<shards, store, saved>> /\ phase'[p] = phase[p]
        /\ pc[p] = "reconcile" /\ pc'[p] = "select"
        /\ recorded' = recorded \cup Records(p)
    BY <1>1, <1>13 DEF Reconcile, TypeOK
  <2> QED
    BY <1>6, <2>1 DEF Records
<1>14. CASE Select(p) \/ OpeningDone(p) \/ NextRow(p) \/ BatchDone(p)
  <2>1. /\ UNCHANGED <<shards, store, saved>> /\ phase'[p] = phase[p]
        /\ pc[p] \in {"select", "next_row"} /\ pc'[p] \notin {"flush", "reconcile"}
        /\ pc'[p] = "collect" => phase[p] = "opening"
    BY <1>1, <1>14 DEF Select, OpeningDone, NextRow, BatchDone, TypeOK
  <2> QED
    BY <1>6, <2>1
<1>15. CASE PublishS1(p) \/ AckS1(p) \/ PublishS2(p) \/ AckS2(p) \/ Deliver(p)
  <2>1. /\ UNCHANGED <<shards, store, saved>> /\ phase'[p] = phase[p]
        /\ pc[p] \in {"s1", "s1_ack", "s2", "s2_ack", "deliver"}
        /\ pc'[p] \in {"s1_ack", "s2", "s2_ack", "deliver", "next_row"}
    BY <1>1, <1>15 DEF PublishS1, AckS1, PublishS2, AckS2, Deliver, TypeOK
  <2> QED
    BY <1>6, <2>1
<1>16. CASE Ending(p)
  <2> PICK rows \in SUBSET Docs, ids \in SUBSET Docs : Left(p, rows, ids) /\ EndsWith(p, rows, ids)
    BY <1>1, <1>16, EndingLeaves
  <2>1. deployment.minio => ids \subseteq Durable \cup rows
    BY <1>1, <1>2 DEF EndsWith, StoreOf, Records
  <2> QED
    BY <1>1, <2>1 DEF Left, StoreOf, Records, Grows
<1>17. CASE Crash(p)
  BY <1>1, <1>17 DEF Crash, StoreOf, Records, TypeOK
<1> QED
  BY <1>7, <1>8, <1>9, <1>10, <1>11, <1>12, <1>13, <1>14, <1>15, <1>16, <1>17
     DEF StepOf, Collect, Publish, Faulty, Ending

(* Only a reconcile records rows, and it finds none that is not durable.   *)
LEMMA NextRecorded ==
    ASSUME IInv, NEW p \in Procs, StepOf(p)
    PROVE  RecordedIsDurable'
<1> USE DEF raw_events, topics, store, run, drain
<1>1. /\ TypeOK /\ StoreOf(p) /\ Grows /\ RecordedIsDurable
      /\ deployment' = deployment
  BY StoreOfEach, StepOfOne DEF IInv, FlagsAreHonest, StepOf
<1>2. ASSUME deployment.resident = {}, pc[p] = "reconcile" PROVE Records(p) = Durable
  BY <1>1, <1>2 DEF StoreOf, Records
<1>3. ASSUME recorded' = recorded PROVE RecordedIsDurable'
  BY <1>1, <1>3 DEF RecordedIsDurable, Grows
<1>4. CASE Reconcile(p)
  BY <1>1, <1>2, <1>4 DEF Reconcile, RecordedIsDurable, Grows
<1>5. CASE Crash(p)
  BY <1>1, <1>2, <1>3, <1>5 DEF Crash, RecordedIsDurable, Grows
<1> QED
  BY <1>3, <1>4, <1>5 DEF StepOf, Begin, Collect, FeedEnds, Flush, AppendKnown, AppendNew,
     Publish, Select, OpeningDone, Finish, CapReached, NextRow, BatchDone, PublishS1, AckS1,
     PublishS2, AckS2, Deliver, Faulty, FeedRaises, FlushFails, PublishFails, AppendFails,
     AppendRaises, WriteFails
-------------------------------------------------------------------------------
(* The invariant at the beginning.                                         *)
LEMMA InitIInv == Init => IInv
<1> SUFFICES ASSUME Init PROVE IInv
  OBVIOUS
<1>1. TypeOK
  <2>1. deployment \in Deployment /\ capped \in BOOLEAN /\ faults \in Nat
    BY CollectionAssumption DEF Init
  <2>2. shards \in [Docs -> Nat]
    BY DEF Init
  <2>3. ProcessTypeOK
    BY DEF Init, ProcessTypeOK, Pcs
  <2>4. /\ recorded = {} /\ s1_acked = {} /\ s2_acked = {} /\ delivered = {}
        /\ s1_published = {} /\ s2_published = {}
    BY DEF Init
  <2> QED
    BY <2>1, <2>2, <2>3, <2>4, TypeHasParts
<1>2. \A p \in Procs : pc[p] = "idle" /\ phase[p] = "opening" /\ batch[p] = {}
                       /\ buffer[p] = {} /\ known[p] = {} /\ saved[p] = {}
  BY DEF Init
<1>3. \A p \in Procs : DrainOf(p) /\ StoreOf(p)
  BY <1>2 DEF DrainOf, StoreOf
<1>4. FlagsAreHonest
  BY <1>1 DEF Init, FlagsAreHonest
<1>5. RecordedIsDurable
  BY DEF Init, RecordedIsDurable
<1> QED
  BY <1>3, <1>4, <1>5, DrainOfEach, StoreOfEach DEF IInv

(* Every step is the step of one process.                                  *)
LEMMA StepOfNext == Next => \E p \in Procs : StepOf(p)
  BY DEF Next, Step, StepOf

(* Every step keeps the invariant.                                         *)
LEMMA NextIInv == IInv /\ [Next]_vars => IInv'
<1> SUFFICES ASSUME IInv, [Next]_vars PROVE IInv'
  OBVIOUS
<1>1. ASSUME NEW p \in Procs, StepOf(p) PROVE IInv'
  <2>1. TypeOK /\ RowAtHand
    BY DEF IInv, FlagsAreHonest
  <2>2. TypeOK'
    BY <1>1, <2>1, NextTypeOK DEF StepOf
  <2>3. Grows /\ \A q \in Procs \ {p} : SameIn(q)
    BY <1>1, <2>1, StepOfOne
  <2>4. ASSUME NEW q \in Procs PROVE DrainOf(q)' /\ StoreOf(q)'
    <3>1. CASE q = p
      BY <1>1, <3>1, NextDrain, NextStore
    <3>2. CASE q # p
      <4>1. DrainOf(q) /\ StoreOf(q)
        BY DrainOfEach, StoreOfEach DEF IInv
      <4>2. SameIn(q) /\ deployment' = deployment
        BY <1>1, <2>3, <3>2 DEF StepOf
      <4> QED
        BY <2>3, <4>1, <4>2 DEF DrainOf, StoreOf, Records, SameIn, Grows
    <3> QED
      BY <3>1, <3>2
  <2>5. FlagsAreHonest'
    BY <1>1, <2>2, NextFlags DEF FlagsAreHonest, FlagsOrdered
  <2>6. RecordedIsDurable'
    BY <1>1, NextRecorded
  <2> QED
    BY <2>4, <2>5, <2>6 DEF IInv, BatchIsRecorded, RowAtHand, DrainOf, KnownIsStored,
       BufferIsOfTheRun, SavedIsKept, StoreOf
<1>2. CASE UNCHANGED vars
  BY <1>2 DEF vars, raw_events, topics, store, run, drain, IInv, FlagsAreHonest, TypeOK,
     BatchIsRecorded, RowAtHand, KnownIsStored, BufferIsOfTheRun, RecordedIsDurable,
     SavedIsKept, Records, Durable
<1> QED
  BY <1>1, <1>2, StepOfNext

(* The inductive invariant holds in every reachable state.                 *)
THEOREM CollectionInvariance == Spec => []IInv
  BY InitIInv, NextIInv, PTL DEF Spec

(* Types, and: the outbox never claims more than the broker acknowledged,  *)
(* and the S2 event of a row never precedes the record of its S1 event,    *)
(* however many processes drain it and whatever fails between two steps.   *)
THEOREM FlagHonesty == Spec => []FlagsAreHonest
<1>1. IInv => FlagsAreHonest
  BY DEF IInv
<1> QED
  BY <1>1, CollectionInvariance, PTL

(* A MinIO store never answers "already collected" for a document that     *)
(* neither an object nor its own buffer holds.                             *)
THEOREM KnownDocumentsAreStored == Spec => []KnownIsStored
<1>1. IInv => KnownIsStored
  BY DEF IInv
<1> QED
  BY <1>1, CollectionInvariance, PTL

(* A MinIO run that ends without interruption has stored and announced     *)
(* every document it counted as saved.                                     *)
THEOREM FinishedRuns == Spec => FinishedRunIsPublished
<1> DEFINE Whole == \A p \in Procs :
                       deployment.minio /\ (Finish(p) \/ CapReached(p))
                         => saved[p] \subseteq Durable \cap s2_published
<1>1. IInv /\ [Next]_vars => [Whole]_vars
  <2> SUFFICES ASSUME IInv, NEW p \in Procs, deployment.minio, Finish(p) \/ CapReached(p)
               PROVE  saved[p] \subseteq Durable \cap s2_published
    OBVIOUS
  <2>1. pc[p] = "select" /\ phase[p] = "closing" /\ recorded \subseteq delivered
    BY DEF Finish, CapReached, Pending
  <2>2. saved[p] \subseteq Durable \cap recorded
    BY <2>1 DEF IInv, SavedIsKept
  <2>3. delivered \subseteq s2_published
    BY DEF IInv, FlagsAreHonest
  <2> QED
    BY <2>1, <2>2, <2>3
<1> QED
  BY <1>1, CollectionInvariance, PTL DEF Spec, FinishedRunIsPublished

-------------------------------------------------------------------------------
(* The refinement: a written shard, an S1 event and an S2 event are the    *)
(* steps of the feed, every other step of a process stutters.              *)

(* The collection begins where the feed begins: nothing stored or          *)
(* delivered.                                                              *)
LEMMA InitImplementsFeed == Init => Feed!FeedInit
  BY DEF Init, Feed!FeedInit, Durable

(* Each step of a collector, a drain or a crash is a step of the feed, or  *)
(* none.                                                                   *)
LEMMA NextImplementsFeed == IInv /\ [Next]_vars => [Feed!FeedNext]_Feed!feed
<1> SUFFICES ASSUME IInv, [Next]_vars PROVE [Feed!FeedNext]_Feed!feed
  OBVIOUS
<1> DEFINE Stored == IF deployment.resident = {} THEN Durable ELSE Docs
<1>1. ASSUME NEW p \in Procs, StepOf(p) PROVE [Feed!FeedNext]_Feed!feed
  <2> USE DEF raw_events, topics, store, run, drain
  <2>1. /\ TypeOK /\ DrainOf(p) /\ Grows /\ RecordedIsDurable /\ FlagsAreHonest
        /\ deployment' = deployment
    BY <1>1, DrainOfEach, StepOfOne DEF IInv, FlagsAreHonest, StepOf
  <2>2. recorded \subseteq Stored /\ recorded \subseteq Docs
    BY <2>1 DEF RecordedIsDurable, TypeOK
  <2>3. ASSUME UNCHANGED <<s1_published, s2_published>> PROVE Feed!StoreShard
    <3>1. Stored' = Stored \cup Stored' /\ Stored' \in SUBSET Docs
      BY <2>1 DEF Grows, Durable
    <3> QED
      BY <2>3, <3>1 DEF Feed!StoreShard
  <2>4. ASSUME UNCHANGED <<shards, s2_published>>, pc[p] = "s1",
               s1_published' = s1_published \cup {row[p]}
        PROVE  Feed!AnnounceFetched
    <3>1. row[p] \in Stored /\ Stored' = Stored
      BY <2>1, <2>2, <2>4 DEF DrainOf, Durable
    <3> QED
      BY <2>4, <3>1 DEF Feed!AnnounceFetched
  <2>5. ASSUME UNCHANGED <<shards, s1_published>>, pc[p] = "s2",
               s2_published' = s2_published \cup {row[p]}
        PROVE  Feed!AnnounceStored
    <3>1. row[p] \in s1_published /\ Stored' = Stored
      BY <2>1, <2>5 DEF DrainOf, FlagsAreHonest, Durable
    <3> QED
      BY <2>5, <3>1 DEF Feed!AnnounceStored
  <2>6. \/ UNCHANGED <<s1_published, s2_published>>
        \/ /\ UNCHANGED <<shards, s2_published>> /\ pc[p] = "s1"
           /\ s1_published' = s1_published \cup {row[p]}
        \/ /\ UNCHANGED <<shards, s1_published>> /\ pc[p] = "s2"
           /\ s2_published' = s2_published \cup {row[p]}
    BY <1>1 DEF StepOf, Begin, Collect, FeedEnds, Flush, AppendKnown, AppendNew, Publish,
       Reconcile, Select, OpeningDone, Finish, CapReached, NextRow, BatchDone, PublishS1,
       AckS1, PublishS2, AckS2, Deliver, Faulty, FeedRaises, FlushFails, PublishFails, Crash,
       AppendFails, AppendRaises, WriteFails
  <2> QED
    BY <2>3, <2>4, <2>5, <2>6 DEF Feed!FeedNext
<1>2. CASE UNCHANGED vars
  BY <1>2 DEF vars, topics, Feed!feed, Durable
<1> QED
  BY <1>1, <1>2, StepOfNext

(* Collection implements the feed its consumers rely on: the raw zone only *)
(* grows, and an S1 or S2 event follows, in that order, the storage of the *)
(* document it names.                                                      *)
THEOREM FeedRefinement == Spec => ImplementsFeed
  BY InitImplementsFeed, NextImplementsFeed, CollectionInvariance, PTL
     DEF Spec, ImplementsFeed, Feed!FeedSpec

-------------------------------------------------------------------------------
(* CollectionControl.                                                      *)

RunOf(w) == state[w].run

(* No request but that of t is under way.                                  *)
Alone(t) == \A u \in Threads \ {t} : at[u] = "idle"

(* A step that is not taken by another thread than t.                      *)
StepWith(t) == Restart \/ Trigger(t) \/ \E r \in Runs : Runner(r)

Ended == {"succeeded", "failed"}

(* Contents that report the end of a run report the end it had.            *)
Honest(contents) == contents.status \in Ended => outcome[contents.run] = contents.status

(* A file is open only between an open and its write.                      *)
OpenWhileWriting == \A w \in Writers : (handle[w] # "closed") <=> (at[w] = "write")

(* The thread reports on the latest run, first that it is queued, then     *)
(* that it is running.                                                     *)
ThreadInTurn(t) ==
    /\ at[t] \in {"idle", "open", "write", "replace", "spawn"}
    /\ at[t] # "idle" =>
         /\ triggered > 0
         /\ RunOf(t) = triggered
         /\ state[t].status \in {"queued", "running"}
    /\ at[t] = "spawn" => state[t].status = "queued"

Accepting(t) == at[t] # "idle" /\ state[t].status = "queued"

(* Until the runner is spawned nobody else opens a file: what the thread   *)
(* wrote is in the temporary file, or renamed by a runner that lingers.    *)
AcceptingAlone(t) ==
    Accepting(t) =>
        /\ at[triggered] = "idle"
        /\ \A r \in Runs : handle[r] # "temporary"
        /\ at[t] = "write" =>
             temporary = IF handle[t] = "temporary" THEN Empty ELSE Absent
        /\ at[t] = "replace" => temporary \in {Absent, state[t]}
        /\ at[t] = "spawn" =>
             /\ temporary = Absent
             /\ file = state[t]
             /\ \A r \in Runs : handle[r] # "file"

(* A runner of the latest run only collects; its state is its own run's,   *)
(* and from the end of the collection on it carries the outcome.           *)
RunnerInTurn(r) ==
    /\ at[r] \in Places \ {"spawn"}
    /\ r > triggered => at[r] = "idle"
    /\ at[r] \in {"idle", "start", "collect"} => outcome[r] = "none"
    /\ at[r] = "collect" => RunOf(r) = r
    /\ at[r] \in {"open", "write", "replace"} =>
         state[r] = [run |-> r, status |-> outcome[r]] /\ outcome[r] \in Ended

(* The file says that run r is queued or running, or the thread is about   *)
(* to write that to the file, which a lingering runner renamed too early.  *)
OnFile(t, r) ==
    IF handle[t] = "file" THEN file = Empty ELSE file.run = r /\ Busy(file)

(* Until a runner opens a file itself, only the thread does.               *)
CollectingAlone(t, r) ==
    at[r] \in {"start", "collect", "open"} =>
        /\ r = triggered
        /\ ~Accepting(t)
        /\ \A o \in Runs : handle[o] \notin {"temporary", "file"}
        /\ OnFile(t, r)
        /\ temporary = IF handle[t] = "temporary" THEN Empty
                       ELSE IF at[t] = "replace" /\ temporary # Absent THEN state[t] ELSE Absent

(* A runner holds the temporary file until somebody renames it.            *)
ReportingAlone(t, r) ==
    handle[r] = "temporary" =>
        /\ r = triggered
        /\ ~Accepting(t)
        /\ \A o \in Runs \ {r} : handle[o] \notin {"temporary", "file"}
        /\ OnFile(t, r)

(* Whoever holds a file open finds nothing in it of another run.           *)
HeldFiles ==
    /\ \A w \in Writers :
         /\ handle[w] = "temporary" => temporary.run \in {0, triggered}
         /\ handle[w] = "file" =>
              /\ file.run \in {0, RunOf(w)}
              /\ temporary.run # 0 => RunOf(w) <= temporary.run
    /\ \A v, w \in Writers :
         handle[v] = "file" /\ handle[w] = "file" => RunOf(v) = RunOf(w)

(* What is renamed next is never of an earlier run than what is on file.   *)
RunsInOrder ==
    /\ file.run <= triggered
    /\ temporary.run <= triggered
    /\ file.run # 0 /\ temporary.run # 0 => file.run <= temporary.run

(* Whoever is past its first step has read or made up a state.             *)
HaveStates ==
    \A w \in Writers :
        at[w] \in {"spawn", "collect", "open", "write", "replace"} => state[w] \in State

(* What holds while no request but that of t is under way.                 *)
ControlIInv(t) ==
    /\ ControlTypeOK
    /\ HaveStates
    /\ Alone(t)
    /\ Honest(file) /\ Honest(temporary)
    /\ OpenWhileWriting
    /\ HeldFiles
    /\ RunsInOrder
    /\ ThreadInTurn(t) /\ AcceptingAlone(t)
    /\ \A r \in Runs : RunnerInTurn(r) /\ CollectingAlone(t, r) /\ ReportingAlone(t, r)

ControlInv ==
    /\ ControlTypeOK
    /\ HaveStates
    /\ ~overlapped => \E t \in Threads : ControlIInv(t)

-------------------------------------------------------------------------------
(* Contents of the two files.                                              *)

(* What the state file can hold: a state of a run, or nothing readable.    *)
LEMMA ContentsAre ==
    ASSUME NEW c \in Contents
    PROVE  /\ c.run \in Nat
           /\ c.run # 0 => c \in State /\ c.run \in Runs
           /\ c.run = 0 => ~Busy(c) /\ c.status \notin Ended /\ c \notin State
           /\ c \in State => c.run # 0
  BY ControlAssumption DEF Contents, State, Status, Absent, Empty, Garbled, NoRun, Runs, Busy, Ended

(* An absent, an empty and a cut file are of no run.                       *)
LEMMA NoRunAtAll ==
    /\ Absent \in Contents /\ Absent.run = 0 /\ Absent.status = "absent"
    /\ Empty \in Contents /\ Empty.run = 0 /\ Empty.status = "empty"
    /\ Garbled \in Contents /\ Garbled.run = 0 /\ Garbled.status = "garbled"
    /\ Absent # Empty
  BY DEF Contents, Absent, Empty, Garbled, NoRun

(* Threads and runners are different writers, whose numbers of runs count. *)
LEMMA WritersAre ==
    ASSUME NEW t \in Threads
    PROVE  /\ Writers = Threads \cup Runs
           /\ t \notin Runs
           /\ \A r \in Runs : r \in Nat /\ r > 0
           /\ MaxRuns \in Nat
  BY ControlAssumption DEF Writers, Runs

(* A write leaves what the file can hold.                                  *)
LEMMA WrittenAre ==
    ASSUME ControlTypeOK, NEW w \in Writers, NEW c \in Contents
    PROVE  Written(c, w) \subseteq Contents
  BY NoRunAtAll DEF ControlTypeOK, Written, Contents

(* Types, step by step.                                                    *)
LEMMA NextControlTypeOK ==
    ASSUME ControlTypeOK, HaveStates, [ControlNext]_controlVars
    PROVE  ControlTypeOK'
<1> USE DEF files, writers
<1>1. CASE UNCHANGED controlVars
  BY <1>1 DEF ControlTypeOK, controlVars
<1>2. CASE Restart
  BY <1>2, ControlAssumption DEF Restart, ControlFault, ControlTypeOK, Places, Handles
<1>3. ASSUME NEW w \in Writers, WriteStatus(w) PROVE ControlTypeOK'
  <2>1. CASE Open(w)
    BY <2>1, NoRunAtAll DEF Open, ControlTypeOK, Places, Handles
  <2>2. CASE Write(w)
    <3>1. file' \in Contents /\ temporary' \in Contents
      BY <2>2, WrittenAre DEF Write, ControlTypeOK
    <3> QED
      BY <2>2, <3>1 DEF Write, ControlTypeOK, Places, Handles
  <2>3. CASE Replace(w)
    <3>1. \A h \in Handles : Renamed(h) \in Handles
      BY DEF Handles, Renamed
    <3>2. handle' \in [Writers -> Handles]
      BY <2>3, <3>1 DEF Replace, ControlTypeOK
    <3> QED
      BY <2>3, <3>2, NoRunAtAll DEF Replace, ControlTypeOK, Places, AfterWrite
  <2>4. CASE ReplaceFails(w)
    BY <2>4 DEF ReplaceFails, ControlTypeOK, Places
  <2> QED
    BY <1>3, <2>1, <2>2, <2>3, <2>4 DEF WriteStatus
<1>4. ASSUME NEW t \in Threads, Accept(t) PROVE ControlTypeOK'
  <2>1. t \in Writers /\ [run |-> triggered + 1, status |-> "queued"] \in State
    BY <1>4, ControlAssumption DEF Accept, ControlTypeOK, Writers, State, Runs, Status
  <2> QED
    BY <1>4, <2>1, ControlAssumption DEF Accept, ControlTypeOK, Places
<1>5. ASSUME NEW t \in Threads, Spawn(t) PROVE ControlTypeOK'
  <2>1. t \in Writers /\ "running" \in Status /\ state[t] \in State
    BY <1>5 DEF Writers, Status, Spawn, HaveStates
  <2> QED
    BY <1>5, <2>1 DEF Spawn, ControlTypeOK, Places, State
<1>6. ASSUME NEW t \in Threads, SpawnFails(t) PROVE ControlTypeOK'
  BY <1>6, ControlAssumption DEF SpawnFails, ControlFault, ControlTypeOK, Places, Writers
<1>7. ASSUME NEW r \in Runs, ReadState(r) \/ ReadFails(r) PROVE ControlTypeOK'
  BY <1>7 DEF ReadState, ReadFails, ControlTypeOK, Places, Writers
<1>8. ASSUME NEW r \in Runs, NEW status \in Ended, Collected(r, status) PROVE ControlTypeOK'
  <2>1. r \in Writers /\ status \in Status /\ state[r] \in State
    BY <1>8 DEF Writers, Status, Ended, Collected, HaveStates
  <2> QED
    BY <1>8, <2>1 DEF Collected, ControlTypeOK, Places, State, Ended
<1>9. ASSUME NEW r \in Runs, Kill(r) PROVE ControlTypeOK'
  BY <1>9, ControlAssumption DEF Kill, ControlFault, ControlTypeOK, Places, Handles, Writers
<1> QED
  BY <1>1, <1>2, <1>3, <1>4, <1>5, <1>6, <1>7, <1>8, <1>9
     DEF ControlNext, Trigger, Runner, Writers, Ended
(* Whoever is past its first step has a state.                             *)
LEMMA NextHaveStates ==
    ASSUME ControlTypeOK, HaveStates, [ControlNext]_controlVars
    PROVE  HaveStates'
<1> USE DEF files, writers, HaveStates, ControlTypeOK
<1>1. CASE UNCHANGED controlVars
  BY <1>1 DEF controlVars
<1>2. CASE Restart
  BY <1>2 DEF Restart
<1>3. ASSUME NEW w \in Writers, WriteStatus(w) PROVE HaveStates'
  <2>1. CASE Open(w)
    BY <2>1 DEF Open
  <2>2. CASE Write(w)
    BY <2>2 DEF Write
  <2>3. CASE Replace(w)
    BY <2>3 DEF Replace, AfterWrite
  <2>4. CASE ReplaceFails(w)
    BY <2>4 DEF ReplaceFails
  <2> QED
    BY <1>3, <2>1, <2>2, <2>3, <2>4 DEF WriteStatus
<1>4. ASSUME NEW t \in Threads, Accept(t) PROVE HaveStates'
  <2>1. t \in Writers /\ [run |-> triggered + 1, status |-> "queued"] \in State
    BY <1>4, ControlAssumption DEF Accept, Writers, State, Runs, Status
  <2> QED
    BY <1>4, <2>1 DEF Accept
<1>5. ASSUME NEW t \in Threads, Spawn(t) PROVE HaveStates'
  <2>1. t \in Writers /\ "running" \in Status /\ state[t] \in State /\ state[t].run \in Writers
    BY <1>5 DEF Writers, Status, Spawn, State
  <2>2. t # state[t].run
    BY <2>1, ControlAssumption DEF Runs, State
  <2> QED
    BY <1>5, <2>1, <2>2 DEF Spawn, State
<1>6. ASSUME NEW t \in Threads, SpawnFails(t) PROVE HaveStates'
  BY <1>6 DEF SpawnFails
<1>7. ASSUME NEW r \in Runs, ReadState(r) \/ ReadFails(r) PROVE HaveStates'
  BY <1>7 DEF ReadState, ReadFails, Writers
<1>8. ASSUME NEW r \in Runs, NEW status \in Ended, Collected(r, status) PROVE HaveStates'
  <2>1. r \in Writers /\ status \in Status /\ state[r] \in State
    BY <1>8 DEF Writers, Status, Ended, Collected
  <2> QED
    BY <1>8, <2>1 DEF Collected, State
<1>9. ASSUME NEW r \in Runs, Kill(r) PROVE HaveStates'
  BY <1>9 DEF Kill, Writers
<1> QED
  BY <1>1, <1>2, <1>3, <1>4, <1>5, <1>6, <1>7, <1>8, <1>9
     DEF ControlNext, Trigger, Runner, Writers, Ended

(* A file is open exactly while its writer writes.                         *)
LEMMA NextOpenWhileWriting ==
    ASSUME NEW t \in Threads, ControlIInv(t), [StepWith(t)]_controlVars
    PROVE  OpenWhileWriting'
<1> USE WritersAre DEF files, writers, ControlIInv, OpenWhileWriting, ControlTypeOK
<1>1. CASE UNCHANGED controlVars
  BY <1>1 DEF controlVars
<1>2. CASE Restart
  BY <1>2 DEF Restart
<1>3. ASSUME NEW w \in Writers, WriteStatus(w) PROVE OpenWhileWriting'
  <2>1. CASE Open(w)
    BY <2>1 DEF Open
  <2>2. CASE Write(w)
    BY <2>2 DEF Write
  <2>3. CASE Replace(w)
    <3>1. \A h \in Handles : Renamed(h) = "closed" <=> h = "closed"
      BY DEF Handles, Renamed
    <3>2. \A o \in Writers : handle'[o] = "closed" <=> handle[o] = "closed"
      BY <2>3, <3>1 DEF Replace
    <3> QED
      BY <2>3, <3>2 DEF Replace, AfterWrite
  <2>4. CASE ReplaceFails(w)
    BY <2>4 DEF ReplaceFails
  <2> QED
    BY <1>3, <2>1, <2>2, <2>3, <2>4 DEF WriteStatus
<1>4. ASSUME Accept(t) PROVE OpenWhileWriting'
  BY <1>4 DEF Accept
<1>5. ASSUME Spawn(t) PROVE OpenWhileWriting'
  <2>1. RunOf(t) = triggered /\ at[triggered] = "idle"
    BY <1>5 DEF Spawn, ThreadInTurn, AcceptingAlone, Accepting
  <2> QED
    BY <1>5, <2>1 DEF Spawn, RunOf
<1>6. ASSUME SpawnFails(t) PROVE OpenWhileWriting'
  BY <1>6 DEF SpawnFails
<1>7. ASSUME NEW r \in Runs, ReadState(r) \/ ReadFails(r) PROVE OpenWhileWriting'
  BY <1>7 DEF ReadState, ReadFails
<1>8. ASSUME NEW r \in Runs, NEW status \in Ended, Collected(r, status) PROVE OpenWhileWriting'
  BY <1>8 DEF Collected
<1>9. ASSUME NEW r \in Runs, Kill(r) PROVE OpenWhileWriting'
  BY <1>9 DEF Kill
<1> QED
  BY <1>1, <1>2, <1>3, <1>4, <1>5, <1>6, <1>7, <1>8, <1>9
     DEF StepWith, Trigger, Runner, Ended

-------------------------------------------------------------------------------
(* Outcomes and what is written of them.                                   *)

(* The outcome of a run is decided once.                                   *)
LEMMA OutcomesStay ==
    ASSUME NEW t \in Threads, ControlIInv(t), [StepWith(t)]_controlVars, NEW r \in Runs, outcome[r] # "none"
    PROVE  outcome'[r] = outcome[r]
<1>1. at[r] \notin {"start", "collect"}
  BY DEF ControlIInv, RunnerInTurn
<1> QED
  BY <1>1 DEF ControlIInv, ControlTypeOK, StepWith, controlVars, files, writers, Restart,
       Trigger, Runner, WriteStatus,
     Open, Write, Replace, ReplaceFails, Accept, Spawn, SpawnFails, ReadState, ReadFails,
     Collected, Kill

(* The end a state reports stays the run's outcome.                        *)
LEMMA StillHonest ==
    ASSUME NEW t \in Threads, ControlIInv(t), [StepWith(t)]_controlVars, NEW c \in Contents, Honest(c)
    PROVE  c.status \in Ended => outcome'[c.run] = c.status
  BY OutcomesStay, ContentsAre DEF Honest, Ended

(* Nobody writes another end of a run than it had.                         *)
LEMMA StatesAreHonest ==
    ASSUME NEW t \in Threads, ControlIInv(t), NEW w \in Writers, at[w] = "write"
    PROVE  Honest(state[w]) /\ state[w] \in State
<1>1. CASE w = t
  <2>1. ThreadInTurn(t) /\ state[w] \in State
    BY DEF ControlIInv, HaveStates
  <2> QED
    BY <1>1, <2>1 DEF ThreadInTurn, Honest, Ended
<1>2. CASE w \in Runs
  <2>1. RunnerInTurn(w) /\ state[w] \in State
    BY <1>2 DEF ControlIInv, HaveStates
  <2> QED
    BY <2>1 DEF RunnerInTurn, Honest
<1> QED
  BY <1>1, <1>2, WritersAre DEF ControlIInv, Alone

(* What is written, to either file, reports a run's outcome or none.       *)
LEMMA NextHonest ==
    ASSUME NEW t \in Threads, ControlIInv(t), [StepWith(t)]_controlVars
    PROVE  Honest(file)' /\ Honest(temporary)'
<1> USE DEF ControlIInv
<1>1. CASE UNCHANGED files
  BY <1>1, StillHonest DEF Honest, files, ControlTypeOK
<1>2. ASSUME NEW w \in Writers, WriteStatus(w), ~UNCHANGED files
      PROVE  Honest(file)' /\ Honest(temporary)'
  <2>1. CASE Open(w)
    BY <2>1, StillHonest, NoRunAtAll DEF Honest, ControlTypeOK, Open, Ended
  <2>2. CASE Write(w)
    <3>1. at[w] = "write" /\ Honest(state[w]) /\ state[w] \in Contents
      BY <2>2, StatesAreHonest DEF Write, Contents
    <3>2. \A c \in Contents : \A d \in Written(c, w) :
             d \in Contents /\ (d.status \in Ended => outcome'[d.run] = d.status)
      BY <3>1, StillHonest, NoRunAtAll DEF Written, Ended
    <3> QED
      BY <2>2, <3>2, StillHonest DEF Write, ControlTypeOK, Honest
  <2>3. CASE Replace(w)
    BY <2>3, StillHonest, NoRunAtAll DEF Honest, ControlTypeOK, Replace, Ended
  <2>4. CASE ReplaceFails(w)
    BY <1>2, <2>4 DEF ReplaceFails
  <2> QED
    BY <1>2, <2>1, <2>2, <2>3, <2>4 DEF WriteStatus
<1> QED
  BY <1>1, <1>2, WritersAre DEF StepWith, controlVars, files, Restart, Trigger, Runner,
     Accept, Spawn, SpawnFails, ReadState, ReadFails, Collected, Kill

(* A runner is where its run is in its life.                               *)
LEMMA NextRunnerInTurn ==
    ASSUME NEW t \in Threads, ControlIInv(t), [StepWith(t)]_controlVars, NEW r \in Runs
    PROVE  RunnerInTurn(r)'
<1> USE WritersAre DEF files, writers, ControlIInv, RunnerInTurn, ControlTypeOK, RunOf
<1>1. CASE UNCHANGED controlVars
  BY <1>1 DEF controlVars
<1>2. CASE Restart
  BY <1>2, r \in Writers DEF Restart, Places
<1>3. ASSUME NEW w \in Writers, WriteStatus(w) PROVE RunnerInTurn(r)'
  BY <1>3 DEF WriteStatus, Open, Write, Replace, ReplaceFails, AfterWrite, Places
<1>4. ASSUME Accept(t) PROVE RunnerInTurn(r)'
  BY <1>4 DEF Accept, Places
<1>5. ASSUME Spawn(t) PROVE RunnerInTurn(r)'
  <2>1. RunOf(t) = triggered /\ at[triggered] = "idle"
    BY <1>5 DEF Spawn, ThreadInTurn, AcceptingAlone, Accepting
  <2> QED
    BY <1>5, <2>1 DEF Spawn, Places
<1>6. ASSUME SpawnFails(t) PROVE RunnerInTurn(r)'
  BY <1>6 DEF SpawnFails, Places
<1>7. ASSUME NEW o \in Runs, ReadState(o) PROVE RunnerInTurn(r)'
  <2>1. at[o] = "start" /\ CollectingAlone(t, o) /\ file \in State
    BY <1>7 DEF ReadState
  <2>2. file.run = o
    BY <2>1, NoRunAtAll, ContentsAre DEF CollectingAlone, OnFile
  <2> QED
    BY <1>7, <2>1, <2>2 DEF ReadState, Places
<1>8. ASSUME NEW o \in Runs, ReadFails(o) PROVE RunnerInTurn(r)'
  BY <1>8 DEF ReadFails, Places
<1>9. ASSUME NEW o \in Runs, NEW status \in Ended, Collected(o, status) PROVE RunnerInTurn(r)'
  <2>1. o \in Writers /\ state[o] \in State
    BY <1>9 DEF Collected, HaveStates
  <2> QED
    BY <1>9, <2>1 DEF Collected, State, Ended, Places
<1>10. ASSUME NEW o \in Runs, Kill(o) PROVE RunnerInTurn(r)'
  BY <1>10 DEF Kill, Places
<1> QED
  BY <1>1, <1>2, <1>3, <1>4, <1>5, <1>6, <1>7, <1>8, <1>9, <1>10
     DEF StepWith, Trigger, Runner, Ended

-------------------------------------------------------------------------------
(* Who holds which file open.                                              *)

(* After a rename nobody has the temporary file open: who had, has the     *)
(* state file open.                                                        *)
LEMMA RenamedHandles ==
    ASSUME ControlTypeOK, NEW w \in Writers, Replace(w), NEW o \in Writers
    PROVE  /\ handle'[o] # "temporary"
           /\ handle'[o] = "file" <=> handle[o] = "temporary"
  BY DEF ControlTypeOK, Replace, Renamed, Handles

(* The thread is where its request is.                                     *)
LEMMA NextThreadInTurn ==
    ASSUME NEW t \in Threads, ControlIInv(t), [StepWith(t)]_controlVars
    PROVE  ThreadInTurn(t)'
<1>0. t \in Writers /\ t \notin Runs /\ ThreadInTurn(t) /\ ControlTypeOK /\ HaveStates
  BY WritersAre DEF ControlIInv
<1> USE <1>0, WritersAre DEF files, writers, ThreadInTurn, ControlTypeOK, RunOf
<1>1. CASE UNCHANGED controlVars
  BY <1>1 DEF controlVars
<1>2. CASE Restart
  BY <1>2 DEF Restart
<1>3. ASSUME NEW w \in Writers, WriteStatus(w) PROVE ThreadInTurn(t)'
  BY <1>3 DEF WriteStatus, Open, Write, Replace, ReplaceFails, AfterWrite
<1>4. ASSUME Accept(t) PROVE ThreadInTurn(t)'
  BY <1>4 DEF Accept
<1>5. ASSUME Spawn(t) PROVE ThreadInTurn(t)'
  BY <1>5 DEF Spawn, HaveStates, State
<1>6. ASSUME SpawnFails(t) PROVE ThreadInTurn(t)'
  BY <1>6 DEF SpawnFails
<1>7. ASSUME NEW r \in Runs, ReadState(r) \/ ReadFails(r) \/ Kill(r)
                             \/ \E status \in Ended : Collected(r, status)
      PROVE  ThreadInTurn(t)'
  BY <1>7 DEF ReadState, ReadFails, Kill, Collected
<1> QED
  BY <1>1, <1>2, <1>3, <1>4, <1>5, <1>6, <1>7 DEF StepWith, Trigger, Runner, Ended

(* A request is accepted when no runner collects, nor is about to report.  *)
LEMMA AcceptedAlone ==
    ASSUME NEW t \in Threads, ControlIInv(t), Accept(t), NEW r \in Runs
    PROVE  at[r] \notin {"start", "collect", "open"} /\ handle[r] # "temporary"
<1>1. at[t] = "idle" /\ handle[t] = "closed" /\ ~Busy(file)
  BY WritersAre DEF ControlIInv, OpenWhileWriting, Accept
<1>2. CollectingAlone(t, r) /\ ReportingAlone(t, r)
  BY DEF ControlIInv
<1> QED
  BY <1>1, <1>2 DEF CollectingAlone, ReportingAlone, OnFile

(* Until the runner is spawned nobody else opens a file.                   *)
LEMMA NextAcceptingAlone ==
    ASSUME NEW t \in Threads, ControlIInv(t), [StepWith(t)]_controlVars
    PROVE  AcceptingAlone(t)'
<1>0. /\ t \in Writers /\ t \notin Runs /\ ThreadInTurn(t) /\ AcceptingAlone(t)
      /\ ControlTypeOK /\ HaveStates /\ OpenWhileWriting
      /\ triggered > 0 => triggered \in Runs
  BY WritersAre DEF ControlIInv, ControlTypeOK, Runs
<1>a. \A r \in Runs : RunnerInTurn(r) /\ CollectingAlone(t, r)
  BY DEF ControlIInv
<1> USE <1>0, WritersAre, NoRunAtAll
    DEF files, writers, ThreadInTurn, AcceptingAlone, Accepting, ControlTypeOK, RunOf, OpenWhileWriting
<1>1. CASE UNCHANGED controlVars
  BY <1>1 DEF controlVars
<1>2. CASE Restart
  BY <1>2 DEF Restart
<1>3. ASSUME Open(t) PROVE AcceptingAlone(t)'
  BY <1>3 DEF Open
<1>4. ASSUME Write(t) PROVE AcceptingAlone(t)'
  BY <1>4 DEF Write, Written
<1>5. ASSUME Replace(t) PROVE AcceptingAlone(t)'
  <2>1. \A o \in Writers : handle'[o] # "temporary" /\ (handle'[o] = "file" => handle[o] = "temporary")
    BY <1>5, RenamedHandles
  <2>2. CASE Accepting(t)
    <3>1. file' = state[t] /\ temporary' = Absent /\ \A r \in Runs : handle'[r] # "file"
      BY <1>5, <2>1, <2>2 DEF Replace
    <3>2. state' = state /\ triggered' = triggered /\ at' = [at EXCEPT ![t] = "spawn"]
      BY <1>5, <2>2 DEF Replace, AfterWrite
    <3> QED
      BY <2>1, <2>2, <3>1, <3>2
  <2>3. CASE ~Accepting(t)
    BY <1>5, <2>3 DEF Replace, AfterWrite
  <2> QED
    BY <2>2, <2>3
<1>6. ASSUME ReplaceFails(t) PROVE AcceptingAlone(t)'
  BY <1>6 DEF ReplaceFails
<1>7. ASSUME NEW r \in Runs, Open(r) \/ Write(r) \/ ReplaceFails(r) PROVE AcceptingAlone(t)'
  <2>1. CASE Accepting(t)
    <3>1. at[r] # "open" /\ handle[r] # "temporary" /\ (at[t] = "spawn" => handle[r] # "file")
      BY <1>a, <2>1 DEF CollectingAlone
    <3> QED
      BY <1>7, <2>1, <3>1 DEF Open, Write, ReplaceFails
  <2>2. CASE ~Accepting(t)
    BY <1>7, <2>2 DEF Open, Write, ReplaceFails
  <2> QED
    BY <2>1, <2>2
<1>8. ASSUME NEW r \in Runs, Replace(r) PROVE AcceptingAlone(t)'
  <2>1. \A o \in Writers : handle'[o] # "temporary"
    BY <1>8, RenamedHandles
  <2>2. at[t] # "spawn" \/ ~Accepting(t)
    BY <1>8 DEF Replace
  <2> QED
    BY <1>8, <2>1, <2>2 DEF Replace, AfterWrite
<1>9. ASSUME Accept(t) PROVE AcceptingAlone(t)'
  <2>0. triggered + 1 \in Runs /\ triggered + 1 > triggered
    BY <1>9 DEF Accept, Runs
  <2>1. triggered + 1 \in Runs /\ at[triggered + 1] = "idle"
    BY <1>a, <2>0 DEF RunnerInTurn
  <2>2. \A r \in Runs : handle[r] # "temporary"
    BY <1>9, AcceptedAlone
  <2> QED
    BY <1>9, <2>1, <2>2 DEF Accept
<1>10. ASSUME Spawn(t) PROVE AcceptingAlone(t)'
  BY <1>10 DEF Spawn, HaveStates, State
<1>11. ASSUME SpawnFails(t) PROVE AcceptingAlone(t)'
  BY <1>11 DEF SpawnFails
<1>12. ASSUME NEW r \in Runs, ReadState(r) \/ ReadFails(r)
                             \/ \E status \in Ended : Collected(r, status)
       PROVE  AcceptingAlone(t)'
  <2>1. ~Accepting(t)
    BY <1>12, <1>a DEF ReadState, ReadFails, Collected, CollectingAlone
  <2> QED
    BY <1>12, <2>1 DEF ReadState, ReadFails, Collected
<1>13. ASSUME NEW r \in Runs, Kill(r) PROVE AcceptingAlone(t)'
  BY <1>13 DEF Kill
<1> QED
  BY <1>1, <1>2, <1>3, <1>4, <1>5, <1>6, <1>7, <1>8, <1>9, <1>10, <1>11, <1>12, <1>13
     DEF StepWith, Trigger, Runner, WriteStatus, Ended

(* Until a runner opens a file itself, only the thread does.               *)
LEMMA NextCollectingAlone ==
    ASSUME NEW t \in Threads, ControlIInv(t), [StepWith(t)]_controlVars, NEW r \in Runs
    PROVE  CollectingAlone(t, r)'
<1>0. /\ t \in Writers /\ t \notin Runs /\ r \in Writers /\ ThreadInTurn(t) /\ AcceptingAlone(t)
      /\ ControlTypeOK /\ HaveStates /\ OpenWhileWriting
      /\ CollectingAlone(t, r) /\ r # 0
  BY WritersAre DEF ControlIInv
<1>a. \A o \in Runs : RunnerInTurn(o) /\ CollectingAlone(t, o)
  BY DEF ControlIInv
<1> USE <1>0, WritersAre, NoRunAtAll
    DEF files, writers, ThreadInTurn, CollectingAlone, Accepting, OnFile, ControlTypeOK, RunOf,
        OpenWhileWriting, Busy
<1>1. CASE UNCHANGED controlVars
  BY <1>1 DEF controlVars
<1>2. CASE Restart
  BY <1>2 DEF Restart
<1>3. ASSUME Open(t) PROVE CollectingAlone(t, r)'
  BY <1>3 DEF Open
<1>4. ASSUME Write(t) PROVE CollectingAlone(t, r)'
  BY <1>4 DEF Write, Written
<1>5. ASSUME Replace(t) PROVE CollectingAlone(t, r)'
  <2>1. \A o \in Writers : handle'[o] # "temporary" /\ (handle'[o] = "file" => handle[o] = "temporary")
    BY <1>5, RenamedHandles
  <2> QED
    BY <1>5, <2>1 DEF Replace, AfterWrite
<1>6. ASSUME ReplaceFails(t) PROVE CollectingAlone(t, r)'
  BY <1>6 DEF ReplaceFails
<1>7. ASSUME NEW o \in Runs, Open(o) PROVE CollectingAlone(t, r)'
  BY <1>7, <1>a DEF Open
<1>8. ASSUME NEW o \in Runs, Write(o) \/ ReplaceFails(o) PROVE CollectingAlone(t, r)'
  BY <1>8 DEF Write, ReplaceFails
<1>9. ASSUME NEW o \in Runs, Replace(o) PROVE CollectingAlone(t, r)'
  <2>1. \A v \in Writers : handle'[v] # "temporary" /\ (handle'[v] = "file" <=> handle[v] = "temporary")
    BY <1>9, RenamedHandles
  <2> QED
    BY <1>9, <2>1 DEF Replace, AfterWrite
<1>10. ASSUME Accept(t) PROVE CollectingAlone(t, r)'
  BY <1>10, AcceptedAlone DEF Accept
<1>11. ASSUME Spawn(t) PROVE CollectingAlone(t, r)'
  <2>1. at[r] \notin {"start", "collect", "open"}
    BY <1>11 DEF Spawn
  <2>2. \A o \in Runs : handle[o] \notin {"temporary", "file"}
    BY <1>11 DEF Spawn, AcceptingAlone
  <2> QED
    BY <1>11, <2>1, <2>2 DEF Spawn, AcceptingAlone
<1>12. ASSUME SpawnFails(t) PROVE CollectingAlone(t, r)'
  BY <1>12 DEF SpawnFails
<1>13. ASSUME NEW o \in Runs, ReadState(o) \/ ReadFails(o)
                             \/ \E status \in Ended : Collected(o, status)
       PROVE  CollectingAlone(t, r)'
  BY <1>13 DEF ReadState, ReadFails, Collected
<1>14. ASSUME NEW o \in Runs, Kill(o) PROVE CollectingAlone(t, r)'
  BY <1>14 DEF Kill
<1> QED
  BY <1>1, <1>2, <1>3, <1>4, <1>5, <1>6, <1>7, <1>8, <1>9, <1>10, <1>11, <1>12, <1>13, <1>14
     DEF StepWith, Trigger, Runner, WriteStatus, Ended

(* A runner holds the temporary file until somebody renames it.            *)
LEMMA NextReportingAlone ==
    ASSUME NEW t \in Threads, ControlIInv(t), [StepWith(t)]_controlVars, NEW r \in Runs
    PROVE  ReportingAlone(t, r)'
<1>0. /\ t \in Writers /\ t \notin Runs /\ r \in Writers /\ ThreadInTurn(t) /\ AcceptingAlone(t)
      /\ ControlTypeOK /\ HaveStates /\ OpenWhileWriting
      /\ ReportingAlone(t, r) /\ CollectingAlone(t, r) /\ r # 0
  BY WritersAre DEF ControlIInv
<1>a. \A o \in Runs : CollectingAlone(t, o)
  BY DEF ControlIInv
<1> USE <1>0, WritersAre, NoRunAtAll
    DEF files, writers, ThreadInTurn, ReportingAlone, Accepting, OnFile, ControlTypeOK, RunOf,
        OpenWhileWriting, Busy
<1>1. CASE UNCHANGED controlVars
  BY <1>1 DEF controlVars
<1>2. CASE Restart
  BY <1>2 DEF Restart
<1>3. ASSUME Open(t) PROVE ReportingAlone(t, r)'
  BY <1>3 DEF Open
<1>4. ASSUME Write(t) PROVE ReportingAlone(t, r)'
  BY <1>4 DEF Write, Written
<1>5. ASSUME NEW w \in Writers, Replace(w) PROVE ReportingAlone(t, r)'
  BY <1>5, RenamedHandles
<1>6. ASSUME ReplaceFails(t) PROVE ReportingAlone(t, r)'
  BY <1>6 DEF ReplaceFails
<1>7. ASSUME NEW o \in Runs, Open(o) PROVE ReportingAlone(t, r)'
  BY <1>7, <1>a DEF Open, CollectingAlone
<1>8. ASSUME NEW o \in Runs, Write(o) \/ ReplaceFails(o) PROVE ReportingAlone(t, r)'
  BY <1>8 DEF Write, ReplaceFails
<1>9. ASSUME Accept(t) PROVE ReportingAlone(t, r)'
  BY <1>9, AcceptedAlone DEF Accept
<1>10. ASSUME Spawn(t) PROVE ReportingAlone(t, r)'
  BY <1>10 DEF Spawn
<1>11. ASSUME SpawnFails(t) PROVE ReportingAlone(t, r)'
  BY <1>11 DEF SpawnFails
<1>12. ASSUME NEW o \in Runs, ReadState(o) \/ ReadFails(o)
                             \/ \E status \in Ended : Collected(o, status)
       PROVE  ReportingAlone(t, r)'
  BY <1>12, <1>a DEF ReadState, ReadFails, Collected, CollectingAlone
<1>13. ASSUME NEW o \in Runs, Kill(o) PROVE ReportingAlone(t, r)'
  BY <1>13 DEF Kill
<1> QED
  BY <1>1, <1>2, <1>3, <1>4, <1>5, <1>6, <1>7, <1>8, <1>9, <1>10, <1>11, <1>12, <1>13
     DEF StepWith, Trigger, Runner, WriteStatus, Ended

-------------------------------------------------------------------------------
(* The order of the runs on file.                                          *)

(* Writers are about a run that was triggered, and whoever has the         *)
(* temporary file open is about the latest.                                *)
LEMMA RunsOfWriters ==
    ASSUME NEW t \in Threads, ControlIInv(t), NEW w \in Writers
    PROVE  /\ RunOf(w) \in Nat
           /\ at[w] = "write" => RunOf(w) # 0 /\ RunOf(w) <= triggered
           /\ handle[w] = "temporary" => RunOf(w) = triggered
<1>1. /\ state[w] \in Contents /\ triggered \in Nat
      /\ handle[w] # "closed" <=> at[w] = "write"
  BY DEF ControlIInv, ControlTypeOK, Contents, OpenWhileWriting
<1>2. CASE w = t
  <2>1. ThreadInTurn(t)
    BY DEF ControlIInv
  <2> QED
    BY <1>1, <1>2, <2>1, ContentsAre DEF ThreadInTurn, RunOf
<1>3. CASE w \in Runs
  <2>1. RunnerInTurn(w) /\ ReportingAlone(t, w) /\ w \in Nat /\ w > 0
    BY <1>3, WritersAre DEF ControlIInv
  <2> QED
    BY <1>1, <2>1, ContentsAre DEF RunnerInTurn, ReportingAlone, RunOf
<1>4. CASE w \in Threads \ {t}
  <2>1. at[w] = "idle" /\ handle[w] = "closed"
    BY <1>1, <1>4 DEF ControlIInv, Alone, ControlTypeOK, OpenWhileWriting
  <2> QED
    BY <1>1, <2>1, ContentsAre DEF RunOf
<1> QED
  BY <1>2, <1>3, <1>4, WritersAre

(* A writer keeps its run while it writes.                                 *)
LEMMA RunsStay ==
    ASSUME NEW t \in Threads, ControlIInv(t), [StepWith(t)]_controlVars, NEW w \in Writers, at'[w] = "write"
    PROVE  RunOf(w)' = RunOf(w)
<1>1. at[w] \in {"open", "write"}
  BY DEF ControlIInv, ControlTypeOK, StepWith, controlVars, files, writers, Restart, Trigger,
       Runner, WriteStatus,
     Open, Write, Replace, ReplaceFails, AfterWrite, Accept, Spawn, SpawnFails, ReadState,
     ReadFails, Collected, Kill
<1> QED
  BY <1>1 DEF ControlIInv, ControlTypeOK, StepWith, controlVars, files, writers, Restart,
       Trigger, Runner, WriteStatus,
     Open, Write, Replace, ReplaceFails, Accept, Spawn, SpawnFails, ReadState, ReadFails,
     Collected, Kill, RunOf

(* A write is of the writer's own run.                                     *)
LEMMA WrittenRuns ==
    ASSUME ControlTypeOK, NEW w \in Writers, NEW c \in Contents, NEW d \in Written(c, w)
    PROVE  d.run \in {0, RunOf(w)}
  BY NoRunAtAll DEF Written, RunOf

HeldBy(w) ==
    /\ handle[w] = "temporary" => temporary.run \in {0, triggered}
    /\ handle[w] = "file" =>
         /\ file.run \in {0, RunOf(w)}
         /\ temporary.run # 0 => RunOf(w) <= temporary.run

(* Whoever holds a file open finds nothing in it of another run.           *)
LEMMA NextHeldFiles ==
    ASSUME NEW t \in Threads, ControlIInv(t), [StepWith(t)]_controlVars
    PROVE  HeldFiles'
<1>0. /\ ControlTypeOK /\ HaveStates /\ OpenWhileWriting /\ RunsInOrder /\ triggered \in Nat
      /\ \A w \in Writers : HeldBy(w)
      /\ \A v, w \in Writers : handle[v] = "file" /\ handle[w] = "file" => RunOf(v) = RunOf(w)
  BY DEF ControlIInv, ControlTypeOK, HeldFiles, HeldBy
<1>a. \A w \in Writers :
        /\ RunOf(w) \in Nat
        /\ at[w] = "write" => RunOf(w) # 0 /\ RunOf(w) <= triggered
        /\ handle[w] = "temporary" => RunOf(w) = triggered
  BY RunsOfWriters
<1>b. \A w \in Writers : handle'[w] # "closed" => RunOf(w)' = RunOf(w)
  BY RunsStay, NextOpenWhileWriting DEF OpenWhileWriting
<1>c. /\ file.run \in Nat /\ temporary.run \in Nat
  BY <1>0, ContentsAre DEF ControlTypeOK
<1> USE NoRunAtAll DEF files, writers
<1>1. CASE UNCHANGED <<files, handle, triggered>>
  BY <1>0, <1>1, <1>b DEF HeldFiles, HeldBy
<1>2. CASE Restart
  BY <1>2, <1>0 DEF Restart, HeldFiles
<1>3. ASSUME NEW w \in Writers, Open(w) PROVE HeldFiles'
  <2>1. handle' = [handle EXCEPT ![w] = "temporary"] /\ temporary'.run = 0 /\ file' = file
    BY <1>3 DEF Open
  <2> QED
    BY <1>0, <1>b, <2>1 DEF HeldFiles, HeldBy, ControlTypeOK
<1>4. ASSUME NEW w \in Writers, Write(w) PROVE HeldFiles'
  <2>1. /\ handle' = [handle EXCEPT ![w] = "closed"] /\ triggered' = triggered
        /\ handle[w] = "temporary" => temporary'.run \in {0, RunOf(w)}
        /\ handle[w] # "temporary" => temporary' = temporary
        /\ handle[w] = "file" => file'.run \in {0, RunOf(w)}
        /\ handle[w] # "file" => file' = file
    BY <1>0, <1>4, WrittenRuns DEF Write, ControlTypeOK
  <2>2. \A v \in Writers : handle'[v] # "closed" => v # w /\ handle'[v] = handle[v] /\ at[v] = "write"
    BY <1>0, <2>1 DEF ControlTypeOK, OpenWhileWriting
  <2>3. ASSUME NEW v \in Writers PROVE HeldBy(v)'
    <3>1. CASE handle'[v] = "closed"
      BY <3>1 DEF HeldBy
    <3>2. CASE handle'[v] = "temporary"
      <4>1. temporary.run \in {0, triggered}
        BY <1>0, <2>2, <3>2 DEF HeldBy
      <4> QED
        BY <1>a, <2>1, <3>2, <4>1 DEF HeldBy
    <3>3. CASE handle'[v] = "file"
      <4>1. /\ file.run \in {0, RunOf(v)} /\ (temporary.run # 0 => RunOf(v) <= temporary.run)
            /\ RunOf(v) <= triggered /\ RunOf(v)' = RunOf(v)
            /\ handle[w] = "file" => RunOf(w) = RunOf(v)
        BY <1>0, <1>a, <1>b, <2>2, <3>3 DEF HeldBy
      <4> QED
        BY <1>a, <2>1, <3>3, <4>1 DEF HeldBy
    <3>4. CASE handle'[v] = "unlinked"
      BY <3>4 DEF HeldBy
    <3> QED
      BY <1>0, <2>1, <3>1, <3>2, <3>3, <3>4 DEF ControlTypeOK, Handles
  <2>4. \A u, v \in Writers : handle'[u] = "file" /\ handle'[v] = "file" => RunOf(u)' = RunOf(v)'
    BY <1>0, <1>b, <2>2
  <2> QED
    BY <2>3, <2>4 DEF HeldFiles, HeldBy
<1>5. ASSUME NEW w \in Writers, Replace(w) PROVE HeldFiles'
  <2>1. /\ file' = temporary /\ temporary'.run = 0
        /\ \A v \in Writers : handle'[v] # "temporary" /\ (handle'[v] = "file" => handle[v] = "temporary")
    BY <1>0, <1>5, RenamedHandles DEF Replace
  <2>2. \A v \in Writers : handle'[v] = "file" => RunOf(v)' = triggered /\ file'.run \in {0, triggered}
    BY <1>0, <1>a, <1>b, <2>1 DEF HeldBy
  <2> QED
    BY <2>1, <2>2 DEF HeldFiles
<1>6. CASE Accept(t)
  <2>1. /\ \A r \in Runs : handle[r] # "temporary"
        /\ \A u \in Threads : handle[u] # "temporary"
        /\ UNCHANGED <<file, temporary, handle>>
    BY <1>0, <1>6, AcceptedAlone, WritersAre DEF Accept, OpenWhileWriting, ControlIInv, Alone
  <2> QED
    BY <1>0, <1>b, <2>1, WritersAre DEF HeldFiles, HeldBy
<1>7. ASSUME NEW r \in Runs, Kill(r) PROVE HeldFiles'
  <2>1. UNCHANGED <<file, temporary, triggered>> /\ \A v \in Writers : handle'[v] \in {handle[v], "closed"}
    BY <1>0, <1>7 DEF Kill, ControlTypeOK
  <2> QED
    BY <1>0, <1>b, <2>1 DEF HeldFiles, HeldBy
<1> QED
  BY <1>1, <1>2, <1>3, <1>4, <1>5, <1>6, <1>7, WritersAre
     DEF StepWith, controlVars, Trigger, Runner, WriteStatus, ReplaceFails, Spawn, SpawnFails,
          ReadState,
         ReadFails, Collected

(* The state file goes on to the same or a later run.                      *)
GoesOn ==
    /\ RunsInOrder'
    /\ file.run # 0 /\ file'.run # 0 => file.run <= file'.run

(* The state file never goes back to an earlier run.                       *)
LEMMA NextRunsInOrder ==
    ASSUME NEW t \in Threads, ControlIInv(t), [StepWith(t)]_controlVars
    PROVE  GoesOn
<1>0. /\ ControlTypeOK /\ HaveStates /\ OpenWhileWriting /\ RunsInOrder /\ HeldFiles /\ triggered \in Nat
      /\ file.run \in Nat /\ temporary.run \in Nat
  BY ContentsAre DEF ControlIInv, ControlTypeOK
<1>a. \A w \in Writers :
        /\ RunOf(w) \in Nat
        /\ at[w] = "write" => RunOf(w) <= triggered
        /\ handle[w] = "temporary" => RunOf(w) = triggered
  BY RunsOfWriters
<1> USE NoRunAtAll DEF files, writers, GoesOn, RunsInOrder
<1>1. CASE UNCHANGED <<files, triggered>>
  BY <1>0, <1>1
<1>2. ASSUME NEW w \in Writers, Open(w) PROVE GoesOn
  BY <1>0, <1>2 DEF Open
<1>3. ASSUME NEW w \in Writers, Write(w) PROVE GoesOn
  <2>1. /\ triggered' = triggered /\ at[w] = "write"
        /\ handle[w] = "temporary" => temporary'.run \in {0, RunOf(w)}
        /\ handle[w] # "temporary" => temporary' = temporary
        /\ handle[w] = "file" => file'.run \in {0, RunOf(w)}
        /\ handle[w] # "file" => file' = file
    BY <1>0, <1>3, WrittenRuns DEF Write, ControlTypeOK
  <2>2. handle[w] = "file" => /\ file.run \in {0, RunOf(w)}
                              /\ temporary.run # 0 => RunOf(w) <= temporary.run
    BY <1>0 DEF HeldFiles
  <2> QED
    BY <1>0, <1>a, <2>1, <2>2
<1>4. ASSUME NEW w \in Writers, Replace(w) PROVE GoesOn
  BY <1>0, <1>4 DEF Replace
<1>5. CASE Accept(t)
  BY <1>0, <1>5 DEF Accept
<1> QED
  BY <1>1, <1>2, <1>3, <1>4, <1>5, WritersAre
     DEF StepWith, controlVars, Restart, Trigger, Runner, WriteStatus, ReplaceFails, Spawn,
          SpawnFails,
         ReadState, ReadFails, Collected, Kill

-------------------------------------------------------------------------------
(* The inductive invariant, and what follows from it.                      *)

(* The invariant at the beginning.                                         *)
LEMMA InitControlIInv ==
    ASSUME NEW t \in Threads, ControlInit
    PROVE  ControlIInv(t)
<1>0. MaxRuns \in Nat /\ MaxFaults \in Nat
  BY ControlAssumption
<1>1. ControlTypeOK /\ HaveStates
  <2>1. overlapped \in BOOLEAN
    BY DEF ControlInit
  <2>2. triggered \in 0 .. MaxRuns /\ controlFaults \in 0 .. MaxFaults
    BY <1>0 DEF ControlInit
  <2> QED
    BY <2>1, <2>2, NoRunAtAll DEF ControlInit, ControlTypeOK, HaveStates, Places, Handles
<1>a. OpenWhileWriting /\ HeldFiles /\ RunsInOrder /\ Honest(file) /\ Honest(temporary)
  BY NoRunAtAll DEF ControlInit, OpenWhileWriting, HeldFiles, RunsInOrder, Honest, Ended
<1>2. Alone(t) /\ ThreadInTurn(t) /\ AcceptingAlone(t)
  BY WritersAre DEF ControlInit, Alone, ThreadInTurn, AcceptingAlone, Accepting
<1>3. \A r \in Runs : RunnerInTurn(r) /\ CollectingAlone(t, r) /\ ReportingAlone(t, r)
  BY WritersAre DEF ControlInit, RunnerInTurn, CollectingAlone, ReportingAlone, Places
<1> QED
  BY <1>1, <1>a, <1>2, <1>3 DEF ControlIInv

(* The other threads stay idle.                                            *)
LEMMA NextAlone ==
    ASSUME NEW t \in Threads, ControlIInv(t), [StepWith(t)]_controlVars
    PROVE  Alone(t)'
<1>1. \A u \in Threads \ {t} : u \in Writers /\ u \notin Runs /\ u # t /\ at[u] = "idle"
  BY WritersAre DEF ControlIInv, Alone
<1>2. /\ ControlTypeOK
      /\ at[t] = "spawn" => RunOf(t) \in Runs
  BY DEF ControlIInv, HaveStates, RunOf, State, Writers
<1> QED
  BY <1>1, <1>2 DEF Alone, StepWith, controlVars, files, writers, RunOf, ControlTypeOK, Restart,
       Trigger, Runner,
     WriteStatus, Open, Write, Replace, ReplaceFails, Accept, Spawn, SpawnFails, ReadState,
     ReadFails, Collected, Kill

(* A step of t, a runner or a restart keeps the invariant.                 *)
LEMMA NextControlIInv ==
    ASSUME NEW t \in Threads, ControlIInv(t), [StepWith(t)]_controlVars
    PROVE  ControlIInv(t)'
<1>0. [ControlNext]_controlVars
  BY DEF StepWith, ControlNext
<1>1. ControlTypeOK' /\ HaveStates'
  BY <1>0, NextControlTypeOK, NextHaveStates DEF ControlIInv
<1>2. OpenWhileWriting' /\ HeldFiles' /\ Alone(t)'
  BY NextOpenWhileWriting, NextHeldFiles, NextAlone
<1>3. Honest(file)' /\ Honest(temporary)' /\ RunsInOrder'
  BY NextHonest, NextRunsInOrder DEF GoesOn
<1>4. ThreadInTurn(t)' /\ AcceptingAlone(t)'
  BY NextThreadInTurn, NextAcceptingAlone
<1>5. \A r \in Runs : RunnerInTurn(r)' /\ CollectingAlone(t, r)' /\ ReportingAlone(t, r)'
  BY NextRunnerInTurn, NextCollectingAlone, NextReportingAlone
<1> QED
  BY <1>1, <1>2, <1>3, <1>4, <1>5 DEF ControlIInv

(* When no request is under way, the next may come to any thread.          *)
LEMMA AnyThread ==
    ASSUME NEW t \in Threads, ControlIInv(t), at[t] = "idle", NEW u \in Threads
    PROVE  ControlIInv(u)
<1>1. /\ ControlTypeOK /\ HaveStates /\ OpenWhileWriting /\ HeldFiles /\ RunsInOrder
      /\ Honest(file) /\ Honest(temporary)
      /\ \A r \in Runs : RunnerInTurn(r) /\ CollectingAlone(t, r) /\ ReportingAlone(t, r)
  BY DEF ControlIInv
<1>2. \A v \in Threads : at[v] = "idle" /\ handle[v] = "closed"
  BY <1>1, WritersAre DEF ControlIInv, Alone, OpenWhileWriting
<1>3. Alone(u) /\ ThreadInTurn(u) /\ AcceptingAlone(u)
  BY <1>2 DEF Alone, ThreadInTurn, AcceptingAlone, Accepting
<1>4. \A r \in Runs : CollectingAlone(u, r) /\ ReportingAlone(u, r)
  BY <1>1, <1>2 DEF CollectingAlone, ReportingAlone, Accepting, OnFile
<1> QED
  BY <1>1, <1>3, <1>4 DEF ControlIInv

(* As long as requests do not overlap, each step is taken by the thread    *)
(* whose request is under way, or is to be, by a runner, or by a restart.  *)
LEMMA OneInTurn ==
    ASSUME NEW t \in Threads, ControlIInv(t), [ControlNext]_controlVars, ~overlapped'
    PROVE  \E u \in Threads : ControlIInv(u) /\ [StepWith(u)]_controlVars
<1>1. CASE [StepWith(t)]_controlVars
  BY <1>1
<1>2. ASSUME NEW u \in Threads, u # t, Trigger(u)
      PROVE  ControlIInv(u) /\ StepWith(u)
  <2>1. at[u] = "idle" /\ Accept(u)
    BY <1>2 DEF ControlIInv, Alone, Trigger, WriteStatus, Open, Write, Replace, ReplaceFails, Spawn,
       SpawnFails
  <2>2. at[t] = "idle"
    BY <2>1 DEF Accept
  <2> QED
    BY <1>2, <2>2, AnyThread DEF StepWith
<1> QED
  BY <1>1, <1>2 DEF ControlNext, StepWith

(* What has overlapped has overlapped.                                     *)
LEMMA OverlapStays ==
    ASSUME [ControlNext]_controlVars, overlapped
    PROVE  overlapped'
  BY DEF ControlNext, controlVars, Restart, Trigger, Runner, WriteStatus, Open, Write, Replace,
       ReplaceFails,
     Accept, Spawn, SpawnFails, ReadState, ReadFails, Collected, Kill

(* The inductive invariant of the control of collections: what holds of    *)
(* the thread whose request is under way, until requests overlap.          *)
THEOREM ControlInvariance == ControlSpec => []ControlInv
<1>1. ControlInit => ControlInv
  <2> SUFFICES ASSUME ControlInit PROVE ControlInv
    OBVIOUS
  <2>1. PICK t \in Threads : TRUE
    BY ControlAssumption
  <2>2. ControlIInv(t)
    BY InitControlIInv
  <2> QED
    BY <2>1, <2>2 DEF ControlInv, ControlIInv
<1>2. ControlInv /\ [ControlNext]_controlVars => ControlInv'
  <2> SUFFICES ASSUME ControlInv, [ControlNext]_controlVars PROVE ControlInv'
    OBVIOUS
  <2>1. ControlTypeOK' /\ HaveStates'
    BY NextControlTypeOK, NextHaveStates DEF ControlInv
  <2>2. ASSUME ~overlapped' PROVE \E t \in Threads : ControlIInv(t)'
    <3>1. PICK t \in Threads : ControlIInv(t)
      BY <2>2, OverlapStays DEF ControlInv
    <3>2. PICK u \in Threads : ControlIInv(u) /\ [StepWith(u)]_controlVars
      BY <2>2, <3>1, OneInTurn
    <3>3. ControlIInv(u)'
      BY <3>2, NextControlIInv
    <3> QED
      BY <3>3
  <2> QED
    BY <2>1, <2>2 DEF ControlInv
<1> QED
  BY <1>1, <1>2, PTL DEF ControlSpec

(* trigger refuses a request while a run is queued or running on file, so  *)
(* that, unless requests overlap, no two runners collect at a time,        *)
(* although earlier ones may still be writing how they ended.              *)
THEOREM OneRunnerCollects == ControlSpec => []SingleRun
<1>1. ControlInv => SingleRun
  <2> SUFFICES ASSUME ControlInv, ~overlapped PROVE Cardinality(Collecting) <= 1
    BY DEF ControlInv, SingleRun
  <2>1. PICK t \in Threads : ControlIInv(t)
    BY DEF ControlInv
  <2>2. Collecting \subseteq {triggered}
    BY <2>1 DEF ControlIInv, CollectingAlone, Collecting
  <2>3. IsFiniteSet({triggered}) /\ Cardinality({triggered}) = 1
    BY FS_Singleton
  <2>4. Cardinality(Collecting) \in Nat /\ Cardinality(Collecting) <= Cardinality({triggered})
    BY <2>2, <2>3, FS_Subset, FS_CardinalityType
  <2> QED
    BY <2>3, <2>4
<1> QED
  BY <1>1, ControlInvariance, PTL

(* Unless requests overlap, the state file never reports another end of a  *)
(* run than it had, though several writers share its temporary file.       *)
THEOREM ReportsAreHonest == ControlSpec => []ReportIsHonest
<1>1. ControlInv => ReportIsHonest
  BY DEF ControlInv, ControlIInv, Honest, Ended, ReportIsHonest
<1> QED
  BY <1>1, ControlInvariance, PTL

(* Unless requests overlap, a late write of an earlier run never replaces  *)
(* a later run on file.                                                    *)
THEOREM NewestRunStays == ControlSpec => NewestRunOnFile
<1>1. ControlInv /\ [ControlNext]_controlVars =>
        [~overlapped' /\ {file, file'} \subseteq State => file.run <= file'.run]_controlVars
  <2> SUFFICES ASSUME ControlInv, [ControlNext]_controlVars, ~overlapped', file \in State, file' \in State
               PROVE  file.run <= file'.run
    OBVIOUS
  <2>1. PICK t \in Threads : ControlIInv(t)
    BY OverlapStays DEF ControlInv
  <2>2. PICK u \in Threads : ControlIInv(u) /\ [StepWith(u)]_controlVars
    BY <2>1, OneInTurn
  <2>3. file.run # 0 /\ file'.run # 0
    BY WritersAre, <2>1 DEF State
  <2> QED
    BY <2>2, <2>3, NextRunsInOrder DEF GoesOn
<1> QED
  BY <1>1, ControlInvariance, PTL DEF ControlSpec, NewestRunOnFile
===============================================================================
